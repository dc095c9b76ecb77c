---------------------------- MODULE SamlBrowserTest ----------------------------
(***************************************************************************)
(* deploy/test-saml-browser.py end to end: main runs either run_tests (one *)
(* login/logout test per TEST_USERS entry) or run_export_cookies (one     *)
(* login, then the __gw_session cookie printed).  Both wait for the        *)
(* services (ServiceWait, implemented by SamlWait), call setup_saml_config *)
(* (SamlSetup) and sleep before the browser starts.                        *)
(*                                                                         *)
(* The gateway's state is the setup's server state, the SSO config it has *)
(* loaded, and its live sessions; it may hold anything earlier runs left. *)
(* Playwright's pages are abstracted to what the gateway does with them:  *)
(* a login redirects to Authentik only for a configured and loaded org,   *)
(* Authentik's form may time out, and the ACS either creates a session or *)
(* fails (then /auth/me answers a JSON 401 body without "email").         *)
(***************************************************************************)
EXTENDS SamlSetup, FiniteSets

CONSTANTS
    Users,        \* the usernames of TEST_USERS, in order
    NoUser        \* a --export-cookies-for username not in TEST_USERS

VARIABLES
    mode,         \* "tests" or "export" (--export-cookies-for given)
    exportFor,    \* the --export-cookies-for username
    keepAlive,    \* --keep-alive
    waitResult,   \* the outcome of the two service waits
    loaded,       \* gateway: the SSO config is loaded and serves logins
    sessions,     \* gateway: users with a live session
    pc,           \* where run_tests / run_export_cookies is
    uIdx,         \* the TEST_USERS entry being tested
    results,      \* results: one boolean per tested user
    jar,          \* the browser context's cookies
    printed,      \* what went to stdout: {} or {the cookie}
    exitCode,     \* {} while running, then {the sys.exit code}
    loggedIn      \* history: users whose ACS created a session this run

Wait == INSTANCE ServiceWait

browserVars == <<mode, exportFor, keepAlive, waitResult, loaded, sessions, pc, uIdx,
                 results, jar, printed, exitCode, loggedIn>>
vars == <<setupVars, browserVars>>

Cookie(name, u) == [name |-> name, user |-> u]
Configured == org /\ sso /\ loaded

\* The user under test.
Current == IF mode = "tests" THEN Users[uIdx] ELSE exportFor

\* main: the flags, over a gateway in any state earlier runs can leave.
BrowserInit ==
    /\ org \in BOOLEAN /\ teams \in SUBSET AllTeams /\ sso \in BOOLEAN
    /\ mappings \in SUBSET teams /\ loaded \in BOOLEAN
    /\ (teams # {} \/ sso) => org
    /\ loaded => sso
    /\ SetupStart /\ runs = 1
    /\ mode \in {"tests", "export"}
    /\ exportFor \in ToSet(Users) \cup {NoUser}
    /\ keepAlive \in BOOLEAN
    /\ Wait!ServiceWaitInit
    /\ sessions = {}
    /\ pc = IF mode = "export" THEN "lookup" ELSE "wait"
    /\ uIdx = 1 /\ results = <<>> /\ jar = {} /\ printed = {}
    /\ exitCode = {} /\ loggedIn = {}

Exit(code) == pc' = "exit" /\ exitCode' = {code}

\* run_export_cookies: an unknown username exits 1 before anything else.
LookupUser ==
    /\ pc = "lookup"
    /\ IF exportFor = NoUser THEN Exit(1) ELSE pc' = "wait" /\ UNCHANGED exitCode
    /\ UNCHANGED <<setupVars, mode, exportFor, keepAlive, waitResult, loaded, sessions,
                   uIdx, results, jar, printed, loggedIn>>

\* wait_for_gateway, then wait_for_authentik: False exits 1, and so does an
\* exception (the traceback ends the script).
WaitForServices ==
    /\ pc = "wait"
    /\ Wait!WaitEnd
    /\ IF waitResult' = "ready" THEN pc' = "setup" /\ UNCHANGED exitCode ELSE Exit(1)
    /\ UNCHANGED <<setupVars, mode, exportFor, keepAlive, loaded, sessions,
                   uIdx, results, jar, printed, loggedIn>>

\* One step of setup_saml_config.
SetupStep ==
    /\ pc = "setup"
    /\ CreateOrg \/ GetOrg \/ CreateTeam \/ CreateSso \/ CreateMapping \/ SetupDone
    /\ UNCHANGED browserVars

\* setup_saml_config returned or raised.  run_tests exits 1 on False;
\* run_export_cookies ignores the result.  Then time.sleep(3) or (2).
SetupReturned ==
    /\ pc = "setup" /\ spc \in SetupEnded
    /\ IF spc = "raised" \/ (spc = "false" /\ mode = "tests")
       THEN Exit(1)
       ELSE pc' = "browser" /\ UNCHANGED exitCode
    /\ UNCHANGED <<setupVars, mode, exportFor, keepAlive, waitResult, loaded, sessions,
                   uIdx, results, jar, printed, loggedIn>>

\* The gateway picks up an SSO config that exists; nothing bounds when.
LoadConfig ==
    /\ sso /\ ~loaded
    /\ loaded' = TRUE
    /\ UNCHANGED <<setupVars, mode, exportFor, keepAlive, waitResult, sessions, pc,
                   uIdx, results, jar, printed, exitCode, loggedIn>>

\* Mutant: the gateway's cookie is looked for under a misspelt name.
SamlLoginCookieTypo(reached, ok) ==
    \/ /\ ~reached /\ ~ok
       /\ jar' = {}
       /\ UNCHANGED <<sessions, loggedIn>>
    \/ /\ reached /\ Configured
       /\ jar' = {Cookie("authentik_session", Current)}
                 \cup (IF ok THEN {Cookie("gw_session", Current)} ELSE {})
       /\ sessions' = IF ok THEN sessions \cup {Current} ELSE sessions
       /\ loggedIn' = IF ok THEN loggedIn \cup {Current} ELSE loggedIn

(***************************************************************************)
(* perform_saml_login for Current in a new context.  Either it fails: no   *)
(* redirect to Authentik, or Authentik's form or the redirect back times   *)
(* out; or the gateway's ACS runs (`reached`), creating a session (cookie  *)
(* __gw_session next to Authentik's) or not.  `ok` is whether /auth/me     *)
(* then shows the user's email and name.                                   *)
(***************************************************************************)
SamlLogin(reached, ok) ==
    \/ /\ ~reached /\ ~ok
       /\ jar' = {}
       /\ UNCHANGED <<sessions, loggedIn>>
    \/ /\ reached /\ Configured
       /\ jar' = {Cookie("authentik_session", Current)}
                 \cup (IF ok THEN {Cookie("__gw_session", Current)} ELSE {})
       /\ sessions' = IF ok THEN sessions \cup {Current} ELSE sessions
       /\ loggedIn' = IF ok THEN loggedIn \cup {Current} ELSE loggedIn

\* Mutant: the test goes on to logout whenever /auth/me was reached.
LoginThenReached(reached, ok) ==
    IF reached
    THEN pc' = "logout" /\ UNCHANGED <<uIdx, results>>
    ELSE /\ results' = Append(results, FALSE) /\ uIdx' = uIdx + 1
         /\ UNCHANGED pc

\* test_saml_login_logout up to the email and name checks: a failure or a
\* mismatch records False and the next user is tested.
LoginThen(reached, ok) ==
    IF ok
    THEN pc' = "logout" /\ UNCHANGED <<uIdx, results>>
    ELSE /\ results' = Append(results, FALSE) /\ uIdx' = uIdx + 1
         /\ UNCHANGED pc

TestLogin ==
    /\ pc = "browser" /\ mode = "tests" /\ uIdx <= Len(Users)
    /\ \E reached, ok \in BOOLEAN : SamlLogin(reached, ok) /\ LoginThen(reached, ok)
    /\ UNCHANGED <<setupVars, mode, exportFor, keepAlive, waitResult, loaded, printed, exitCode>>

\* GET /auth/saml/slo, then GET /auth/me: either answer logs "Logout
\* successful" and the test passes.  The SLO may or may not end the session.
TestLogout ==
    /\ pc = "logout"
    /\ \E ended \in BOOLEAN :
          sessions' = IF ended THEN sessions \ {Current} ELSE sessions
    /\ results' = Append(results, TRUE) /\ uIdx' = uIdx + 1
    /\ pc' = "browser" /\ jar' = {}
    /\ UNCHANGED <<setupVars, mode, exportFor, keepAlive, waitResult, loaded, printed,
                   exitCode, loggedIn>>

\* Mutant: the keep-alive loop is entered whatever the flag says.
SummaryAlwaysKeepAlive ==
    /\ pc = "browser" /\ mode = "tests" /\ uIdx > Len(Users)
    /\ pc' = "keep_alive" /\ UNCHANGED exitCode
    /\ UNCHANGED <<setupVars, mode, exportFor, keepAlive, waitResult, loaded, sessions,
                   uIdx, results, jar, printed, loggedIn>>

\* Every user tested: exit 0 iff none failed; with --keep-alive the
\* script first sleeps until Ctrl+C.
Summary ==
    /\ pc = "browser" /\ mode = "tests" /\ uIdx > Len(Users)
    /\ IF keepAlive THEN pc' = "keep_alive" /\ UNCHANGED exitCode
       ELSE Exit(IF \A i \in DOMAIN results : results[i] THEN 0 ELSE 1)
    /\ UNCHANGED <<setupVars, mode, exportFor, keepAlive, waitResult, loaded, sessions,
                   uIdx, results, jar, printed, loggedIn>>

\* KeyboardInterrupt ends the keep-alive loop.
Interrupt ==
    /\ pc = "keep_alive"
    /\ Exit(IF \A i \in DOMAIN results : results[i] THEN 0 ELSE 1)
    /\ UNCHANGED <<setupVars, mode, exportFor, keepAlive, waitResult, loaded, sessions,
                   uIdx, results, jar, printed, loggedIn>>

\* Mutant: the first cookie of the context is printed, whatever its name.
ExportThenFirstCookie(reached, ok) ==
    IF jar' # {}
    THEN (\E c \in jar' : printed' = {c}) /\ Exit(0)
    ELSE Exit(1) /\ UNCHANGED printed

\* export_session_cookie: the login's /auth/me is not checked; the cookie
\* named __gw_session is printed, else exit 1.
ExportThen(reached, ok) ==
    LET gw == {c \in jar' : c.name = "__gw_session"}
    IN  IF gw # {}
        THEN printed' = {CHOOSE c \in gw : TRUE} /\ Exit(0)
        ELSE Exit(1) /\ UNCHANGED printed

ExportLogin ==
    /\ pc = "browser" /\ mode = "export"
    /\ \E reached, ok \in BOOLEAN : SamlLogin(reached, ok) /\ ExportThen(reached, ok)
    /\ UNCHANGED <<setupVars, mode, exportFor, keepAlive, waitResult, loaded, uIdx, results>>

\* Steps of the script; the gateway's loading of the config is not one.
ScriptNext ==
    \/ LookupUser \/ WaitForServices \/ SetupStep \/ SetupReturned
    \/ TestLogin \/ TestLogout \/ Summary \/ ExportLogin

Next == ScriptNext \/ LoadConfig \/ Interrupt

\* The script is one thread whose every wait and request has a timeout;
\* the gateway's loading and the user's Ctrl+C come when they come.
Spec == BrowserInit /\ [][Next]_vars /\ WF_vars(ScriptNext)

-----------------------------------------------------------------------------
TypeOK ==
    /\ SetupTypeOK
    /\ pc \in {"lookup", "wait", "setup", "browser", "logout", "keep_alive", "exit"}
    /\ exitCode \in {{}, {0}, {1}}
    /\ results \in Seq(BOOLEAN) /\ Len(results) <= Len(Users)
    /\ sessions \subseteq ToSet(Users) /\ loggedIn \subseteq ToSet(Users)
    /\ jar \subseteq [name : {"authentik_session", "__gw_session"}, user : ToSet(Users)]

(***************************************************************************)
(* run_tests exits 0 only if the gateway's ACS created a session for every *)
(* test user in this run.  What stands for it in the code is the email and *)
(* name comparison on /auth/me: after a failed ACS the page still lands on *)
(* the gateway and /auth/me still parses, as a 401 body without "email".  *)
(***************************************************************************)
PassedMeansLoggedIn ==
    mode = "tests" /\ exitCode = {0} => loggedIn = ToSet(Users)

(***************************************************************************)
(* With --export-cookies-for, exit 0 means what went to stdout is the      *)
(* gateway session cookie of that user, and the session is live: the      *)
(* context also holds Authentik's cookies, the login's /auth/me answer is *)
(* not checked, and setup_saml_config's result is ignored.                *)
(***************************************************************************)
ExportPrintsSessionCookie ==
    mode = "export" /\ exitCode = {0} =>
        /\ printed = {Cookie("__gw_session", exportFor)}
        /\ exportFor \in sessions

(***************************************************************************)
(* Without --keep-alive the script ends, whatever the services, the setup  *)
(* and the logins do, and however late the gateway loads its config.      *)
(***************************************************************************)
RunEnds == ~keepAlive => <>(pc = "exit")
=============================================================================
