------------------------------- MODULE SamlSetup -------------------------------
(***************************************************************************)
(* setup_saml_config of deploy/test-saml-browser.py: through the Admin API *)
(* it creates the organization, the teams, the SAML SSO config and one SSO *)
(* group mapping per team.  The gateway's state outlives the script, so a  *)
(* run meets whatever earlier runs left, and every create has a 409 path.  *)
(*                                                                         *)
(* A group mapping is identified by its team (the code has one IdP group   *)
(* per team).  A request ends in one of:                                   *)
(*   "answered" the server did what its state says: created, or 409 when   *)
(*              the object exists;                                        *)
(*   "error"    another HTTPError (4xx/5xx); nothing was created;          *)
(*   "lost"     URLError or a transport error before the server acted;     *)
(*   "late"     a timeout after the server acted (TimeoutError from        *)
(*              getresponse).                                              *)
(* "lost" and "late" are not HTTPError: no except clause of the function  *)
(* catches them, and they leave the script.                               *)
(***************************************************************************)
EXTENDS Naturals, Sequences, SequencesExt

CONSTANTS
    TeamOrder,    \* the `teams` list (its group_mappings list in the same order)
    MaxRuns       \* how many times the script is run against one gateway

VARIABLES
    org,          \* server: the "university" organization exists
    teams,        \* server: the teams that exist
    sso,          \* server: the SAML SSO config exists
    mappings,     \* server: the teams whose group mapping exists
    spc,          \* where setup_saml_config is, or how it ended
    tTodo,        \* teams still to create
    teamIds,      \* team_ids: the teams this run got an id for
    mTodo,        \* group mappings still to create
    clean,        \* no request of this run failed
    runs          \* runs of the script so far

server == <<org, teams, sso, mappings>>
setupVars == <<org, teams, sso, mappings, spc, tTodo, teamIds, mTodo, clean, runs>>

Failures == {"error", "lost", "late"}
Outcomes == {"answered"} \cup Failures
AllTeams == ToSet(TeamOrder)
SetupEnded == {"true", "false", "raised"}

\* A fresh run of setup_saml_config: team_ids = {}.
SetupStart ==
    /\ spc = "org"
    /\ tTodo = TeamOrder
    /\ teamIds = {}
    /\ mTodo = TeamOrder
    /\ clean = TRUE

SetupInit ==
    /\ org = FALSE /\ teams = {} /\ sso = FALSE /\ mappings = {}
    /\ SetupStart
    /\ runs = 1

\* The request left the script: the exception propagates.
Raise(r) ==
    /\ spc' = "raised"
    /\ clean' = FALSE
    /\ UNCHANGED <<tTodo, teamIds, mTodo>>

\* POST /organizations; on 409 the org is read back with a GET whose
\* errors no clause catches; another HTTPError returns False.
CreateOrg ==
    /\ spc = "org"
    /\ \E r \in Outcomes :
          \/ /\ r = "answered" /\ ~org
             /\ org' = TRUE /\ spc' = "teams"
             /\ UNCHANGED <<teams, sso, mappings, tTodo, teamIds, mTodo, clean>>
          \/ /\ r = "answered" /\ org
             /\ spc' = "org_get"
             /\ UNCHANGED <<org, teams, sso, mappings, tTodo, teamIds, mTodo, clean>>
          \/ /\ r = "error"
             /\ spc' = "false" /\ clean' = FALSE
             /\ UNCHANGED <<teams, sso, mappings, org, tTodo, teamIds, mTodo>>
          \/ /\ r \in {"lost", "late"} /\ Raise(r)
             /\ org' = (org \/ r = "late")
             /\ UNCHANGED <<teams, sso, mappings>>
    /\ UNCHANGED runs

GetOrg ==
    /\ spc = "org_get"
    /\ \E r \in {"answered", "error", "lost"} :
          IF r = "answered"
          THEN spc' = "teams" /\ UNCHANGED <<tTodo, teamIds, mTodo, clean>>
          ELSE Raise(r)
    /\ UNCHANGED <<server, runs>>

\* Mutant: the id is kept on a 409 and not on a 201.
CreateTeamIdOnConflict ==
    /\ spc = "teams" /\ tTodo # <<>>
    /\ LET t == Head(tTodo) IN
       \E r \in Outcomes :
          \/ /\ r = "answered"
             /\ teams' = teams \cup {t}
             /\ teamIds' = IF t \in teams THEN teamIds \cup {t} ELSE teamIds
             /\ tTodo' = Tail(tTodo)
             /\ UNCHANGED <<spc, mTodo, clean>>
          \/ /\ r = "error"
             /\ tTodo' = Tail(tTodo) /\ clean' = FALSE
             /\ UNCHANGED <<teams, spc, teamIds, mTodo>>
          \/ /\ r \in {"lost", "late"} /\ Raise(r)
             /\ teams' = IF r = "late" THEN teams \cup {t} ELSE teams
    /\ UNCHANGED <<org, sso, mappings, runs>>

\* Mutant: the slug goes into team_ids before the request is answered.
CreateTeamIdFirst ==
    /\ spc = "teams" /\ tTodo # <<>>
    /\ LET t == Head(tTodo) IN
       \E r \in Outcomes :
          \/ /\ r = "answered"
             /\ teams' = teams \cup {t}
             /\ teamIds' = IF t \in teams THEN teamIds ELSE teamIds \cup {t}
             /\ tTodo' = Tail(tTodo)
             /\ UNCHANGED <<spc, mTodo, clean>>
          \/ /\ r = "error"
             /\ tTodo' = Tail(tTodo) /\ clean' = FALSE /\ teamIds' = teamIds \cup {t}
             /\ UNCHANGED <<teams, spc, mTodo>>
          \/ /\ r \in {"lost", "late"} /\ Raise(r)
             /\ teams' = IF r = "late" THEN teams \cup {t} ELSE teams
    /\ UNCHANGED <<org, sso, mappings, runs>>

\* One iteration of the teams loop: only a 201 puts an id in team_ids; a
\* 409 or another HTTPError is logged and the loop goes on.
CreateTeam ==
    /\ spc = "teams" /\ tTodo # <<>>
    /\ LET t == Head(tTodo) IN
       \E r \in Outcomes :
          \/ /\ r = "answered"
             /\ teams' = teams \cup {t}
             /\ teamIds' = IF t \in teams THEN teamIds ELSE teamIds \cup {t}
             /\ tTodo' = Tail(tTodo)
             /\ UNCHANGED <<spc, mTodo, clean>>
          \/ /\ r = "error"
             /\ tTodo' = Tail(tTodo) /\ clean' = FALSE
             /\ UNCHANGED <<teams, spc, teamIds, mTodo>>
          \/ /\ r \in {"lost", "late"} /\ Raise(r)
             /\ teams' = IF r = "late" THEN teams \cup {t} ELSE teams
    /\ UNCHANGED <<org, sso, mappings, runs>>

\* POST /sso-config once the teams loop is over: a 409 and any other
\* HTTPError are logged and the function goes on.
CreateSso ==
    /\ spc = "teams" /\ tTodo = <<>>
    /\ \E r \in Outcomes :
          \/ /\ r = "answered"
             /\ sso' = TRUE /\ spc' = "mappings"
             /\ UNCHANGED <<tTodo, teamIds, mTodo, clean>>
          \/ /\ r = "error"
             /\ spc' = "mappings" /\ clean' = FALSE
             /\ UNCHANGED <<sso, tTodo, teamIds, mTodo>>
          \/ /\ r \in {"lost", "late"} /\ Raise(r)
             /\ sso' = (sso \/ r = "late")
    /\ UNCHANGED <<org, teams, mappings, runs>>

\* One iteration of the group-mapping loop: a team without an id in
\* team_ids is skipped; every HTTPError is passed over.
CreateMapping ==
    /\ spc = "mappings" /\ mTodo # <<>>
    /\ LET t == Head(mTodo) IN
       \/ /\ t \notin teamIds
          /\ mTodo' = Tail(mTodo)
          /\ UNCHANGED <<mappings, spc, clean>>
       \/ /\ t \in teamIds
          /\ \E r \in Outcomes :
                \/ /\ r = "answered"
                   /\ mappings' = mappings \cup {t} /\ mTodo' = Tail(mTodo)
                   /\ UNCHANGED <<spc, clean>>
                \/ /\ r = "error"
                   /\ mTodo' = Tail(mTodo) /\ clean' = FALSE
                   /\ UNCHANGED <<mappings, spc>>
                \/ /\ r \in {"lost", "late"} /\ Raise(r)
                   /\ mappings' = IF r = "late" THEN mappings \cup {t} ELSE mappings
    /\ UNCHANGED <<org, teams, sso, tTodo, teamIds, runs>>

\* The loop is over: return True.
SetupDone ==
    /\ spc = "mappings" /\ mTodo = <<>>
    /\ spc' = "true"
    /\ UNCHANGED <<server, tTodo, teamIds, mTodo, clean, runs>>

\* The script is run again against the same gateway.
SetupRerun ==
    /\ spc \in SetupEnded /\ runs < MaxRuns
    /\ spc' = "org" /\ tTodo' = TeamOrder /\ teamIds' = {}
    /\ mTodo' = TeamOrder /\ clean' = TRUE
    /\ runs' = runs + 1
    /\ UNCHANGED server

SetupNext ==
    \/ CreateOrg \/ GetOrg \/ CreateTeam \/ CreateSso \/ CreateMapping
    \/ SetupDone \/ SetupRerun

SetupSpec == SetupInit /\ [][SetupNext]_setupVars /\ WF_setupVars(SetupNext)

-----------------------------------------------------------------------------
SetupTypeOK ==
    /\ org \in BOOLEAN /\ sso \in BOOLEAN
    /\ teams \subseteq AllTeams /\ mappings \subseteq AllTeams
    /\ spc \in {"org", "org_get", "teams", "mappings"} \cup SetupEnded
    /\ teamIds \subseteq teams
    /\ clean \in BOOLEAN /\ runs \in 1..MaxRuns

(***************************************************************************)
(* A setup run in which no request failed (201s and 409s only) returns     *)
(* True with the deployment complete: the organization, the SSO config and *)
(* every team's group mapping exist (the docstring: "Creates organization, *)
(* teams, SAML SSO config, and group mappings").  A team that answers 409  *)
(* gets no id, so its mapping is skipped: once an earlier run created a    *)
(* team and stopped before its mapping, no later run adds it.            *)
(***************************************************************************)
CleanSetupConfigures ==
    spc = "true" /\ clean => org /\ sso /\ mappings = AllTeams

(***************************************************************************)
(* On a fresh gateway (the first run), a setup run in which no request     *)
(* failed does leave the deployment complete: every team answers 201,     *)
(* gets its id, and gets its mapping.                                     *)
(***************************************************************************)
FirstCleanSetupConfigures ==
    runs = 1 /\ spc = "true" /\ clean => org /\ sso /\ mappings = AllTeams
=============================================================================
