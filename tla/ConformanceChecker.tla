-------------------------- MODULE ConformanceChecker --------------------------
(***************************************************************************)
(* ConformanceChecker.check_conformance (scripts/openapi-conformance.py):  *)
(* one pass over the OpenAI paths, method by method, then one pass over    *)
(* the Hadrian paths looking for extension endpoints.  Each document has   *)
(* its own OpenAPIResolver, whose cache lives for the whole run.           *)
(*                                                                         *)
(* A path "/a/{b}/c" is the sequence of its segments <<"a", "{b}", "c">>.  *)
(* Both passes iterate a dict in its insertion order, which is the order   *)
(* of the input file: the model lets that order be any order.             *)
(***************************************************************************)
EXTENDS ConformanceCompare, SchemaResolver, FiniteSets, Functions

CONSTANTS
    LongerSegments,    \* pairs <<s, t>>: segment s starts with the text of t
    Documents,         \* pairs <<OpenAI document, Hadrian document>>
    Filters            \* --endpoint choices: the OpenAI paths each one skips

VARIABLES
    openaiSpec, hadrianSpec,   \* the two documents (never change)
    filter,                    \* paths whose text does not contain --endpoint
    oCache, hCache,            \* the two resolvers' caches
    phase,                     \* "paths" | "methods" | "extensions" | "done" | "crashed"
    todo,                      \* OpenAI paths not visited yet
    cur,                       \* the OpenAI path whose methods are being checked
    mtodo,                     \* its methods still to check, in loop order
    htodo,                     \* Hadrian paths not scanned yet
    report,                    \* the ConformanceReport being built
    exitCode                   \* {} while running, then {status} of the process

vars == <<openaiSpec, hadrianSpec, filter, oCache, hCache, phase, todo, cur,
          mtodo, htodo, report, exitCode>>

-----------------------------------------------------------------------------
(* The tables of ConformanceChecker.                                       *)

PATH_MAPPING ==
    LET api(p) == <<"api", "v1">> \o p
        mapped == {<<"chat", "completions">>, <<"completions">>, <<"embeddings">>,
                   <<"models">>, <<"models", "{model}">>, <<"files">>,
                   <<"files", "{file_id}">>, <<"files", "{file_id}", "content">>,
                   <<"audio", "speech">>, <<"audio", "transcriptions">>,
                   <<"audio", "translations">>, <<"images", "generations">>,
                   <<"images", "edits">>, <<"images", "variations">>, <<"moderations">>,
                   <<"vector_stores">>, <<"vector_stores", "{vector_store_id}">>,
                   <<"vector_stores", "{vector_store_id}", "files">>,
                   <<"vector_stores", "{vector_store_id}", "files", "{file_id}">>,
                   <<"vector_stores", "{vector_store_id}", "search">>, <<"responses">>}
    IN  [p \in mapped |-> api(p)]

OUT_OF_SCOPE_PREFIXES ==
    {<<"assistants">>, <<"threads">>, <<"fine_tuning">>, <<"batches">>,
     <<"organization">>, <<"realtime">>, <<"evals">>, <<"uploads">>, <<"audit">>,
     <<"invites">>, <<"users">>, <<"projects">>, <<"containers">>,
     <<"conversations">>, <<"videos">>, <<"chatkit">>,
     <<"audio", "voice_consents">>, <<"audio", "voices">>, <<"skills">>}

OUT_OF_SCOPE_PATHS ==
    {<<"chat", "completions", "{completion_id}">>,
     <<"chat", "completions", "{completion_id}", "messages">>,
     <<"models", "{model}">>, <<"models", "{model}", "permissions">>, <<"moderations">>,
     <<"vector_stores", "{vector_store_id}", "file_batches">>,
     <<"vector_stores", "{vector_store_id}", "file_batches", "{batch_id}">>,
     <<"vector_stores", "{vector_store_id}", "file_batches", "{batch_id}", "cancel">>,
     <<"vector_stores", "{vector_store_id}", "file_batches", "{batch_id}", "files">>,
     <<"vector_stores", "{vector_store_id}", "files", "{file_id}", "content">>,
     <<"responses", "input_tokens">>, <<"responses", "compact">>,
     <<"responses", "{response_id}">>, <<"responses", "{response_id}", "input_items">>,
     <<"responses", "{response_id}", "cancel">>}

OUT_OF_SCOPE_METHODS ==
    (<<"chat", "completions">> :> {"get"})
    @@ (<<"vector_stores", "{vector_store_id}", "files", "{file_id}">> :> {"post"})

\* The segments of the tables that start with "{" and end with "}".
ParamSegments == {"{model}", "{completion_id}", "{vector_store_id}", "{batch_id}",
                  "{file_id}", "{response_id}"}

\* The method loop's order, and method.upper().
MethodOrder == <<"get", "post", "put", "patch", "delete">>
Upper == [get |-> "GET", post |-> "POST", put |-> "PUT", patch |-> "PATCH",
          delete |-> "DELETE"]

-----------------------------------------------------------------------------
(* EndpointMatcher                                                         *)

\* _path_matches_pattern: same number of segments, a "{...}" segment of the
\* pattern matches any segment.
PathMatchesPattern(p, q) ==
    /\ Len(p) = Len(q)
    /\ \A i \in 1..Len(q) : q[i] \in ParamSegments \/ p[i] = q[i]

\* path.startswith(prefix) on the text: the prefix's segments but its last
\* are the path's, and the path's next segment starts with its last one.
StartsWith(p, pre) ==
    /\ Len(pre) <= Len(p)
    /\ SubSeq(p, 1, Len(pre) - 1) = SubSeq(pre, 1, Len(pre) - 1)
    /\ \/ p[Len(pre)] = pre[Len(pre)]
       \/ <<p[Len(pre)], pre[Len(pre)]>> \in LongerSegments

\* _is_out_of_scope: exact paths, then path patterns, then prefixes.
IsOutOfScope(p) ==
    \/ p \in OUT_OF_SCOPE_PATHS
    \/ \E q \in OUT_OF_SCOPE_PATHS : PathMatchesPattern(p, q)
    \/ \E pre \in OUT_OF_SCOPE_PREFIXES : StartsWith(p, pre)

\* _is_method_out_of_scope: an exact entry decides alone.
IsMethodOutOfScope(p, m) ==
    IF p \in DOMAIN OUT_OF_SCOPE_METHODS THEN m \in OUT_OF_SCOPE_METHODS[p]
    ELSE \E q \in DOMAIN OUT_OF_SCOPE_METHODS :
            PathMatchesPattern(p, q) /\ m \in OUT_OF_SCOPE_METHODS[q]

OpenAIPaths == Get(openaiSpec, "paths", EmptyDict)
HadrianPaths == Get(hadrianSpec, "paths", EmptyDict)

\* PATH_MAPPING.get(p), else f"/api/v1{p}".
HadrianPathFor(p) ==
    IF p \in DOMAIN PATH_MAPPING THEN PATH_MAPPING[p] ELSE <<"api", "v1">> \o p
HadrianMethods(p) == Get(HadrianPaths, HadrianPathFor(p), EmptyDict)

\* hadrian_path.replace("/api/v1/", "/"): every occurrence, left to right,
\* not overlapping; the slash a match ends with cannot start the next one.
RECURSIVE StripApiV1(_)
StripApiV1(s) ==
    IF s = <<>> THEN <<>>
    ELSE IF Len(s) >= 3 /\ s[1] = "api" /\ s[2] = "v1"
         THEN <<s[3]>> \o StripApiV1(SubSeq(s, 4, Len(s)))
    ELSE <<s[1]>> \o StripApiV1(Tail(s))

IsAdminPath(hp) == Len(hp) >= 2 /\ hp[1] = "admin"
IsApiV1Path(hp) == Len(hp) >= 3 /\ hp[1] = "api" /\ hp[2] = "v1"

\* The second loop of check_conformance: not admin, not a mapping target,
\* under /api/v1/, and not the image of an OpenAI path.
IsHadrianOnly(hp) ==
    /\ ~IsAdminPath(hp)
    /\ hp \notin Range(PATH_MAPPING)
    /\ IsApiV1Path(hp)
    /\ StripApiV1(hp) \notin DOMAIN OpenAIPaths

-----------------------------------------------------------------------------
(* Resolution of one body on each side: OpenAI first, then Hadrian, each   *)
(* with its own resolver; nothing when either raw schema is empty.         *)
ResolvePair(os, hs, oc, hc) ==
    IF os = EmptyDict \/ hs = EmptyDict
    THEN [ok |-> TRUE, go |-> FALSE, o |-> EmptyDict, h |-> EmptyDict, oc |-> oc, hc |-> hc]
    ELSE LET a == ResolveSchema(openaiSpec, os, oc, 1)
             b == ResolveSchema(hadrianSpec, hs, hc, 1)
         IN  [ok |-> a.ok /\ b.ok, go |-> TRUE, o |-> a.val, h |-> b.val,
              oc |-> a.cache, hc |-> b.cache]

NoOutcome == Outcome({}, {})

EndpointDiff(p, m, missing, req, resp, par) ==
    [path |-> p, method |-> m, missing |-> missing,
     request |-> req, response |-> resp, params |-> par]

-----------------------------------------------------------------------------
Init ==
    /\ \E d \in Documents : openaiSpec = d[1] /\ hadrianSpec = d[2]
    /\ filter \in Filters
    /\ oCache = EmptyDict
    /\ hCache = EmptyDict
    /\ phase = "paths"
    /\ todo = DOMAIN OpenAIPaths
    /\ cur = <<>>
    /\ mtodo = <<>>
    /\ htodo = {}
    /\ report = [checked |-> 0, conformant |-> 0, withDiffs |-> <<>>,
                 outOfScope |-> <<>>, hadrianOnly |-> <<>>, violations |-> {}]
    /\ exitCode = {}

Docs == <<openaiSpec, hadrianSpec, filter>>

\* An out-of-scope path is listed and skipped.
VisitOutOfScope(p) ==
    /\ phase = "paths" /\ p \in todo
    /\ IsOutOfScope(p)
    /\ todo' = todo \ {p}
    /\ report' = [report EXCEPT !.outOfScope = Append(@, p)]
    /\ UNCHANGED <<Docs, oCache, hCache, phase, cur, mtodo, htodo>>

\* --endpoint given and not in the path: skipped without a trace.
VisitFiltered(p) ==
    /\ phase = "paths" /\ p \in todo
    /\ ~IsOutOfScope(p) /\ p \in filter
    /\ todo' = todo \ {p}
    /\ UNCHANGED <<Docs, oCache, hCache, phase, cur, mtodo, htodo, report>>

\* The method loop starts; methods the path does not have are passed over.
VisitPath(p) ==
    /\ phase = "paths" /\ p \in todo
    /\ ~IsOutOfScope(p) /\ p \notin filter
    /\ todo' = todo \ {p}
    /\ cur' = p
    /\ mtodo' = SelectSeq(MethodOrder, LAMBDA m : m \in DOMAIN OpenAIPaths[p])
    /\ phase' = "methods"
    /\ UNCHANGED <<Docs, oCache, hCache, htodo, report>>

\* Mutant: the method is counted before the out-of-scope check.
SkipMethodCounted ==
    /\ phase = "methods" /\ mtodo # <<>>
    /\ IsMethodOutOfScope(cur, Head(mtodo))
    /\ mtodo' = Tail(mtodo)
    /\ report' = [report EXCEPT !.checked = @ + 1]
    /\ UNCHANGED <<Docs, oCache, hCache, phase, todo, cur, htodo>>

\* A method out of scope for the path is skipped before it is counted.
SkipMethod ==
    /\ phase = "methods" /\ mtodo # <<>>
    /\ IsMethodOutOfScope(cur, Head(mtodo))
    /\ mtodo' = Tail(mtodo)
    /\ UNCHANGED <<Docs, oCache, hCache, phase, todo, cur, htodo, report>>

\* Mutant: the violation carries the method as written, not upper-cased.
MissingEndpointLower ==
    /\ phase = "methods" /\ mtodo # <<>>
    /\ LET m == Head(mtodo) IN
       /\ ~IsMethodOutOfScope(cur, m)
       /\ m \notin DOMAIN HadrianMethods(cur)
       /\ mtodo' = Tail(mtodo)
       /\ report' = [report EXCEPT
                      !.checked = @ + 1,
                      !.withDiffs = Append(@, EndpointDiff(cur, Upper[m], TRUE, {}, {}, {})),
                      !.violations = @ \cup {Violation("missing_endpoint", cur, m, "", "")}]
    /\ UNCHANGED <<Docs, oCache, hCache, phase, todo, cur, htodo>>

\* Counted; Hadrian lacks the method: a missing_endpoint violation.
MissingEndpoint ==
    /\ phase = "methods" /\ mtodo # <<>>
    /\ LET m == Head(mtodo) IN
       /\ ~IsMethodOutOfScope(cur, m)
       /\ m \notin DOMAIN HadrianMethods(cur)
       /\ mtodo' = Tail(mtodo)
       /\ report' = [report EXCEPT
                      !.checked = @ + 1,
                      !.withDiffs = Append(@, EndpointDiff(cur, Upper[m], TRUE, {}, {}, {})),
                      !.violations = @ \cup {Violation("missing_endpoint", cur, Upper[m], "", "")}]
    /\ UNCHANGED <<Docs, oCache, hCache, phase, todo, cur, htodo>>

\* Mutant: report.violations = violations instead of .extend(violations).
CompareEndpointOverwritingViolations ==
    /\ phase = "methods" /\ mtodo # <<>>
    /\ LET m == Head(mtodo)
           M == Upper[m]
           op == OpenAIPaths[cur][m]
           hop == HadrianMethods(cur)[m]
           parOut == CompareParams(op, hop, cur, M)
       IN
       /\ ~IsMethodOutOfScope(cur, m)
       /\ m \in DOMAIN HadrianMethods(cur)
       /\ \E req \in {ResolvePair(RequestSchema(op), RequestSchema(hop), oCache, hCache)} :
          \E resp \in {ResolvePair(ResponseSchema(op), ResponseSchema(hop), req.oc, req.hc)} :
          \E reqOut \in {IF req.go THEN CompareSchemas(req.o, req.h, <<"request">>, cur, M, "request")
                         ELSE NoOutcome} :
          \E respOut \in {IF resp.go THEN CompareSchemas(resp.o, resp.h, <<"response">>, cur, M, "response")
                          ELSE NoOutcome} :
          LET d == EndpointDiff(cur, M, FALSE, reqOut.diffs, respOut.diffs, parOut.diffs)
              clean == reqOut.diffs \cup respOut.diffs \cup parOut.diffs = {}
          IN  IF req.ok /\ resp.ok
                 THEN /\ oCache' = resp.oc
                      /\ hCache' = resp.hc
                      /\ mtodo' = Tail(mtodo)
                      /\ report' = [report EXCEPT
                           !.checked = @ + 1,
                           !.conformant = IF clean THEN @ + 1 ELSE @,
                           !.withDiffs = IF clean THEN @ ELSE Append(@, d),
                           !.violations = reqOut.violations \cup respOut.violations
                                            \cup parOut.violations]
                      /\ UNCHANGED phase
                 ELSE /\ phase' = "crashed"
                      /\ UNCHANGED <<oCache, hCache, mtodo, report>>
    /\ UNCHANGED <<Docs, todo, cur, htodo>>

\* Counted and compared (_compare_endpoint): request body, 200 response
\* body, query parameters.  A RecursionError in a resolver ends the run.
\* Each resolution and comparison is bound once, as a value (\E x \in {e}),
\* in the order the code computes them.
CompareEndpoint ==
    /\ phase = "methods" /\ mtodo # <<>>
    /\ LET m == Head(mtodo)
           M == Upper[m]
           op == OpenAIPaths[cur][m]
           hop == HadrianMethods(cur)[m]
           parOut == CompareParams(op, hop, cur, M)
       IN
       /\ ~IsMethodOutOfScope(cur, m)
       /\ m \in DOMAIN HadrianMethods(cur)
       /\ \E req \in {ResolvePair(RequestSchema(op), RequestSchema(hop), oCache, hCache)} :
          \E resp \in {ResolvePair(ResponseSchema(op), ResponseSchema(hop), req.oc, req.hc)} :
          \E reqOut \in {IF req.go THEN CompareSchemas(req.o, req.h, <<"request">>, cur, M, "request")
                         ELSE NoOutcome} :
          \E respOut \in {IF resp.go THEN CompareSchemas(resp.o, resp.h, <<"response">>, cur, M, "response")
                          ELSE NoOutcome} :
          LET d == EndpointDiff(cur, M, FALSE, reqOut.diffs, respOut.diffs, parOut.diffs)
              clean == reqOut.diffs \cup respOut.diffs \cup parOut.diffs = {}
          IN  IF req.ok /\ resp.ok
                 THEN /\ oCache' = resp.oc
                      /\ hCache' = resp.hc
                      /\ mtodo' = Tail(mtodo)
                      /\ report' = [report EXCEPT
                           !.checked = @ + 1,
                           !.conformant = IF clean THEN @ + 1 ELSE @,
                           !.withDiffs = IF clean THEN @ ELSE Append(@, d),
                           !.violations = @ \cup reqOut.violations \cup respOut.violations
                                            \cup parOut.violations]
                      /\ UNCHANGED phase
                 ELSE /\ phase' = "crashed"
                      /\ UNCHANGED <<oCache, hCache, mtodo, report>>
    /\ UNCHANGED <<Docs, todo, cur, htodo>>

EndMethods ==
    /\ phase = "methods" /\ mtodo = <<>>
    /\ phase' = "paths"
    /\ UNCHANGED <<Docs, oCache, hCache, todo, cur, mtodo, htodo, report>>

\* The OpenAI pass is over; the Hadrian paths are scanned next.
StartExtensions ==
    /\ phase = "paths" /\ todo = {}
    /\ phase' = "extensions"
    /\ htodo' = DOMAIN HadrianPaths
    /\ UNCHANGED <<Docs, oCache, hCache, todo, cur, mtodo, report>>

RecordHadrianOnly(hp) ==
    /\ phase = "extensions" /\ hp \in htodo
    /\ IsHadrianOnly(hp)
    /\ htodo' = htodo \ {hp}
    /\ report' = [report EXCEPT !.hadrianOnly = Append(@, hp)]
    /\ UNCHANGED <<Docs, oCache, hCache, phase, todo, cur, mtodo>>

SkipHadrianPath(hp) ==
    /\ phase = "extensions" /\ hp \in htodo
    /\ ~IsHadrianOnly(hp)
    /\ htodo' = htodo \ {hp}
    /\ UNCHANGED <<Docs, oCache, hCache, phase, todo, cur, mtodo, report>>

Finish ==
    /\ phase = "extensions" /\ htodo = {}
    /\ phase' = "done"
    /\ UNCHANGED <<Docs, oCache, hCache, todo, cur, mtodo, htodo, report>>

CheckStep ==
    \/ \E p \in todo : VisitOutOfScope(p) \/ VisitFiltered(p) \/ VisitPath(p)
    \/ SkipMethod
    \/ MissingEndpoint
    \/ CompareEndpoint
    \/ EndMethods
    \/ StartExtensions
    \/ \E hp \in htodo : RecordHadrianOnly(hp) \/ SkipHadrianPath(hp)
    \/ Finish

\* The end of main: the report is printed, then sys.exit(1) if it has any
\* violation.  A RecursionError is uncaught, and Python exits with 1.
Exit ==
    /\ phase \in {"done", "crashed"} /\ exitCode = {}
    /\ exitCode' = IF phase = "done" /\ report.violations = {} THEN {0} ELSE {1}
    /\ UNCHANGED <<Docs, oCache, hCache, phase, todo, cur, mtodo, htodo, report>>

Next == (CheckStep /\ UNCHANGED exitCode) \/ Exit

\* The run ends (done or crashed); it never waits on anything.
Spec == Init /\ [][Next]_vars /\ WF_vars(Next)

-----------------------------------------------------------------------------
TypeOK ==
    /\ phase \in {"paths", "methods", "extensions", "done", "crashed"}
    /\ exitCode \in {{}, {0}, {1}}
    /\ todo \subseteq DOMAIN OpenAIPaths
    /\ htodo \subseteq DOMAIN HadrianPaths
    /\ report.checked \in Nat /\ report.conformant \in Nat
    /\ \A v \in report.violations :
          /\ v.kind \in {"missing_endpoint", "undocumented_missing", "unmarked_extension"}
          /\ v.method \in Range(Upper)
          /\ v.location \in {"", "request", "response", "param"}
    /\ \A i \in DOMAIN report.withDiffs : report.withDiffs[i].method \in Range(Upper)

(* The (path, method) pairs of the OpenAI document the run must check.     *)
InScope ==
    {<<p, m>> \in (DOMAIN OpenAIPaths) \X Range(MethodOrder) :
        /\ m \in DOMAIN OpenAIPaths[p]
        /\ ~IsOutOfScope(p) /\ p \notin filter
        /\ ~IsMethodOutOfScope(p, m)}

(***************************************************************************)
(* Every in-scope endpoint is counted once and lands in exactly one of     *)
(* "fully conformant" and "with differences"; an out-of-scope method is   *)
(* never counted.  The count is spread over the OpenAI loop, the method    *)
(* loop and three different outcomes per method.                           *)
(***************************************************************************)
EndpointAccounting ==
    phase = "done" =>
        /\ report.checked = Cardinality(InScope)
        /\ report.checked = report.conformant + Len(report.withDiffs)

(* The two bodies of a location of an endpoint, each resolved by a fresh   *)
(* resolver of its own document.                                           *)
BodyOf(op, loc) == IF loc = "request" THEN RequestSchema(op) ELSE ResponseSchema(op)
FreshBodies(p, m, loc) ==
    LET op == OpenAIPaths[p][m]
        hop == HadrianMethods(p)[m]
        os == BodyOf(op, loc)
        hs == BodyOf(hop, loc)
    IN  [go |-> os # EmptyDict /\ hs # EmptyDict,
         o |-> ResolveSchema(openaiSpec, os, EmptyDict, 1).val,
         h |-> ResolveSchema(hadrianSpec, hs, EmptyDict, 1).val]

EntryFor(p, m) == {i \in DOMAIN report.withDiffs :
                      report.withDiffs[i].path = p /\ report.withDiffs[i].method = Upper[m]}

(***************************************************************************)
(* Spec 3: a field missing in Hadrian is in the report's diffs even when   *)
(* DOCUMENTED_MISSING_FIELDS excuses it; only the violation list is        *)
(* filtered by the policy.                                                  *)
(***************************************************************************)
DiffsSurviveDocumentation ==
    phase = "done" =>
        \A e \in InScope, loc \in {"request", "response"} :
            LET b == FreshBodies(e[1], e[2], loc)
                missing == DOMAIN Get(b.o, "properties", EmptyDict)
                             \ DOMAIN Get(b.h, "properties", EmptyDict)
            IN  (e[2] \in DOMAIN HadrianMethods(e[1]) /\ b.go) =>
                    \A f \in missing :
                        \E i \in EntryFor(e[1], e[2]) :
                            Diff(<<loc>>, f, "missing_in_hadrian") \in report.withDiffs[i][loc]

(* What one endpoint contributes to the violations when compared on its   *)
(* own, by fresh resolvers.                                                *)
ExpectedViolations(p, m) ==
    IF m \notin DOMAIN HadrianMethods(p)
    THEN {Violation("missing_endpoint", p, Upper[m], "", "")}
    ELSE LET op == OpenAIPaths[p][m]
             hop == HadrianMethods(p)[m]
             req == FreshBodies(p, m, "request")
             resp == FreshBodies(p, m, "response")
         IN  (IF req.go THEN CompareSchemas(req.o, req.h, <<"request">>, p, Upper[m], "request").violations
              ELSE {})
             \cup (IF resp.go THEN CompareSchemas(resp.o, resp.h, <<"response">>, p, Upper[m], "response").violations
                   ELSE {})
             \cup CompareParams(op, hop, p, Upper[m]).violations

(***************************************************************************)
(* Spec 4.1 and 5: the per-document caches outlive every endpoint, and the *)
(* two documents name their components alike.  The violations of the run   *)
(* are still exactly those of checking each endpoint alone with fresh      *)
(* resolvers, whatever order the paths come in.                            *)
(***************************************************************************)
ViolationsMatchPerEndpointComparison ==
    phase = "done" =>
        report.violations = UNION {ExpectedViolations(e[1], e[2]) : e \in InScope}

(***************************************************************************)
(* Spec 8: the CI gate passes (the script exits 0) only when every        *)
(* in-scope endpoint is implemented and every field of its request and     *)
(* response bodies is present in Hadrian or documented.  The code compares *)
(* a body only when both documents have one.                              *)
(***************************************************************************)
CleanReportMeansConformant ==
    exitCode = {0} =>
        \A e \in InScope :
            /\ e[2] \in DOMAIN HadrianMethods(e[1])
            /\ \A loc \in {"request", "response"} :
                 LET o == ResolveSchema(openaiSpec, BodyOf(OpenAIPaths[e[1]][e[2]], loc), EmptyDict, 1).val
                     h == ResolveSchema(hadrianSpec, BodyOf(HadrianMethods(e[1])[e[2]], loc), EmptyDict, 1).val
                 IN  \A f \in DOMAIN Get(o, "properties", EmptyDict) :
                        \/ f \in DOMAIN Get(h, "properties", EmptyDict)
                        \/ <<e[1], Upper[e[2]], loc, f>> \in DocumentedMissing

=============================================================================
