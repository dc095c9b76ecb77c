# TLA+ models of hadrian's OpenAPI conformance checker and smoke tests

This directory holds TLA+ models of the Python tooling under `src/`.
- `scripts/openapi-conformance.py` compares Hadrian's OpenAPI document with OpenAI's. It is the CI gate described in `spec.md`.
- `scripts/test-knowledge-bases.py` is a smoke test. It drives the gateway's vector-store API.
- `deploy/test-saml-browser.py` is a browser test of SAML login. It configures SSO on a running gateway, logs users in through Authentik and out again, or exports a session cookie.

Each model is checked with TLC. `PROJECT.json` lists:
- every run and the definitions it checks;
- the mutant that shows each passing property can fail;
- the source lines each definition translates;
- the findings and the hazards.

## 1. The system and how its parts interact

### openapi-conformance.py

| Part (spec name) | Code | State | Operations |
|---|---|---|---|
| SchemaResolver | `OpenAPIResolver` (167-271) | the document, and `_cache` from ref to resolved schema, which lives for the whole run | `resolve_ref`, `resolve_schema` ($ref / allOf / oneOf-anyOf / leaf), `_merge_schemas` |
| TypeClassifier | `_get_type_string`, `_types_compatible` (700-750) | none | pure |
| SchemaDiffer + ConformancePolicy | `_compare_schemas` (587-698), the parameter part of `_compare_endpoint` (540-585), `DOCUMENTED_MISSING_FIELDS`, `EXTENSION_MARKER` | none | pure and recursive |
| EndpointMatcher | `PATH_MAPPING`, `OUT_OF_SCOPE_*`, `_is_out_of_scope`, `_path_matches_pattern`, `_is_method_out_of_scope` | tables | pure |
| ReportAggregator | `check_conformance` (362-452) | the report and the two resolvers | a loop over OpenAI paths and methods, then a loop over Hadrian paths |
| Formatting, CLI | `format_*_report`, `main` | none | output only |

The checker owns one resolver per document. Both resolvers live for the whole run. Every endpoint's request body is resolved through them, then its 200 response body, and the caches are shared by every endpoint. The two documents name their component schemas alike, and each cache is keyed by the `$ref` string. Sharing one cache across the two documents would therefore be wrong, and sharing a cache across endpoints must be harmless.

### test-knowledge-bases.py

A single sequential process acts on server state. That state is the vector stores and files that the gateway holds. For each source the script does the following:
1. It fetches documents.
2. It gets or creates the store, looking up an existing store by its name.
3. It uploads each document and adds it to the store.
4. It waits for each added file to be processed.
5. It runs two searches.

With `--cleanup`, it then deletes every store and file id listed in its results.

Each HTTP call can succeed, fail with an error status, or fail in transport. A transport failure can happen before the server acted, or after it acted (a timeout). Several `except` clauses read `response.text`. After a transport error `response` is unbound, so Python raises `UnboundLocalError` there.

### test-saml-browser.py

The script is one thread. It talks to two services whose state outlives it: the gateway (organization, teams, SSO config, group mappings, sessions) and Authentik. `main` picks a mode:
- `run_tests` waits for both services, runs `setup_saml_config`, sleeps 3 s, tests login and logout for each user, and exits 0 iff every test passed. With `--keep-alive` it first sleeps until Ctrl+C.
- `run_export_cookies` looks the user up, waits, runs setup (ignoring its result), logs in and prints the `__gw_session` cookie.

`wait_for_gateway` polls until its 60 s deadline. `wait_for_authentik` polls health, then metadata, both against one `start` taken on entry. `setup_saml_config` creates each object and treats 409 as "exists"; only a 201 team gets an id, and a mapping is created only for a team with an id. The gateway loads the new SSO config at a time of its own.

## 2. Modules

| Module | Models | State and actions |
|---|---|---|
| `OpenAPIDoc` | JSON values as TLA+ values (a dict is a function) | helpers only: `Get`, `OverlayExcept` (dict copy plus overlay), refs, type values |
| `SchemaResolver` | the algorithm of `OpenAPIResolver` | mutually `RECURSIVE` operators `ResolveSchema`, `ResolveRef`, `MergeSchemas`, and so on. Each takes the document, the cache and the Python stack depth, and returns `[ok, val, cache]`; `ok = FALSE` is the `RecursionError`. |
| `OpenAPIResolver` | `OpenAPIResolver` as a component | the state is `spec, cache, request, result, crashed`, and the action `Resolve(s)` is one `resolve_schema` call on the shared cache. |
| `ConformanceCompare` | TypeClassifier, SchemaDiffer, ConformancePolicy | pure operators `TypeString`, `CompareSchemas` (recursive), `CompareParams`, `ReportMissing` and `ReportExtensions` |
| `ConformanceChecker` | EndpointMatcher and `check_conformance` | composes the two resolvers by calling the `SchemaResolver` operators on each document with its own cache variable (`oCache`, `hCache`), as the code owns one resolver per document. The variables are the documents, the filter, both caches, the loop position (`phase`, `todo`, `cur`, `mtodo`, `htodo`) and the report. There is one action per branch of the two loops: `VisitOutOfScope`, `VisitFiltered`, `VisitPath`, `SkipMethod`, `MissingEndpoint`, `CompareEndpoint`, `EndMethods`, `StartExtensions`, `RecordHadrianOnly`, `SkipHadrianPath` and `Finish` (together `CheckStep`), then `Exit`, the end of `main`, which sets `exitCode`. |
| `KnowledgeBaseTest` | `VectorStoreClient`, `run_source_test`, and the source loop and cleanup of `main` | the script's position and cursors, plus the server's `stores`, `files` and `storeFiles` and the history variable `made`. There is one action per client call: `FindStore`, `CreateStore`, `Upload`, `AddToStore`, `WaitPoll`, `Search`, `DeleteStore` and `DeleteFile`. Each has every outcome `ok`, `status`, `lost` or `late`. |
| `SourceFetch` | what run_source_test assumes of a source's fetch and the size filter | `fetched`: `{}` while fetching, then `{n}` with n in 0..max_docs, once; the action `FetchEnd`. `KnowledgeBaseTest`'s `StartSource` takes this step. |
| `DocumentFetch` | the `fetch` of `SimonWillisonSource`, `RFCSource`, `ArxivSource`, `AustLIISource`, and the size filter | `kind` (the source, chosen at start), `fpc`, the loop cursors (`todo`, the RFC template `url`, `courtsLeft`), the counts `docs` and `errors`, and `kept`. Actions: `FeedRequest` (Atom feed or arXiv query and parse), `Entry`, `RfcTry`, `ItemsDone`, `Court`, `Link`, `LinksDone`, `Filter`. It is shown to implement `SourceFetch`. |
| `ServiceWait` | what the two waits promise their callers | `waitResult`: "waiting", then once one of ready, gateway_down, authentik_down, raised; the action `WaitEnd`. |
| `SamlWait` | `wait_for_gateway`, `wait_for_authentik` | `stage` (which loop, or how they ended), `elapsed` (seconds since the running function's `start`) `akHealthy`, and `metaAsked` (the metadata loop made a request). One action per loop iteration (`PollGateway`, `PollHealth`, `PollMetadata`) and per loop exit (`GatewayGiveUp`, `AuthentikGiveUp`). An iteration's request takes `d` in 0..`MaxRequest` s and is answered, fails (caught: sleep 2 s) or stalls (an exception the except clause does not name). |
| `SamlSetup` | `setup_saml_config`, run again and again against one gateway | the server (`org`, `teams`, `sso`, `mappings`) and the run (`spc`, the two loop cursors, `team_ids`, `clean`, `runs`). One action per request (`CreateOrg`, `GetOrg`, `CreateTeam`, `CreateSso`, `CreateMapping`), plus `SetupDone` and `SetupRerun`. Each request is answered (201, or 409 if the object exists), errors (other HTTPError), or is lost or late (uncaught; late means the server acted). |
| `SamlBrowserTest` | `main`, `run_tests`, `run_export_cookies`, `perform_saml_login`, `test_saml_login_logout`, `export_session_cookie` | extends `SamlSetup`; composes the waits through their abstract spec `ServiceWait` (`WaitForServices` takes a `WaitEnd` step). It adds the mode, the script position `pc`, the user cursor, results, the browser's cookie jar, the gateway's sessions and the printed output and exit code. `LoadConfig` is the gateway loading the config; `Interrupt` is Ctrl+C. |
| `MC*` | model instantiations | small documents, sources, teams, users and bounds |

### Abstractions and their sources

- **Paths.** A path is the sequence of its segments. `str.startswith` on text becomes segment equality, plus the constant relation `LongerSegments` (for example `usersettings` starts with `users`). `replace("/api/v1/", "/")` becomes `StripApiV1`, which removes every occurrence, as Python does. A match consumes its closing slash, so `/api/v1/api/v1/x` becomes `/api/v1/x`.
- **Dict iteration order.** It is the document's insertion order, so the model picks it nondeterministically: the next path comes from a set. `ResolveEach` takes its keys via `CHOOSE`, because resolving different properties touches the cache in an order that does not change the values.
- **Diffs and violations** are sets of records. Messages and type strings, which are for display, are dropped. Two equal violations collapse into one.
- **One comparison step.** `CompareEndpoint` binds each resolution and comparison once, as a value (`\E x \in {e}`), in the code's order: request, then response with the request's caches, then the comparisons. The step stays atomic, as the Python call is.
- **Lists vs. sets.** The `required` list is a set, because the code only uses `set(...)` of it. A JSON "type" is a record (`Ty`, `TyList`), and a `$ref` is a record of its segments. This is because TLC cannot compare strings with tuples.
- **The knowledge-base test.**
  - Fetching and the size filter become the number of documents left (0..MaxDocs). `--dry-run` and an empty fetch take the same "no store" path.
  - Elapsed time in `wait_for_processing` becomes a poll count bounded by `MaxPolls`.
- **The SAML test.**
  - Time is whole seconds; a loop iteration (deadline check, request, sleep) is one step.
  - A Playwright login becomes its effect: a cookie jar of (name, user) cookies, a gateway session, and whether `/auth/me` then shows the user. A login needs the org, the SSO config and a loaded config.
  - The initial gateway state is any state earlier runs can leave (SSO only with the org, teams only with the org).

## 3. Runs

| Run | Result | What it shows |
|---|---|---|
| `resolver_history` | pass, 856 states | Over 104 acyclic documents and four request shapes in any order, `ResolutionIndependentOfHistory` holds. Every `resolve_schema` result equals what a fresh resolver returns, so the cache shared across endpoints is safe. |
| `resolver_cycle` | violation | `NoRecursionError` fails: a schema refers to itself, so the code recurses without end. `resolve_ref` caches only after resolving. Spec 4.1 wants a placeholder for the failing resolution only. |
| `checker` | pass, 31,824 states | It covers 288 document and filter pairs (144 Hadrian documents, 2 filters) in every path order. The properties are `EndpointAccounting` (checked = in scope = conformant + with diffs), `DiffsSurviveDocumentation` (spec 3) and `ViolationsMatchPerEndpointComparison`. The last says the run's violations equal those of checking each endpoint alone with fresh resolvers. |
| `checker_clean_report` | violation | The script exits 0 (no violations), yet Hadrian's operation lacks the 200 response body (spec 8). |
| `kb_terminates` | pass, 321,406 states | `Terminates` holds under every HTTP outcome, including a file that never finishes processing. |
| `kb_cleanup_stores` | violation | A source that raises (`UnboundLocalError`) after creating its store leaves that store behind with `--cleanup`. |
| `kb_fetch` | pass, 495 states | `FetchImplementsSourceFetch`: for each of the four sources, fetch and filter end once with at most `max_docs` documents (the feed slice, the `fetched` flag of the RFC template loop, and AustLII's `docs_fetched` checks each do their part). |
| `saml_wait` | pass, 922 states | `WaitImplementsServiceWait`: the loops refine `ServiceWait` under the mapping "waiting while a loop runs, else the outcome", so they end once and the outcome stays. |
| `saml_wait_message` | violation | `MetadataCheckedBeforeGivingUp` fails. Authentik answers healthy late in the 120 s, and the metadata loop, which measures against the health loop's `start`, gets no iteration. `wait_for_authentik` returns False without asking for the metadata once, and the callers log "Authentik did not become healthy in time". A loop with its own `start` would always ask at least once. |
| `saml_setup` | pass, 565 states | On a fresh gateway, over every request outcome and a rerun, a setup run with no failed request leaves the org, the SSO config and every group mapping. |
| `saml_setup_rerun` | violation | A run stops after creating a team; the next run gets 409 for it, no id, skips its mapping, and returns True with a mapping missing. |
| `saml_browser` | pass, 21,113 states | From any gateway state, in both modes: `run_tests` exits 0 only if every user got logged in; an exported cookie is that user's live `__gw_session`; without `--keep-alive` the script ends. |

Modelling also reached these states, which no run keeps (the project keeps five violation runs); `PROJECT.json` lists each as a hazard with the trace in its note:
- the siblings of `$ref`/`allOf` are copied unresolved, so resolution is not idempotent (spec 3, 8);
- a `$ref` to a null schema is not recognised as the null branch (spec 8);
- `/health` is never reported as an extension endpoint (spec 4.4);
- a marked `oneOf [null, T]` extension field loses its description (spec 4.5);
- `--cleanup` deletes a store that existed before the run, found by name and reused;
- uploaded files survive `--cleanup`: cleanup deletes collection file ids through `/files`;
- a `TimeoutError` from `urlopen` escapes the SAML waits;
- the SAML logout check passes on both branches;
- the SAML test passes without group mappings: roles are logged, not compared.

Each passing property has a mutant in `PROJECT.json`: an operator that changes one mapped definition the way a plausible bug would, and that TLC shows breaks the property. The mutants are:
- `ResolveRefNodeInPlace`: the sibling overlay is written into the cached target.
- `SkipMethodCounted`: the method is counted before the scope check.
- `ReportMissingHidingDocumented`: documented fields are dropped from the diffs.
- `CompareEndpointOverwritingViolations`: `=` instead of `extend`.
- `WaitPollNoDeadline`: the deadline restarts on every poll.
- Three `TypeOK` mutants (a typo in a key, a method left lower-case, an unguarded loop bound), and `SamlLoginCookieTypo` (the gateway's cookie under a misspelt name) for the browser test's `TypeOK`.
- `RfcTryNoBreak` (the `if fetched: break` dropped, so both templates are fetched) and `EntryUnguarded` for the fetchers.
- `RetryFromLastAttempt` (the start taken afresh each iteration) and `GatewayGiveUpMisnamed` for the waits.
- `CreateTeamIdOnConflict` (the id kept on 409, not 201) and `CreateTeamIdFirst` (the id recorded before the answer) for setup.
- `LoginThenReached` (pass on reaching `/auth/me`), `ExportThenFirstCookie` (print any cookie) and `SummaryAlwaysKeepAlive` for the browser test.

## 4. Bounds and why they suffice

- **Resolver.** Each document has two schemas, and each schema takes one of 8 shapes:
  - an object with a `$ref` field, with or without a sibling key;
  - `allOf` with and without sibling `properties`;
  - `oneOf` with a null branch;
  - null and string leaves.

  The shapes cover every branch of `resolve_schema` and of `_merge_schemas`. Targets include a missing schema. There are four requests: two refs, a ref with a sibling, and `anyOf`. Cache hits, cache misses and the sibling overlay on cached values all occur. `RecursionLimit = 12` is larger than any acyclic depth in these documents, so only a cycle reaches it.
- **Checker.** There is one OpenAI document with four paths:
  - `/chat/completions` has POST and an out-of-scope GET;
  - `/widgets` has a query parameter;
  - `/users` is out of scope by prefix;
  - `/usersettings` is out of scope by textual prefix.

  The Hadrian documents vary the chat request schema, the response, `/widgets`, the Hadrian-only paths and the widget schema. There are 144 Hadrian documents and 2 filters, enough for every action and every kind of diff and violation. Every order of the four paths is explored.
- **Knowledge base.**
  - Two sources; the first has a pre-existing store.
  - `MaxDocs = 2`, so one file can fail while another succeeds.
  - `MaxPolls = 2`, so a poll after a pending one and the deadline are both reached.
  - `NumQueries = 2`, matching `queries[:2]`.
  - `cleanup` is chosen in `Init`.

- **Fetchers.** `MaxDocs = 2` with feeds of up to 3 entries and index pages of up to 3 links, so the slice and both AustLII limit checks cut something; the real 10 RFCs and 3 courts, and `RFC_URLS` taken from the code (2 templates). Negative `--max-docs` is outside the checked range: `PROJECT.json` lists it as a hazard.
- **SAML.**
  - The script's own constants: 60 s, 120 s and a 2 s sleep. urlopen's `timeout=5` bounds each socket operation, not a request, so the code puts no bound on a request that keeps receiving. The model lets one take up to `MaxRequest = 15` s: three socket operations (connect, status line, body). This is the model's bound, not the code's, so no property bounds how long a wait runs. The health loop can use up the 120 s, so the metadata loop gets none.
  - Two teams (one can be created while the other is not yet) and `MaxRuns = 2` for setup: the rerun finding needs exactly two runs. The browser model runs setup once on any initial gateway state, which stands for every earlier history.
  - Two users, so one test can pass while another fails.

## 5. Fairness

`ConformanceChecker` and `KnowledgeBaseTest` use `WF_vars(Next)`. Each script is a single sequential process, and every call in it returns. HTTP calls return because httpx has a timeout. No fairness is assumed on the server's answers: a file may stay "in progress" forever. That is why `Terminates` is about the script's own deadline. The final states (the knowledge-base test done or crashed, the checker after its `Exit`) have no successor, so deadlock is not checked.

The SAML modules assume weak fairness of the script's own steps only (`WF_vars(ScriptNext)`, `WF_waitVars(WaitNext)`): every request has a socket timeout and every sleep ends. The gateway loading its config (`LoadConfig`) and Ctrl+C (`Interrupt`) are not fair, so `RunEnds` holds even if the config is never loaded, and is stated only without `--keep-alive`.

## 6. Not modelled, and the plan

- Report formatting of the conformance script is output only (its diff values are strings, so `json.dumps` cannot fail on them). Of its CLI, the exit code is modelled (`Exit`: 1 iff violations, or on an uncaught `RecursionError`), and `CleanReportMeansConformant` is stated on exit code 0. Argument parsing and the missing-file checks are file I/O.
- The fetchers' HTML and XML parsing is abstracted to what makes an item a document, an error or nothing; `DocumentFetch` keeps every loop, limit and except clause. `KnowledgeBaseTest` uses the abstract `SourceFetch` step rather than composing `DocumentFetch`, which the refinement justifies and which keeps its state space checkable.
- The knowledge-base summary table and `--list-sources` are output only.
- `test_saml_redirect_without_setup` is never called. Playwright's page mechanics (selectors, screenshots) and the logging are abstracted to what each request does to the gateway.
- The `time.sleep(3)` before the logins races the gateway's config load. The model lets the load happen at any time; the race makes logins fail, which the test reports.
- Planned:
  - an abstract specification of the CI gate (exit 1 iff some endpoint compared alone has a violation), with `ConformanceChecker` refining it. A first attempt evaluated the per-endpoint comparison in the refinement mapping on every step, and the check ran past 15 minutes. Besides, the gate adds little to `ViolationsMatchPerEndpointComparison` plus `Exit`'s one-line test. It would need the verdict as an auxiliary variable fixed in `Init`;
  - documents with a documented field name reused at depth, and a `$ref` parameter, so that those hazards in `PROJECT.json` get a property.
