--------------------------- MODULE KnowledgeBaseTest ---------------------------
(***************************************************************************)
(* scripts/test-knowledge-bases.py against the gateway: for each source,   *)
(* get or create a vector store, upload each document and add it to the    *)
(* store, wait for each added file, run two searches; then, with           *)
(* --cleanup, delete every store and file id the results list.            *)
(*                                                                         *)
(* The script is sequential; the server is the rest of the state.  Every   *)
(* HTTP call ends in one of:                                                *)
(*   "ok"       2xx;                                                       *)
(*   "status"   an error status: raise_for_status raises HTTPStatusError,  *)
(*              `response` is bound;                                       *)
(*   "lost"     a transport error before the server acted: `response` is   *)
(*              unbound, so an except clause reading response.text raises *)
(*              UnboundLocalError instead;                                 *)
(*   "late"     a timeout after the server acted: as "lost" for the        *)
(*              client, but the server state changed.                     *)
(* Fetching is abstracted to the number of documents left after the size   *)
(* filter; --dry-run is that number being 0 for the store logic.           *)
(***************************************************************************)
EXTENDS Naturals, Sequences, FiniteSets, Functions

CONSTANTS
    Sources,          \* sources_to_test, in order (a sequence)
    Existing,         \* sources whose "Test: ..." store is already on the server
    MaxDocs,          \* max_docs_per_source
    MaxPolls,         \* polls wait_for_processing makes before max_wait runs out
    NumQueries        \* len(queries[:2])

VARIABLES
    cleanup,      \* --cleanup
    todo,         \* sources not run yet
    src,          \* the source being run
    pc,           \* where the script is
    docs,         \* documents of src still to upload
    store,        \* store_id of src
    fileId,       \* the file just uploaded
    cfIds,        \* collection_file_ids
    waitIdx,      \* index in cfIds being waited on
    polls,        \* polls made for it
    queries,      \* searches still to run
    results,      \* all_results: <<source, store_info or NoInfo>>
    ci, fi,       \* cleanup cursors: result index, file index
    stores,       \* vector stores on the server
    files,        \* files on the server
    storeFiles,   \* <<store, collection file id, file>> on the server
    made          \* stores and files this run made the server create

vars == <<cleanup, todo, src, pc, docs, store, fileId, cfIds, waitIdx, polls,
          queries, results, ci, fi, stores, files, storeFiles, made>>

Outcomes == {"ok", "status", "lost", "late"}
NoInfo == [store |-> <<>>, files |-> <<>>]
OldStore(s) == <<"vs", s, "old">>
NewStore(s) == <<"vs", s, "new">>
FileOf(s, i) == <<"file", s, i>>
CollectionFileOf(s, i) == <<"cf", s, i>>

Client == <<todo, src, docs, store, fileId, cfIds, waitIdx, polls, queries, results, ci, fi>>
Server == <<stores, files, storeFiles, made>>

Init ==
    /\ cleanup \in BOOLEAN
    /\ todo = Sources
    /\ src = Head(Sources)
    /\ pc = "next"
    /\ docs = 0 /\ store = <<>> /\ fileId = <<>> /\ cfIds = <<>>
    /\ waitIdx = 1 /\ polls = 0 /\ queries = 0
    /\ results = <<>> /\ ci = 1 /\ fi = 0
    /\ stores = {OldStore(s) : s \in Existing}
    /\ files = {} /\ storeFiles = {}
    /\ made = {}

\* An exception escapes run_source_test; main's except prints it and goes on
\* with the next source, without a result for this one.
Raise == pc' = "next" /\ UNCHANGED results

\* run_source_test returns (result, store_info).
Return(info) == pc' = "next" /\ results' = Append(results, <<src, info>>)

\* The loop of main over sources_to_test; the fetch and the size filter
\* leave n documents; with none, no store is made.
StartSource ==
    /\ pc = "next" /\ todo # <<>>
    /\ \E n \in 0..MaxDocs :
         /\ docs' = n
         /\ IF n = 0 THEN results' = Append(results, <<Head(todo), NoInfo>>) /\ UNCHANGED pc
            ELSE pc' = "find" /\ UNCHANGED results
    /\ src' = Head(todo) /\ todo' = Tail(todo)
    /\ cfIds' = <<>> /\ store' = <<>>
    /\ UNCHANGED <<cleanup, fileId, waitIdx, polls, queries, ci, fi, Server>>

EndSources ==
    /\ pc = "next" /\ todo = <<>>
    /\ pc' = IF cleanup THEN "cleanup" ELSE "done"
    /\ UNCHANGED <<cleanup, Client, Server>>

\* find_vector_store: any error is "not found".
FindStore ==
    /\ pc = "find"
    /\ \E o \in Outcomes :
         IF o = "ok" /\ src \in Existing
         THEN store' = OldStore(src) /\ pc' = "upload"
         ELSE pc' = "create" /\ UNCHANGED store
    /\ UNCHANGED <<cleanup, todo, src, docs, fileId, cfIds, waitIdx, polls, queries, results, ci, fi, Server>>

\* The POST of get_or_create_vector_store; its except reads response.text.
CreateStore ==
    /\ pc = "create"
    /\ \E o \in Outcomes :
         /\ IF o \in {"ok", "late"}
            THEN stores' = stores \cup {NewStore(src)} /\ made' = made \cup {NewStore(src)}
            ELSE UNCHANGED <<stores, made>>
         /\ CASE o = "ok"     -> store' = NewStore(src) /\ pc' = "upload" /\ UNCHANGED results
              [] o = "status" -> Return(NoInfo) /\ UNCHANGED store
              [] OTHER        -> Raise /\ UNCHANGED store
    /\ UNCHANGED <<cleanup, todo, src, docs, fileId, cfIds, waitIdx, polls, queries, ci, fi, files, storeFiles>>

\* Mutant: the document loop's bound is dropped.
UploadUnguarded ==
    /\ pc = "upload"
    /\ LET f == FileOf(src, docs) IN
       \E o \in Outcomes :
         /\ IF o \in {"ok", "late"}
            THEN files' = files \cup {f} /\ made' = made \cup {f}
            ELSE UNCHANGED <<files, made>>
         /\ CASE o = "ok"     -> fileId' = f /\ pc' = "add" /\ UNCHANGED docs
              [] o = "status" -> docs' = docs - 1 /\ UNCHANGED <<pc, fileId>>
              [] OTHER        -> Raise /\ UNCHANGED <<docs, fileId>>
    /\ UNCHANGED <<cleanup, todo, src, store, cfIds, waitIdx, polls, queries, results, ci, fi, stores, storeFiles>>

\* upload_file for the next document; its except reads response.text.
Upload ==
    /\ pc = "upload" /\ docs > 0
    /\ LET f == FileOf(src, docs) IN
       \E o \in Outcomes :
         /\ IF o \in {"ok", "late"}
            THEN files' = files \cup {f} /\ made' = made \cup {f}
            ELSE UNCHANGED <<files, made>>
         /\ CASE o = "ok"     -> fileId' = f /\ pc' = "add" /\ UNCHANGED docs
              [] o = "status" -> docs' = docs - 1 /\ UNCHANGED <<pc, fileId>>
              [] OTHER        -> Raise /\ UNCHANGED <<docs, fileId>>
    /\ UNCHANGED <<cleanup, todo, src, store, cfIds, waitIdx, polls, queries, results, ci, fi, stores, storeFiles>>

\* add_file_to_store: a 409 yields {"id": file_id}; another status and a
\* transport error (caught by the second except) yield None.
AddToStore ==
    /\ pc = "add"
    /\ LET cf == CollectionFileOf(src, docs) IN
       \E o \in Outcomes \cup {"conflict"} :
         /\ storeFiles' = IF o \in {"ok", "late"} THEN storeFiles \cup {<<store, cf, fileId>>}
                          ELSE storeFiles
         /\ cfIds' = CASE o = "ok"       -> Append(cfIds, cf)
                       [] o = "conflict" -> Append(cfIds, fileId)
                       [] OTHER          -> cfIds
    /\ docs' = docs - 1 /\ pc' = "upload"
    /\ UNCHANGED <<cleanup, todo, src, store, fileId, waitIdx, polls, queries, results, ci, fi, stores, files, made>>

\* All documents tried: wait for the added files, or go on to the searches.
EndUploads ==
    /\ pc = "upload" /\ docs = 0
    /\ pc' = IF cfIds # <<>> THEN "wait" ELSE "search"
    /\ waitIdx' = 1 /\ polls' = 0 /\ queries' = NumQueries
    /\ UNCHANGED <<cleanup, todo, src, docs, store, fileId, cfIds, results, ci, fi, Server>>

\* The next collection file to wait for, or the searches.
NextWait ==
    IF waitIdx = Len(cfIds) THEN pc' = "search" /\ UNCHANGED <<waitIdx, polls>>
    ELSE waitIdx' = waitIdx + 1 /\ polls' = 0 /\ UNCHANGED pc

\* Mutant: the deadline restarts on every poll (`start` set in the loop).
WaitPollNoDeadline ==
    /\ pc = "wait"
    /\ \E o \in {"completed", "failed", "pending", "status", "lost"} :
         CASE o = "pending" -> polls' = (polls + 1) % MaxPolls /\ UNCHANGED <<pc, waitIdx>>
           [] o = "lost" /\ polls = 0 -> Raise /\ UNCHANGED <<waitIdx, polls>>
           [] OTHER -> NextWait
    /\ UNCHANGED <<cleanup, todo, src, docs, store, fileId, cfIds, queries, results, ci, fi, Server>>

\* One GET of wait_for_processing.  "completed", "failed" and an error
\* status end the wait; "pending" sleeps and polls again until max_wait is
\* spent.  A transport error reads response.text: on the first poll it is
\* unbound (UnboundLocalError), later it is the previous poll's response.
WaitPoll ==
    /\ pc = "wait"
    /\ \E o \in {"completed", "failed", "pending", "status", "lost"} :
         CASE o = "pending" /\ polls + 1 < MaxPolls -> polls' = polls + 1 /\ UNCHANGED <<pc, waitIdx>>
           [] o = "lost" /\ polls = 0 -> Raise /\ UNCHANGED <<waitIdx, polls>>
           [] OTHER -> NextWait
    /\ UNCHANGED <<cleanup, todo, src, docs, store, fileId, cfIds, queries, results, ci, fi, Server>>

\* search: its except reads response.text.
Search ==
    /\ pc = "search" /\ queries > 0
    /\ \E o \in Outcomes :
         IF o \in {"ok", "status"} THEN queries' = queries - 1 /\ UNCHANGED <<pc, results>>
         ELSE Raise /\ UNCHANGED queries
    /\ UNCHANGED <<cleanup, todo, src, docs, store, fileId, cfIds, waitIdx, polls, ci, fi, Server>>

EndSource ==
    /\ pc = "search" /\ queries = 0
    /\ Return([store |-> store, files |-> cfIds])
    /\ UNCHANGED <<cleanup, todo, src, docs, store, fileId, cfIds, waitIdx, polls, queries, ci, fi, Server>>

-----------------------------------------------------------------------------
(* The cleanup loop of main.  Nothing catches an exception here.           *)

Info == results[ci][2]

SkipResult ==
    /\ pc = "cleanup" /\ ci <= Len(results)
    /\ Info = NoInfo \/ fi > Len(Info.files)
    /\ ci' = ci + 1 /\ fi' = 0
    /\ UNCHANGED <<cleanup, todo, src, pc, docs, store, fileId, cfIds, waitIdx, polls, queries, results, Server>>

\* delete_vector_store; a store not on the server answers 404.
DeleteStore ==
    /\ pc = "cleanup" /\ ci <= Len(results) /\ Info # NoInfo /\ fi = 0
    /\ \E o \in IF Info.store \in stores THEN Outcomes ELSE {"status", "lost"} :
         /\ stores' = IF o \in {"ok", "late"} THEN stores \ {Info.store} ELSE stores
         /\ IF o \in {"ok", "status"} THEN fi' = 1 /\ UNCHANGED pc
            ELSE pc' = "crashed" /\ UNCHANGED fi
    /\ UNCHANGED <<cleanup, todo, src, docs, store, fileId, cfIds, waitIdx, polls, queries, results, ci, files, storeFiles, made>>

\* delete_file on the next id of store_info["file_ids"].
DeleteFile ==
    /\ pc = "cleanup" /\ ci <= Len(results) /\ Info # NoInfo
    /\ fi >= 1 /\ fi <= Len(Info.files)
    /\ LET id == Info.files[fi] IN
       \E o \in IF id \in files THEN Outcomes ELSE {"status", "lost"} :
         /\ files' = IF o \in {"ok", "late"} THEN files \ {id} ELSE files
         /\ IF o \in {"ok", "status"} THEN fi' = fi + 1 /\ UNCHANGED pc
            ELSE pc' = "crashed" /\ UNCHANGED fi
    /\ UNCHANGED <<cleanup, todo, src, docs, store, fileId, cfIds, waitIdx, polls, queries, results, ci, stores, storeFiles, made>>

EndCleanup ==
    /\ pc = "cleanup" /\ ci > Len(results)
    /\ pc' = "done"
    /\ UNCHANGED <<cleanup, Client, Server>>

Next ==
    \/ StartSource \/ EndSources \/ FindStore \/ CreateStore \/ Upload
    \/ AddToStore \/ EndUploads \/ WaitPoll \/ Search \/ EndSource
    \/ SkipResult \/ DeleteStore \/ DeleteFile \/ EndCleanup

\* One sequential process; every HTTP call returns or times out.
Spec == Init /\ [][Next]_vars /\ WF_vars(Next)

-----------------------------------------------------------------------------
Ids == {FileOf(s, i) : s \in Range(Sources), i \in 1..MaxDocs}
       \cup {CollectionFileOf(s, i) : s \in Range(Sources), i \in 1..MaxDocs}

TypeOK ==
    /\ pc \in {"next", "find", "create", "upload", "add", "wait", "search",
               "cleanup", "done", "crashed"}
    /\ docs \in 0..MaxDocs
    /\ polls \in 0..MaxPolls
    /\ \A i \in DOMAIN results : Range(results[i][2].files) \subseteq Ids
    /\ files \subseteq Ids

(***************************************************************************)
(* The run always ends: every call returns or times out, and the wait     *)
(* for a file that never finishes processing gives up after max_wait.     *)
(***************************************************************************)
Terminates == <>(pc \in {"done", "crashed"})

(***************************************************************************)
(* --cleanup "deletes created vector stores after testing": a run that    *)
(* completes its cleanup leaves no store it created.  A source that        *)
(* raises after its store was created has no result, so its store is not  *)
(* in the cleanup list.                                                    *)
(***************************************************************************)
CleanupDeletesCreatedStores == (pc = "done" /\ cleanup) => stores \cap made = {}
=============================================================================
