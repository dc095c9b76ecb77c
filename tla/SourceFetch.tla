------------------------------ MODULE SourceFetch ------------------------------
(***************************************************************************)
(* What run_source_test of scripts/test-knowledge-bases.py relies on from  *)
(* a DocumentSource's fetch followed by the size filter: it returns, once, *)
(* between 0 and max_docs_per_source documents, and the count no longer   *)
(* changes.  KnowledgeBaseTest's StartSource takes exactly this step.     *)
(***************************************************************************)
EXTENDS Naturals

CONSTANT MaxDocs      \* config.max_docs_per_source

VARIABLE fetched      \* {} while fetching, then {n}: n documents kept

SourceFetchInit == fetched = {}

FetchEnd ==
    /\ fetched = {}
    /\ \E n \in 0..MaxDocs : fetched' = {n}

SourceFetchSpec ==
    SourceFetchInit /\ [][FetchEnd]_fetched /\ WF_fetched(FetchEnd)
=============================================================================
