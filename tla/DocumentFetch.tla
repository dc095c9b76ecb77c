----------------------------- MODULE DocumentFetch -----------------------------
(***************************************************************************)
(* The four DocumentSource.fetch methods of scripts/test-knowledge-bases.py *)
(* and the size filter of run_source_test that follows them.               *)
(*                                                                         *)
(* A document is counted, not built: titles, slugs, HTML and XML parsing   *)
(* are abstracted to what decides whether an item becomes a document, an  *)
(* error, or nothing.  Every HTTP request either answers or raises         *)
(* httpx.HTTPError (a status or a transport error); each fetch catches     *)
(* the HTTPError of each request where the code says.                     *)
(***************************************************************************)
EXTENDS Integers, Sequences

CONSTANTS
    MaxDocs,        \* config.max_docs_per_source (argparse --max-docs)
    MaxEntries,     \* entries an Atom feed (or the arXiv API) may return
    RfcCount,       \* len(recent_rfcs)
    CourtCount,     \* len(courts) of AustLIISource
    MaxLinks        \* links an AustLII index page may hold

VARIABLES
    kind,         \* the source being fetched
    fpc,          \* where its fetch is
    todo,         \* items left in the running loop: entries, RFCs or links
    url,          \* the RFC_URLS template being tried
    courtsLeft,   \* courts not yet visited
    docs,         \* len(result.documents); also AustLII's docs_fetched
    errors,       \* len(result.errors)
    kept          \* documents left by the size filter

fetchVars == <<kind, fpc, todo, url, courtsLeft, docs, errors, kept>>

\* RFCSource.RFC_URLS: the templates tried for each RFC, in order.
RFC_URLS == <<"www.ietf.org/rfc/rfc{num}.txt", "datatracker.ietf.org/doc/html/rfc{num}">>
RfcUrls == Len(RFC_URLS)

Kinds == {"simonw", "rfc", "arxiv", "austlii"}

\* len(xs[:k]) for a list of n elements, Python's slice rule included.
SliceLen(n, k) ==
    IF k >= 0 THEN IF n < k THEN n ELSE k
    ELSE IF n + k > 0 THEN n + k ELSE 0

FetchInit ==
    /\ kind \in Kinds
    /\ fpc = CASE kind \in {"simonw", "arxiv"} -> "feed"
               [] kind = "rfc"                 -> "rfc"
               [] kind = "austlii"             -> "court"
    /\ todo = IF kind = "rfc" THEN SliceLen(RfcCount, MaxDocs) ELSE 0
    /\ url = 1
    /\ courtsLeft = CourtCount
    /\ docs = 0 /\ errors = 0 /\ kept = 0

\* The feed GET (simonw), or the API query (arxiv, max_results=max_docs),
\* then ET.fromstring: HTTPError and ParseError each add one error.
FeedRequest ==
    /\ fpc = "feed"
    /\ \/ \E n \in 0..MaxEntries :
            todo' = SliceLen(n, MaxDocs) /\ fpc' = "entries" /\ UNCHANGED errors
       \/ errors' = errors + 1 /\ fpc' = "filter" /\ UNCHANGED todo
    /\ UNCHANGED <<kind, url, courtsLeft, docs, kept>>

\* What one entry of the feed becomes.  simonw: a document when its text
\* is over 100 characters, else nothing; arxiv: no <id> is `continue`, and
\* the PDF GET gives the document or an error.  An exception while parsing
\* the entry is caught by `except Exception` and is one error.
EntryOutcomes(k) ==
    IF k = "simonw" THEN {"doc", "short", "broken"}
    ELSE {"noid", "broken", "pdf_ok", "pdf_failed"}

\* Mutant: the loop over entries has no bound.
EntryUnguarded ==
    /\ fpc = "entries"
    /\ \E o \in EntryOutcomes(kind) :
         /\ docs' = IF o \in {"doc", "pdf_ok"} THEN docs + 1 ELSE docs
         /\ errors' = IF o \in {"broken", "pdf_failed"} THEN errors + 1 ELSE errors
    /\ todo' = todo - 1
    /\ UNCHANGED <<kind, fpc, url, courtsLeft, kept>>

Entry ==
    /\ fpc = "entries" /\ todo > 0
    /\ \E o \in EntryOutcomes(kind) :
         /\ docs' = IF o \in {"doc", "pdf_ok"} THEN docs + 1 ELSE docs
         /\ errors' = IF o \in {"broken", "pdf_failed"} THEN errors + 1 ELSE errors
    /\ todo' = todo - 1
    /\ UNCHANGED <<kind, fpc, url, courtsLeft, kept>>

\* Mutant: `if fetched: break` is dropped, so every template is tried.
RfcTryNoBreak ==
    /\ fpc = "rfc" /\ todo > 0
    /\ \/ /\ docs' = docs + 1
          /\ IF url < RfcUrls THEN url' = url + 1 /\ UNCHANGED todo
             ELSE url' = 1 /\ todo' = todo - 1
          /\ UNCHANGED errors
       \/ /\ url < RfcUrls /\ url' = url + 1
          /\ UNCHANGED <<todo, docs, errors>>
       \/ /\ url = RfcUrls /\ url' = 1 /\ todo' = todo - 1
          /\ errors' = errors + 1 /\ UNCHANGED docs
    /\ UNCHANGED <<kind, fpc, courtsLeft, kept>>

\* One GET of RFCSource.fetch: an answer is the RFC's document and ends its
\* template loop; an HTTPError goes on to the next template, and after the
\* last one the RFC is one error.
RfcTry ==
    /\ fpc = "rfc" /\ todo > 0
    /\ \/ /\ docs' = docs + 1 /\ url' = 1 /\ todo' = todo - 1
          /\ UNCHANGED errors
       \/ /\ url < RfcUrls /\ url' = url + 1
          /\ UNCHANGED <<todo, docs, errors>>
       \/ /\ url = RfcUrls /\ url' = 1 /\ todo' = todo - 1
          /\ errors' = errors + 1 /\ UNCHANGED docs
    /\ UNCHANGED <<kind, fpc, courtsLeft, kept>>

\* A loop over entries or RFCs is over.
ItemsDone ==
    /\ fpc \in {"entries", "rfc"} /\ todo = 0
    /\ fpc' = "filter"
    /\ UNCHANGED <<kind, todo, url, courtsLeft, docs, errors, kept>>

\* The courts loop of AustLIISource.fetch: stop once max_docs documents are
\* in, else GET the court's index; an HTTPError is one error.
Court ==
    /\ fpc = "court"
    /\ \/ /\ courtsLeft = 0 \/ docs >= MaxDocs
          /\ fpc' = "filter" /\ UNCHANGED <<todo, courtsLeft, errors>>
       \/ /\ courtsLeft > 0 /\ docs < MaxDocs
          /\ \/ \E n \in 0..MaxLinks : todo' = n /\ fpc' = "links" /\ UNCHANGED <<courtsLeft, errors>>
             \/ errors' = errors + 1 /\ courtsLeft' = courtsLeft - 1 /\ UNCHANGED <<fpc, todo>>
    /\ UNCHANGED <<kind, url, docs, kept>>

\* One link of an index page: the loop breaks once docs_fetched reaches
\* max_docs.  A link that is not a case (/YYYY/N.html) is passed over; a
\* case page is a document if it has a content div or a body, nothing if
\* not, and one error on an HTTPError.
Link ==
    /\ fpc = "links" /\ todo > 0
    /\ \/ /\ docs >= MaxDocs
          /\ fpc' = "court" /\ courtsLeft' = courtsLeft - 1
          /\ UNCHANGED <<todo, docs, errors>>
       \/ /\ docs < MaxDocs
          /\ \E o \in {"other", "case_ok", "case_empty", "case_failed"} :
               /\ docs' = IF o = "case_ok" THEN docs + 1 ELSE docs
               /\ errors' = IF o = "case_failed" THEN errors + 1 ELSE errors
          /\ todo' = todo - 1 /\ UNCHANGED <<fpc, courtsLeft>>
    /\ UNCHANGED <<kind, url, kept>>

\* The index page's links are exhausted: on to the next court.
LinksDone ==
    /\ fpc = "links" /\ todo = 0
    /\ fpc' = "court" /\ courtsLeft' = courtsLeft - 1
    /\ UNCHANGED <<kind, todo, url, docs, errors, kept>>

\* run_source_test keeps the documents of at most max_file_size_mb; each
\* one is over or under the limit independently.
Filter ==
    /\ fpc = "filter"
    /\ kept' \in 0..docs
    /\ fpc' = "done"
    /\ UNCHANGED <<kind, todo, url, courtsLeft, docs, errors>>

FetchNext ==
    \/ FeedRequest \/ Entry \/ RfcTry \/ ItemsDone
    \/ Court \/ Link \/ LinksDone \/ Filter

\* fetch is a sequential loop over finitely many items; every request has
\* the client's 30 s timeout.
FetchSpec == FetchInit /\ [][FetchNext]_fetchVars /\ WF_fetchVars(FetchNext)

-----------------------------------------------------------------------------
FetchTypeOK ==
    /\ kind \in Kinds
    /\ fpc \in {"feed", "entries", "rfc", "court", "links", "filter", "done"}
    /\ todo \in Nat /\ url \in 1..RfcUrls /\ courtsLeft \in 0..CourtCount
    /\ docs \in Nat /\ errors \in Nat /\ kept \in 0..docs

\* The fetch as SourceFetch sees it: fetching until the filter has run.
Fetched == INSTANCE SourceFetch
    WITH fetched <- IF fpc = "done" THEN {kept} ELSE {}

(***************************************************************************)
(* Every source's fetch, then the size filter, implements SourceFetch: it  *)
(* ends, once, with at most max_docs_per_source documents, which is all    *)
(* KnowledgeBaseTest assumes of it.  Each source bounds its own way: a    *)
(* slice of the feed, one document per RFC (the `fetched` flag ends the    *)
(* template loop), docs_fetched checked before every AustLII court and    *)
(* link.                                                                   *)
(***************************************************************************)
FetchImplementsSourceFetch == Fetched!SourceFetchSpec
=============================================================================
