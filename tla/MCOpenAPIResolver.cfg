\* Acyclic documents: the cache never changes what a call returns.
CONSTANTS
    JsonTrue = JsonTrue
    JsonFalse = JsonFalse
    RecursionLimit = 12
    Requests <- MCRequests
    Documents <- AcyclicDocs
SPECIFICATION MCSpec
INVARIANTS
    TypeOK
    ResolutionIndependentOfHistory
