\* A document whose component A refers to itself.
CONSTANTS
    JsonTrue = JsonTrue
    JsonFalse = JsonFalse
    RecursionLimit = 12
    Requests <- MCRequests
    Documents <- CyclicDocs
SPECIFICATION MCSpec
INVARIANT NoRecursionError
