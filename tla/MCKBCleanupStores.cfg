\* --cleanup deletes the vector stores the run created.
CONSTANTS
    S1 = S1
    S2 = S2
    Sources <- MCSources
    Existing <- MCExisting
    MaxDocs = 2
    MaxPolls = 2
    NumQueries = 2
SPECIFICATION Spec
INVARIANT CleanupDeletesCreatedStores
CHECK_DEADLOCK FALSE
