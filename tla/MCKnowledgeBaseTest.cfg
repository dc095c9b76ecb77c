\* The knowledge-base smoke test: termination and types.  The script
\* ends after its summary or cleanup, so final states have no successor.
CONSTANTS
    S1 = S1
    S2 = S2
    Sources <- MCSources
    Existing <- MCExisting
    MaxDocs = 2
    MaxPolls = 2
    NumQueries = 2
SPECIFICATION Spec
INVARIANT TypeOK
PROPERTY Terminates
CHECK_DEADLOCK FALSE
