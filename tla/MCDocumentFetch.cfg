SPECIFICATION FetchSpec
CONSTANTS
    MaxDocs = 2
    MaxEntries = 3
    RfcCount = 10
    CourtCount = 3
    MaxLinks = 3
INVARIANT FetchTypeOK
PROPERTY FetchImplementsSourceFetch
CHECK_DEADLOCK FALSE
