CONSTANTS
    T1 = T1
    T2 = T2
    TeamOrder <- MCTeamOrder
    MaxRuns = 2
SPECIFICATION SetupSpec
INVARIANT SetupTypeOK
INVARIANT FirstCleanSetupConfigures
CHECK_DEADLOCK FALSE
