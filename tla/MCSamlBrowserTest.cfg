CONSTANTS
    T1 = T1
    T2 = T2
    U1 = U1
    U2 = U2
    NoUser = NoUser
    TeamOrder <- MCTeamOrder
    Users <- MCUsers
    MaxRuns = 1
SPECIFICATION Spec
INVARIANT TypeOK
INVARIANT PassedMeansLoggedIn
INVARIANT ExportPrintsSessionCookie
PROPERTY RunEnds
CHECK_DEADLOCK FALSE
