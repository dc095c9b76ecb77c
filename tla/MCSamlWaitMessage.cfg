CONSTANTS
    GatewayWait = 60
    AuthentikWait = 120
    MaxRequest = 15
    PollSleep = 2
SPECIFICATION WaitSpec
INVARIANT MetadataCheckedBeforeGivingUp
CHECK_DEADLOCK FALSE
