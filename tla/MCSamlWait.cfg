CONSTANTS
    GatewayWait = 60
    AuthentikWait = 120
    MaxRequest = 15
    PollSleep = 2
SPECIFICATION WaitSpec
INVARIANT WaitTypeOK
PROPERTY WaitImplementsServiceWait
CHECK_DEADLOCK FALSE
