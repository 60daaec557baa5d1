CONSTANTS
    c1 = c1
    c2 = c2
    c3 = c3
    NoConn = NoConn
    Conn <- MCConn
    TTL = 30
    RenewInterval = 10
    MaxDelay = 0
    MaxSetup = 0
    MaxMissed = 2
SPECIFICATION Spec
INVARIANT MutualExclusion
CHECK_DEADLOCK FALSE
