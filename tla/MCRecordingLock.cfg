CONSTANTS
    c1 = c1
    c2 = c2
    c3 = c3
    NoConn = NoConn
    Conn <- MCConn
    TTL = 30
    RenewInterval = 10
    MaxDelay = 1
    MaxSetup = 6
    MaxMissed = 1
SPECIFICATION FairSpec
INVARIANTS TypeOK MutualExclusion CheckStillHolds
PROPERTIES LeaseSpec LockHeals
CHECK_DEADLOCK FALSE
