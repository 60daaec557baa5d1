CONSTANTS
    c1 = c1
    c2 = c2
    NoConn = NoConn
    Conn <- MCConn
    MaxUtterances <- OneEach
    MayRaise = FALSE
    MayCrash = FALSE
SPECIFICATION Spec
INVARIANT OneWriter
CHECK_DEADLOCK FALSE
