CONSTANTS
    c1 = c1
    c2 = c2
    NoConn = NoConn
    Conn <- MCConn
    MaxUtterances <- Silent
    MayRaise = FALSE
    MayCrash = FALSE
SPECIFICATION FairSpec
PROPERTY LeavingEndsRecording
CHECK_DEADLOCK FALSE
