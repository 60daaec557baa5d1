CONSTANTS
    c1 = c1
    c2 = c2
    NoConn = NoConn
    Conn <- NobodyLive
    MaxUtterances <- Silent
    MayRaise = FALSE
    MayCrash = FALSE
SPECIFICATION FairSpec
PROPERTY UploadSettles
CHECK_DEADLOCK FALSE
