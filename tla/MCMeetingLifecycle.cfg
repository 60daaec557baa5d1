CONSTANTS
    c1 = c1
    c2 = c2
    NoConn = NoConn
    Conn <- MCConn
    MaxUtterances <- TwoAndNone
    MayRaise = TRUE
    MayCrash = TRUE
SPECIFICATION FairSpec
INVARIANTS TypeOK ReportOnWholeTranscript
PROPERTIES LeaseSpec MarkNeverUndoesReady StopLeadsOut DrainSettles
CHECK_DEADLOCK FALSE
