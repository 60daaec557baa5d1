CONSTANTS
    s1 = s1
    s2 = s2
    s3 = s3
    StreamVoice <- MCStreamVoice
    Free = Free
    Nobody = Nobody
    Segments <- MCSegments
    Concurrency = 2
    Watched <- MCWatched
    Duration <- MCDuration
    GuestMin = 2
    ShareNum = 1
    ShareDen = 5
    MaxVoices = 2
    MaxPasses = 2
    MayFail = TRUE
SPECIFICATION FairSpec
INVARIANTS TypeOK PendingIsProvisional WeightsAccounted ClientAgrees NothingUnreported
PROPERTIES LabelsStay LockFreed ReportsArrive
CHECK_DEADLOCK FALSE
CONSTRAINT StreamApart
