CONSTANTS
    MaxFrames = 5
    MinSpeech = 2
    MaxSpeech = 3
    SilenceToFlush = 1
    MayFail = TRUE
SPECIFICATION FairSpec
INVARIANTS TypeOK LossNeedsFault TranscribedOnce UsageBilledOnce
PROPERTIES LateCommitsFollowADrop StopSettles
CHECK_DEADLOCK FALSE
