SPECIFICATION FairSpec
CONSTANTS
    Key = {1, 2}
    StopOf <- MCStopOf
    Settings <- MCSettings
    Time = {1, 2}
    WatermarkSpecs <- MCWatermarkSpecs
    MaxRows = 2
    NoKey = NoKey
    Live <- MCLive
    New <- NewTriggerFromSpec
    Fires <- Triggered
    Fired <- AfterTriggered
    Ends <- Finished
    Ended <- AfterFinished
\* After Finish has been processed downstream there is nothing left to do.
CHECK_DEADLOCK FALSE
INVARIANTS NothingLost FinishIsComplete WatermarkBehindData NoUseAfterClear
PROPERTIES FinishArrives
