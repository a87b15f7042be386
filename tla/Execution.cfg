CONSTANTS
    r1 = r1
    r2 = r2
    Result = {r1, r2}
    Worker = {w1, w2}
    NoJob = NoJob
    Settings <- MCSettings

SPECIFICATION FairSpec
INVARIANTS CompleteUnlessAborted SinkOpen
PROPERTIES PanicReported  PoolStops
CHECK_DEADLOCK FALSE
