CONSTANTS
    Producer = {p1, p2}
    Worker = {w1, w2}
    Throughput = 2
    MaxCalls = 2
    Outcome = {"ok", "error", "panic"}
    NoMessage = NoMessage
SPECIFICATION FairSpec
INVARIANTS SingleConsumer NoLostWakeup InOrder FinishedOnce
PROPERTY Drains
CHECK_DEADLOCK FALSE
