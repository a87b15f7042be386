CONSTANTS
    r1 = r1
    r2 = r2
    Result = {r1, r2}
    Worker = {w1, w2}
    NoJob = NoJob
    Settings <- MCReadError

SPECIFICATION Spec
INVARIANT CompleteResults
CHECK_DEADLOCK FALSE
