CONSTANTS
    Query = {q1, q2}
    None = None
    ConcurrencyQuota = 2
    MemoryQuota = 2
    Priority = {0}
    Concurrency = {1, 3}
    Memory = {1}
    Unlimited = Unlimited
    Failures = {"plan"}
    ClientOps = {}

SPECIFICATION FairSpec
PROPERTY Answered
CHECK_DEADLOCK FALSE
