CONSTANTS
    Query = {q1, q2, q3}
    None = None
    ConcurrencyQuota = 2
    MemoryQuota = 2
    Priority = {0}
    Concurrency = {1, 3}
    Memory = {2}
    Unlimited = Unlimited
    Failures = {"execute"}
    ClientOps = {}

SPECIFICATION FairSpec
PROPERTY Answered
CHECK_DEADLOCK FALSE
