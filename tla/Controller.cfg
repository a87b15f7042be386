CONSTANTS
    Query = {q1, q2, q3}
    None = None
    ConcurrencyQuota = 2
    MemoryQuota = 2
    Priority = {0, 1}
    Concurrency = {1, 3}
    Memory = {1, Unlimited}
    Unlimited = Unlimited
    Failures = {"compile", "validate", "execute"}
    ClientOps = {}

SPECIFICATION Spec
SYMMETRY Symmetry
INVARIANTS QuotaAccounting SingleFinish NoQueryLost NoLockCycle
PROPERTY PriorityOrder
CHECK_DEADLOCK FALSE
