CONSTANTS
    Query = {q1, q2}
    None = None
    ConcurrencyQuota = 2
    MemoryQuota = 1
    Priority = {0}
    Concurrency = {1, 3}
    Memory = {1, Unlimited}
    Unlimited = Unlimited
    Failures = {"compile", "validate", "plan", "execute"}
    ClientOps = {"cancel", "early done"}

SPECIFICATION Spec
SYMMETRY Symmetry
INVARIANTS ErrIffErrored 
CHECK_DEADLOCK FALSE
