CONSTANTS
    Query = {q1, q2, q3}
    NoID = NoID

SPECIFICATION Spec
INVARIANT UniqueIDs
CHECK_DEADLOCK FALSE
