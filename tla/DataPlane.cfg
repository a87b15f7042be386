CONSTANTS
    Message <- Messages
    Nil = Nil
    InitSize = 1
    MaxPending = 5
    Worker <- Workers
    Limit = 6
    Chunk = {1, 3}
    MaxLen = 5
    Sent <- SentSets
    RowTime = {0, 1, 3}
    RowValue <- Values
    Stop = 5
    Function <- Functions
    MaxRows = 4
    MaxSlice = 2
    MaxBlocks = 2
    JoinBlock <- JoinBlocks
    JoinStop <- JoinStops
    JoinRow <- JoinRows
    MaxJoinRows = 2
SPECIFICATION PartSpec
INVARIANTS WithinLimit MaxReached  StreamedAsWhole JoinComplete
PROPERTIES ImplementsFIFO
\* A stream ends, a worker panics, the parents of a join finish.
CHECK_DEADLOCK FALSE
