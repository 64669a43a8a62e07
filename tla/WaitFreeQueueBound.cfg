SPECIFICATION BFairSpec
CONSTANTS
    Thread = {1, 2}
    MaxCalls <- OneFour
    MAXFAILURES = 1
    HELPINGDELAY = 0
    Dummy = Dummy
    NoNode = NoNode
    NoOp = NoOp
    None = None
    Empty = Empty
INVARIANTS OvertakenBound
PROPERTIES Completes
CHECK_DEADLOCK FALSE
