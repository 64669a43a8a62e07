SPECIFICATION HSpec
CONSTANTS
    Thread = {t1, t2, t3}
    MaxCalls <- One
    MAXFAILURES = 1
    HELPINGDELAY = 0
    Dummy = Dummy
    NoNode = NoNode
    NoOp = NoOp
    None = None
    Empty = Empty
SYMMETRY Symmetry
INVARIANTS TypeOK LinkedOnce Claimed
PROPERTIES HeadForward FifoSpec
CHECK_DEADLOCK FALSE
