SPECIFICATION HSpec
CONSTANTS
    t1 = t1
    t2 = t2
    t3 = t3
    a1 = a1
    a2 = a2
    a3 = a3
    a4 = a4
    Thread = {t1, t2}
    Program <- TwoThreads
    Address = {a1, a2, a3, a4}
    Dummy = a1
    Files <- AllFiles
    flagRet = TRUE
    Null = Null
    NoCall = NoCall
    None = None
    Empty = Empty
SYMMETRY Symmetry
INVARIANTS TypeOK NoUseAfterFree NoLeak
PROPERTIES FifoSpec
CHECK_DEADLOCK FALSE
