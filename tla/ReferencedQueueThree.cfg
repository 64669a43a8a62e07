SPECIFICATION Spec
CONSTANTS
    t1 = t1
    t2 = t2
    t3 = t3
    a1 = a1
    a2 = a2
    a3 = a3
    a4 = a4
    Thread = {t1, t2, t3}
    Program <- ThreeThreads
    Address = {a1, a2, a3, a4}
    Dummy = a1
    Files <- FilesThatRetireAtOnce
    flagRet = TRUE
    Null = Null
    NoCall = NoCall
    None = None
    Empty = Empty
INVARIANTS NotItself
CHECK_DEADLOCK FALSE
