SPECIFICATION RFairSpec
CONSTANTS
    Thread = {t1, t2}
    MaxOps = 2
    Keys = {1, 2, 3}
    Size = 2
    Initial <- OneTwo
    Maker = Maker
    Head = Head
    Tail = Tail
    NoPacket = NoPacket
    NoCall = NoCall
INVARIANTS TypeOK Ascending Balance InsertRefusal
PROPERTIES DeletedOnce Completes
CHECK_DEADLOCK FALSE
