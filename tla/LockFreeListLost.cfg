SPECIFICATION RSpec
CONSTANTS
    Thread = {t1, t2}
    MaxOps = 2
    Keys = {1, 2}
    Size = 2
    Initial <- OneTwo
    Maker = Maker
    Head = Head
    Tail = Tail
    NoPacket = NoPacket
    NoCall = NoCall
INVARIANTS DeleteRefusal
CHECK_DEADLOCK FALSE
