SPECIFICATION CFairSpec
CONSTANTS
    Thread = {1, 2}
    Programs <- Mixed
    MaxCalls = 3
    CELLS_SIZE = 2
    Cells = 16
    Used = 1
    Old = Old
    Null = Null
    Top = Top
    Bot = Bot
    None = None
INVARIANTS TypeOK Linearizable
PROPERTIES Completes
CHECK_DEADLOCK FALSE
