SPECIFICATION BFairSpec
CONSTANTS
    N = 2
    MaxFast = 2
    MaxOps = 4
    Adds = {1}
    NoTicket = NoTicket
    NoThread = NoThread
    NoValue = NoValue
INVARIANTS TypeOK OvertakenBound RoundsBound
PROPERTIES StepOrder FASpec Completes
CHECK_DEADLOCK FALSE
