CONSTANTS
    t1 = t1
    t2 = t2
    t3 = t3
    Thread = {t1, t2, t3}
    Keys = 3
    Records = 5
    ListNum = 1
    RefMod = 8
    NodeMod = 8
    NextMod = 16
    MaxPrev = 1
    Files <- CheckedFiles
    Scenarios <- BothScenarios
    Watched = {t1}
SPECIFICATION Spec
INVARIANTS TypeOK ReallyLinked Conserved Sorted
PROPERTIES OnlyDeleted TurnsBack CountsSpec
