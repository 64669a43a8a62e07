SPECIFICATION FairSpec
CONSTANTS
    Thread = {t1, t2}
    ARRAYNUM_MAX = 2
    ARRAYNUM = 1
    Growing <- FreeLists
    TAKES = 2
    IDXNUM = 3
    VERSIONS = 65536
    NEXTVERSIONS = 32768
    MaxGets = 2
    NoRecord = NoRecord
INVARIANTS TypeOK Exclusive Conserved
PROPERTIES Completes
CHECK_DEADLOCK FALSE
