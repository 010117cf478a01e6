SPECIFICATION FairSpec
CONSTANTS
    Worker = {w1, w2}
    MAX_JOBS = 2
    SlowMessage = SlowMessage
    LockedStop = TRUE
    Kinds = {TRUE, FALSE}
    Caution = "done"
PROPERTY PoolOutlivesUse
CHECK_DEADLOCK FALSE
