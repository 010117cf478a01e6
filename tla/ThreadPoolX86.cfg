SPECIFICATION FairSpec
CONSTANTS
    Worker = {w1}
    MAX_JOBS = 1
    SlowMessage = SlowMessage
    LockedStop = FALSE
    Kinds = {FALSE}
    Caution = "done"
PROPERTY WorkersLeave
CHECK_DEADLOCK FALSE
