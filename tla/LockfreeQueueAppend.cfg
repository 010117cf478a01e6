SPECIFICATION Spec
CONSTANTS
    Thread = {t1, t2}
    Node = {1, 2, 3}
    Null = 0
    TAGS = 8
    FIRST_TAG = 2
    MAX_PUSHES = 3
    MAX_POPS = 2
PROPERTY AtomicAppend
CHECK_DEADLOCK FALSE
