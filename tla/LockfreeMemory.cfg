SPECIFICATION MemorySpec
CONSTANTS
    Node = {1, 2, 3}
    Null = 0
    Thread = {t1, t2, t3}
    TAGS = 8
    FIRST_TAG = 6
    MAX_PUSHES = 4
    MAX_POPS = 2
    Pusher = {s1, s2}
    Val = {a, b}
    None = None
    STACK_PUSHES = 3
    Allocator = {f1, f2}
    MAX_ALLOCS = 3
SYMMETRY Symmetry
INVARIANTS QueueExact NodesSafe
PROPERTIES LifoSpec PoolSpec
CHECK_DEADLOCK FALSE
