SPECIFICATION QueuesSpec
CONSTANTS
    Producer = {p1, p2}
    Consumer = {c1, c2, c3}
    MAX_PUSHES = 3
    Thread = {t1, t2, t3}
    V2_PUSHES = 2
    SIZE = 4
    Number = {0, 1, 2, 3, 4, 5, 6, 7}
    COUNT = 7
    Client = {l1, l2}
    BUFSIZE = 4
    Space = {2, 3}
    fileMaxSize = 3
    MAX_BYTES = 5
INVARIANTS NoLostWakeup InOrder NoRace
PROPERTIES QueueSpec CallsReturn
CHECK_DEADLOCK FALSE
