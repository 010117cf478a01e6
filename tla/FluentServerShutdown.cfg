SPECIFICATION Spec
CONSTANTS
    Conn = {t1, c1}
    Served = {t1, c1}
    Talker = {t1}
    Null = Null
    PREFETCH = 1
    GC_THRESHOLD = 0
    SNDBUF = 1
    MAX_LEN = 2
    MAX_CALLS = 2
PROPERTY FinSent
