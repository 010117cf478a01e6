SPECIFICATION RuntimeSpec
CONSTANTS
    Writer = {1, 2}
    Reader = {3, 4}
    Contender = {1, 2, 3}
    COUNT = 2
INVARIANTS Exclusion LockWord EveryIncrementCounts AtMostOnce SlowPath CoroutineBooks CompletionsExact ResponsesExact HerdAsSaid
PROPERTY WorkEnds
CHECK_DEADLOCK FALSE
