SPECIFICATION Spec
CONSTANTS
    Thread = {t1, t2, t3}
    Val = {a, b}
    SIZE = 2
    IntSpan = 4
    SizeSpan = 16
    MAX_TICKETS = 6
SYMMETRY Symmetry
INVARIANTS TypeOK ExclusiveSlot RefusalJustified ServedWithinInt
PROPERTY CellsSpec
CHECK_DEADLOCK FALSE
