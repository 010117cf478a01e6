SPECIFICATION Spec
CONSTANTS
    Task = {a, b, c}
    Root = a
    ENTRIES = 2
    PLUG_MAX = 2
    MAX_OPS = 2
INVARIANT DrainCompletes
