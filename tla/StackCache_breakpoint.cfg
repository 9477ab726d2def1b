SPECIFICATION Spec
CONSTANTS
    SCACHE_SIZE = 6
    Marks <- MCMarks24
    Depth = 8
    Gap = 5
    Operands = 2
    TrapWords = 2
    FrameWords = 2
    Locals = {}
    Limits = {}
    Values = {0, 1}
    Watched = {3, 7}
    Broken = {5}
    PokeCached = FALSE
    SCACHE_INIT_VALUE = 0
    Garbage = Garbage
    Dead = Dead
INVARIANTS
    NothingLost
VIEW vars
