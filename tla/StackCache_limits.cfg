SPECIFICATION Spec
CONSTANTS
    SCACHE_SIZE = 6
    Marks <- MCMarksMany
    Depth = 8
    Gap = 5
    Operands = 2
    TrapWords = 2
    FrameWords = 2
    Locals = {0, 1, 6}
    Limits = {3, 16}
    Values = {0, 1}
    Watched = {4}
    Broken = {}
    PokeCached = FALSE
    SCACHE_INIT_VALUE = 0
    Garbage = Garbage
    Dead = Dead
INVARIANTS
    TypeOK
    OffsetsHit
    LimitHolds
PROPERTIES
    ImplementsStack
VIEW vars
