SPECIFICATION Spec
CONSTANTS
    MaxAddr = 5
    Backed = {0, 1, 2, 3}
    Uncached = {3, 5}
    LineWords = 1
    DSets = 2
    Values = {0, 1}
    Watched = {0}
    AEM = {FALSE, TRUE}
    Absent = Absent
INVARIANTS
    TypeOK
    OneCopy
    CleanIsMemory
PROPERTIES
    FaultChangesNothing
    ImplementsMemory
VIEW dvars
