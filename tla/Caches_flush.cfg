SPECIFICATION CachesSpec
CONSTANTS
    MaxAddr = 5
    Backed = {0, 1, 2, 3}
    Uncached = {}
    LineWords = 2
    DSets = 1
    Values = {0, 1}
    Watched = {0}
    AEM = {FALSE}
    Absent = Absent
    Code = {0}
    ILineWords = 1
    ISets = 2
INVARIANTS
    FlushedCodeIsFetched
VIEW cvars
