SPECIFICATION CPSpec
CONSTANTS
    MaxIntrs = 1
    Counts = {1}
    Irls = {0}
    Repeats = {FALSE}
    Pils = {0}
    MaxIcount = 2
    Parts = {"lines", "control"}
    ISizes = {0, 1}
    DefaultISize = 1
    MaxCheckpoints = 2
INVARIANTS
    CPTypeOK
    RestartTransparent
    CacheGeometry
CHECK_DEADLOCK FALSE
