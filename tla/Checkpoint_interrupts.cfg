SPECIFICATION CPSpec
CONSTANTS
    MaxIntrs = 1
    Counts = {1}
    Irls = {0}
    Repeats = {FALSE}
    Pils = {0}
    MaxIcount = 2
    Parts = {}
    ISizes = {1}
    DefaultISize = 1
    MaxCheckpoints = 1
INVARIANTS
    InterruptsComeBack
CHECK_DEADLOCK FALSE
