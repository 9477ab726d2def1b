SPECIFICATION Spec
CONSTANTS
    Image <- MCImage
    IoSpace <- MCIoSpace
    Code <- MCCode
    Starts <- MCStarts
    Unset <- MCUnset
    Heap <- MCHeap
    Objects <- MCObjs
    HandlerBase = 8192
    Brk12c <- MCBrk12c
    GcConfig <- MCGcConfig
    Fp <- MCFp
    SCACHE_SIZE = 8
    proc_type = "pico2"
    fpp = TRUE
    boot8 = FALSE
    Levels = {0}
    MaxSignals = 1
    MaxSteps = 16
    Patience = 32
INVARIANTS
    TrapsTransparent
    MonitorsMatch
PROPERTIES
    ArrayStoresStay
CHECK_DEADLOCK FALSE
