SPECIFICATION Spec
CONSTANTS
    Image <- MCImage
    IoSpace <- MCIoSpace
    Code <- MCCode
    Starts <- MCStarts
    Unset <- MCUnset
    Heap <- MCHeap
    Objects = {}
    HandlerBase = 8192
    Brk12c <- MCBrk12c
    GcConfig <- MCGcConfig
    Fp <- MCFp
    SCACHE_SIZE = 8
    proc_type = "pico2"
    fpp = TRUE
    boot8 = FALSE
    Levels = {0, 3}
    MaxSignals = 1
    MaxSteps = 16
    Patience = 32
INVARIANTS
    TypeOK
    TrapsTransparent
    StackAboveLimit
    TrapsEnd
PROPERTIES
    CallsReturn
    StackEffect
    PrivilegeKept
CHECK_DEADLOCK FALSE
