SPECIFICATION Spec
CONSTANTS
    Addrs = {0, 1}
    MAX_BRKPTS = 2
    MaxIgnore = 1
    MaxSteps = 1
    nMaxInstructions = 2
INVARIANTS
    TypeOK
    EnabledCountRight
PROPERTIES
    CodeBreakpointStops
    DataBreakpointStops
CHECK_DEADLOCK FALSE
