SPECIFICATION Spec
CONSTANTS
    Profiles = {0}
    Methods = {m1, m2}
    Blocks = {b}
    MaxCalls = 3
    MaxIcount = 2
    MaxUnder = 2
SYMMETRY Interchangeable
INVARIANTS
    SelfCountsAddUp
    TotalsCountOnce
    RecursionLinks
    CallersShareTotal
CHECK_DEADLOCK FALSE
