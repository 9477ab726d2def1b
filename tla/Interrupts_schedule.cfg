SPECIFICATION FairSpec
CONSTANTS
    MaxIntrs = 2
    Counts = {0, 1, 2}
    Irls = {0, 1}
    Repeats = {FALSE, TRUE}
    Pils = {0}
    MaxIcount = 3
INVARIANTS
    TypeOK
    ScheduleIsEarliest
    NeverOverdue
PROPERTIES
    EveryOneShotFires
CHECK_DEADLOCK FALSE
