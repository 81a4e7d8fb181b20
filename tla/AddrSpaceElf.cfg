CONSTANTS
    MaxCreated = 4
    SCHED_MAX_TASK = 16
    NULL = NULL
    Pages = 44
    LEVELS = 3
    ENTRIES = 4
    BLOCK = 2
    Base = 3
    Programs <- mc_Programs
    Shell <- mc_Shell
    CPUS = 2
SPECIFICATION Spec
CHECK_DEADLOCK FALSE
INVARIANTS SegmentsWhole
