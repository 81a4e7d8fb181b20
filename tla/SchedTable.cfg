CONSTANTS
    MaxCreated = 17
    SCHED_MAX_TASK = 16
    NULL = NULL
SPECIFICATION Spec
INVARIANT TableFits
CHECK_DEADLOCK FALSE
