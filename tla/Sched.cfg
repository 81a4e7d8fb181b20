CONSTANTS
    MaxCreated = 6
    SCHED_MAX_TASK = 16
    NULL = NULL
SPECIFICATION Spec
INVARIANTS ListInv CursorInv ContextInv
PROPERTIES RemovedOnlyDead NoStarvation
CHECK_DEADLOCK FALSE
