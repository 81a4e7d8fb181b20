CONSTANTS
    MaxCreated = 5
    SCHED_MAX_TASK = 16
    IPC_SLOTS = 2
    NULL = NULL
    Programs = {"app"}
SPECIFICATION Spec
INVARIANTS QueueFits
