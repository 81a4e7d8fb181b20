CONSTANTS
    MaxCreated = 5
    SCHED_MAX_TASK = 16
    IPC_SLOTS = 6
    NULL = NULL
    Programs = {"app", "spawner"}
SPECIFICATION Spec
INVARIANTS NoEarlyWakeup
