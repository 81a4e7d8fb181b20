CONSTANTS
    MaxCreated = 4
    SCHED_MAX_TASK = 16
    IPC_SLOTS = 6
    NULL = NULL
    Programs = {"app", "spawner"}
SPECIFICATION Spec
INVARIANTS NotBlocked
