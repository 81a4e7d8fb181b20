CONSTANTS
    MaxCreated = 4
    SCHED_MAX_TASK = 16
    IPC_SLOTS = 6
    NULL = NULL
    Programs = {"app", "crash", "spawner", "badptr", "trap", "shell"}
SPECIFICATION Spec
INVARIANTS OneSignalEach
PROPERTIES EndedIsReaped
CHECK_DEADLOCK FALSE
