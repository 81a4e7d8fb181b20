CONSTANTS
    MaxCreated = 4
    SCHED_MAX_TASK = 16
    IPC_SLOTS = 6
    NULL = NULL
    Programs = {"app", "badptr"}
SPECIFICATION Spec
PROPERTIES ShellResumes
CHECK_DEADLOCK FALSE
