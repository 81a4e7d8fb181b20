CONSTANTS
    MaxCreated = 5
    SCHED_MAX_TASK = 16
    IPC_SLOTS = 4
    NULL = NULL
    Programs = {"app", "crash"}
SPECIFICATION Spec
INVARIANTS NoEarlyWakeup ReportTrue NotBlocked SignalKept
PROPERTIES ShellResumes Jobs
