------------------------------- MODULE Kernel -------------------------------
(***************************************************************************)
(* The life of a task from run_elf to the shell's prompt: the scheduler    *)
(* (Sched), the signal queue (Ipc), sched_wrapper (src/sched/sched.c), the *)
(* page fault path of isr_handler (tables/idt/idt.c), the task system      *)
(* calls (src/exec/syscall.c) and their in-tree client, the command loop   *)
(* of exec/src/shell.c.                                                    *)
(*                                                                         *)
(* Tasks execute one step at a time and only while the CPU runs their      *)
(* context; the timer may switch between any two steps.  A system call or  *)
(* an exception handler is one step, because interrupts are off in it.     *)
(***************************************************************************)
EXTENDS Ipc

CONSTANTS MaxCreated, SCHED_MAX_TASK, NULL,
          Programs   \* the kinds of ELF a shell can be told to run

(* app returns; crash page-faults; spawner starts programs without waiting *)
(* for them and returns; badptr page-faults inside a system call; trap     *)
(* raises another exception; shell is exec/src/shell.c.                    *)
ASSUME ProgramsAssumption ==
    Programs \subseteq {"app", "crash", "spawner", "badptr", "trap", "shell"}

VARIABLES sched_list, sched_current_task, sched_tid, sched_cid, task_id,
          task_state, task_regs, cpu, vmm_current_page_map, created, tasking, halted
VARIABLES
    pc,      \* where each task's context is
    prog,    \* what each task executes
    child,   \* the task a shell started last
    pid,     \* the shell's variable of that name: what run_elf returned
    slot,    \* sched_wrapper's register holding the slot it transmits into
    result,  \* how a task's code ended: its return value, SEGV, or NULL
    report   \* what a shell told its user about its last program

S == INSTANCE Sched

schedVars == << sched_list, sched_current_task, sched_tid, sched_cid, task_id,
                task_state, task_regs, cpu, vmm_current_page_map, created,
                tasking, halted >>
taskVars == << pc, prog, child, pid, slot, result, report >>
vars == << ipcVars, schedVars, taskVars >>

Task == S!Task
Ret == {0, 1}      \* bound: the return values a program chooses from
SEGV == -1         \* a result that is no return value: "Segmentation Fault!"

(* The scheduler's own assumption, and no result is the absence of one. *)
ASSUME KernelAssumption == S!SchedAssumption /\ NULL \notin Ret \cup {SEGV}

Init == /\ S!Init /\ IpcInit
        /\ pc = [t \in Task |-> "none"]
        /\ prog = [t \in Task |-> "none"]
        /\ child = [t \in Task |-> NULL]
        /\ pid = [t \in Task |-> 0]
        /\ slot = [t \in Task |-> 0]
        /\ result = [t \in Task |-> NULL]
        /\ report = [t \in Task |-> NULL]

-----------------------------------------------------------------------------
(* The first thing the ELF of kind p does once its task runs. *)
Entry(p) == CASE p = "idle" -> "idle" [] p = "shell" -> "read" [] OTHER -> "user"

BootCreate ==
    /\ S!BootCreate
    /\ LET p == IF created = 0 THEN "idle" ELSE "shell"
       IN  /\ pc' = [pc EXCEPT ![created + 1] = Entry(p)]
           /\ prog' = [prog EXCEPT ![created + 1] = p]
    /\ UNCHANGED << ipcVars, child, pid, slot, result, report >>

pit_init == S!pit_init /\ UNCHANGED << ipcVars, taskVars >>

(* The timer interrupt. *)
Tick == S!sched_switch /\ UNCHANGED << ipcVars, taskVars >>

At(t, label) == cpu = t /\ ~halted /\ pc[t] = label
Goto(t, label) == pc' = [pc EXCEPT ![t] = label]

(* The shell reads a command naming an existing program and starts it; the *)
(* system call returns sched_tid - 1, which is the new task's id.          *)
RunElf(t, p) ==
    /\ At(t, "read")
    /\ S!SysCreate
    /\ pc' = [pc EXCEPT ![t] = "wait", ![created + 1] = Entry(p)]
    /\ prog' = [prog EXCEPT ![created + 1] = p]
    /\ child' = [child EXCEPT ![t] = created + 1]
    /\ pid' = [pid EXCEPT ![t] = sched_tid]
    /\ report' = [report EXCEPT ![t] = NULL]
    /\ UNCHANGED << ipcVars, slot, result >>

(* A program other than a shell calls run_elf and goes on. *)
Spawn(t, p) ==
    /\ At(t, "user") /\ prog[t] = "spawner"
    /\ S!SysCreate
    /\ pc' = [pc EXCEPT ![created + 1] = Entry(p)]
    /\ prog' = [prog EXCEPT ![created + 1] = p]
    /\ UNCHANGED << ipcVars, child, pid, slot, result, report >>

-----------------------------------------------------------------------------
(* sched_wrapper: main returns; the task is not dead, so it transmits      *)
(* SIGKILL and its return value.  The compiled code loads ipc_queue_idx,   *)
(* stores the pid, may load the index again, stores signal and ret, and    *)
(* stores the index it has plus one.                                       *)
Return(t) ==
    /\ At(t, "user") /\ prog[t] \in {"app", "spawner"}
    /\ task_state[sched_current_task] # "DEAD"
    /\ \E r \in Ret : result' = [result EXCEPT ![t] = r]
    /\ Goto(t, "load")
    /\ UNCHANGED << ipcVars, schedVars, prog, child, pid, slot, report >>

LoadIdx(t) ==
    /\ At(t, "load")
    /\ slot' = [slot EXCEPT ![t] = ipc_queue_idx]
    /\ Goto(t, "pid")
    /\ UNCHANGED << ipcVars, schedVars, prog, child, pid, result, report >>

TransmitPid(t) ==
    /\ At(t, "pid")
    /\ StorePid(slot[t], task_id[sched_current_task])
    /\ Goto(t, "reload")
    /\ UNCHANGED << schedVars, prog, child, pid, slot, result, report >>

ReloadIdx(t) ==
    /\ At(t, "reload")
    /\ \E i \in {slot[t], ipc_queue_idx} : slot' = [slot EXCEPT ![t] = i]
    /\ Goto(t, "signal")
    /\ UNCHANGED << ipcVars, schedVars, prog, child, pid, result, report >>

TransmitSignal(t) ==
    /\ At(t, "signal")
    /\ StoreSignal(slot[t], SIGKILL)
    /\ Goto(t, "ret")
    /\ UNCHANGED << schedVars, prog, child, pid, slot, result, report >>

TransmitRet(t) ==
    /\ At(t, "ret")
    /\ StoreRet(slot[t], result[t])
    /\ Goto(t, "idx")
    /\ UNCHANGED << schedVars, prog, child, pid, slot, result, report >>

TransmitIdx(t) ==
    /\ At(t, "idx")
    /\ Publish(slot[t])
    /\ Goto(t, "die")
    /\ UNCHANGED << schedVars, prog, child, pid, slot, result, report >>

Die_StaysRunning(t) ==
    /\ At(t, "die")
    /\ Goto(t, "hlt")
    /\ UNCHANGED << ipcVars, schedVars, prog, child, pid, slot, result, report >>
Die(t) ==
    /\ At(t, "die")
    /\ S!Kill
    /\ Goto(t, "hlt")
    /\ UNCHANGED << ipcVars, prog, child, pid, slot, result, report >>

Wrapper(t) == \/ LoadIdx(t) \/ TransmitPid(t) \/ ReloadIdx(t) \/ TransmitSignal(t)
              \/ TransmitRet(t) \/ TransmitIdx(t) \/ Die(t)

-----------------------------------------------------------------------------
(* isr_handler, a page fault with a task's page map loaded: SIGSEGV and    *)
(* the return value 1 are transmitted in one step with sched_kill.  The    *)
(* handler returns to the faulting instruction, which faults again until   *)
(* the timer switches away: state no longer changes.                       *)
Segv(t) ==
    /\ task_state[sched_current_task] # "DEAD"
    /\ ipc_transmit(task_id[sched_current_task], SIGSEGV, 1)
    /\ result' = [result EXCEPT ![t] = SEGV]
    /\ Goto(t, "fault")
    /\ UNCHANGED << prog, child, pid, slot, report >>

PageFault(t) == At(t, "user") /\ prog[t] = "crash" /\ Segv(t) /\ S!Kill

FaultInSyscall(t) == At(t, "user") /\ prog[t] = "badptr" /\ Segv(t) /\ S!FaultInSyscall

Exception(t) == /\ At(t, "user") /\ prog[t] = "trap"
                /\ S!IsrHalt
                /\ UNCHANGED << ipcVars, taskVars >>

-----------------------------------------------------------------------------
(* CmdHandler after run_elf: poll ipc_get, decide by the signal, fetch the *)
(* return value once to test it and again to print it, dispatch.           *)
ShellStep(t, from, to) == At(t, from) /\ Goto(t, to)
Tell(t, what) == report' = [report EXCEPT ![t] = what]

Poll(t) ==
    /\ ipc_get(pid[t]) # 0
    /\ ShellStep(t, "wait", "check")
    /\ UNCHANGED report

CheckSignal_WrongCode(t) ==
    \/ /\ ipc_get(pid[t]) = SIGKILL
       /\ ShellStep(t, "check", "dispatch")
       /\ Tell(t, SEGV)
    \/ /\ ipc_get(pid[t]) # SIGKILL
       /\ ShellStep(t, "check", "getret")
       /\ UNCHANGED report
CheckSignal(t) ==
    \/ /\ ipc_get(pid[t]) = SIGSEGV
       /\ ShellStep(t, "check", "dispatch")
       /\ Tell(t, SEGV)
    \/ /\ ipc_get(pid[t]) # SIGSEGV
       /\ ShellStep(t, "check", "getret")
       /\ UNCHANGED report

TestRet_Inverted(t) ==
    \/ /\ ipc_get_ret(pid[t]) # 0
       /\ ShellStep(t, "getret", "dispatch")
       /\ Tell(t, 0)
    \/ /\ ipc_get_ret(pid[t]) = 0
       /\ ShellStep(t, "getret", "print")
       /\ UNCHANGED report
TestRet(t) ==
    \/ /\ ipc_get_ret(pid[t]) = 0
       /\ ShellStep(t, "getret", "dispatch")
       /\ Tell(t, 0)
    \/ /\ ipc_get_ret(pid[t]) # 0
       /\ ShellStep(t, "getret", "print")
       /\ UNCHANGED report

PrintRet(t) == /\ ShellStep(t, "print", "dispatch")
               /\ Tell(t, ipc_get_ret(pid[t]))

Collect(t) == /\ Poll(t) \/ CheckSignal(t) \/ TestRet(t) \/ PrintRet(t)
              /\ UNCHANGED << ipcVars, schedVars, prog, child, pid, slot, result >>

Dispatch(t) == /\ ShellStep(t, "dispatch", "read")
               /\ ipc_dispatch(pid[t])
               /\ UNCHANGED << schedVars, prog, child, pid, slot, result, report >>

-----------------------------------------------------------------------------
(* Steps a task takes by itself once it is on the CPU; what a program or a *)
(* user decides (to return, fault, start something) is not among them.     *)
Step(t) == Wrapper(t) \/ Collect(t) \/ Dispatch(t)

Next == \/ BootCreate \/ pit_init \/ Tick
        \/ \E t \in Task :
              \/ \E p \in Programs : RunElf(t, p) \/ Spawn(t, p)
              \/ Return(t) \/ PageFault(t) \/ FaultInSyscall(t) \/ Exception(t)
              \/ Step(t)

(* The PIT keeps firing, and a time slice (10 ms) is long enough for the   *)
(* task it was given to to execute its next step at least now and then.    *)
Fairness == /\ WF_vars(Tick)
            /\ \A t \in Task : SF_vars(Step(t))

Spec == Init /\ [][Next]_vars /\ Fairness

-----------------------------------------------------------------------------
TypeOK ==
    /\ S!TypeOK
    /\ IpcTypeOK(0..MaxCreated, Ret)
    /\ pc \in [Task -> {"none", "idle", "user", "read", "wait", "check", "getret",
                        "print", "dispatch", "load", "pid", "reload", "signal",
                        "ret", "idx", "die", "hlt", "fault"}]
    /\ prog \in [Task -> Programs \cup {"none", "idle", "shell"}]
    /\ child \in [Task -> Task \cup {NULL}]
    /\ pid \in [Task -> 0..MaxCreated]
    /\ slot \in [Task -> 0..IPC_SLOTS]
    /\ result \in [Task -> Ret \cup {SEGV, NULL}]
    /\ report \in [Task -> Ret \cup {SEGV, NULL}]

(* shell.c:103, "wait for the program to terminate": the shell leaves its  *)
(* wait loop only after the program it started ended.                      *)
NoEarlyWakeup ==
    \A t \in Task : pc[t] \in {"check", "getret", "print", "dispatch"}
                        => result[child[t]] # NULL

(* What the shell tells its user is how the program it started ended, even *)
(* though three separate system calls read the queue.                      *)
ReportTrue ==
    \A t \in Task : pc[t] = "dispatch" => report[t] = result[child[t]]

(* A published signal carrying the shell's pid is one ipc_get finds: no    *)
(* other task's signal sits in front of it.                                *)
NotBlocked ==
    \A t \in Task : pc[t] = "wait" /\ UsedBy(pid[t]) # {} => ipc_get(pid[t]) # 0

(* A task that ended while a shell waits for it has left its signal in the *)
(* queue until that shell dispatches it: it was not overwritten.           *)
SignalKept ==
    \A t \in Task :
        pc[t] = "wait" /\ pc[child[t]] \in {"die", "hlt", "fault"}
            => UsedBy(pid[t]) # {}

(* Each task transmits at most once, also when transmissions interleave:   *)
(* the queue never counts more signals than tasks that ended.              *)
OneSignalEach == ipc_queue_idx <= Cardinality({t \in Task : result[t] # NULL})

(* The queue array has room for every signal (ipc.c:3).                    *)
QueueFits == ipc_queue_idx <= IPC_SLOTS

(* shell.c:102-104: when the program ends, the shell comes back to its     *)
(* prompt.                                                                 *)
ShellResumes ==
    \A t \in Task :
        (pc[t] = "wait" /\ result[child[t]] # NULL) ~> (pc[t] = "read")

(* sched.c:29: a task whose code ended is removed from the table, however  *)
(* its signal fared, unless the CPU stops taking interrupts.               *)
EndedIsReaped ==
    \A t \in Task : (result[t] # NULL) ~> (~S!Listed(t) \/ halted)

(* Shells and programs together do what JobControl promises.               *)
J == INSTANCE JobControl
       WITH Job <- Task, Result <- Ret \cup {SEGV}, Nothing <- NULL,
            waiting <- [t \in Task |->
                          IF pc[t] \in {"wait", "check", "getret", "print"}
                          THEN child[t] ELSE NULL]
Jobs == J!Spec
=============================================================================
