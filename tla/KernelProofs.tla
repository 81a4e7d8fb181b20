---------------------------- MODULE KernelProofs ----------------------------
(***************************************************************************)
(* Proofs about module Kernel: what is proved of the scheduler alone holds *)
(* in it, each ended task transmits one signal, and one shell that runs    *)
(* programs one after another is told the truth about each of them.        *)
(***************************************************************************)
EXTENDS Kernel, FiniteSetTheorems, TLAPS

SP == INSTANCE SchedProofs   \* the theorems about S, which SP repeats

-----------------------------------------------------------------------------
(* S and SP are the same module twice, so what is proved of one holds of   *)
(* the other.                                                              *)
LEMMA SameInv == S!SchedInv <=> SP!SchedInv
  BY DEF S!SchedInv, SP!SchedInv, S!TypeOK, SP!TypeOK, S!ListInv, SP!ListInv,
     S!CursorInv, SP!CursorInv, S!ContextInv, SP!ContextInv, S!FreedInv, SP!FreedInv,
     S!IndexAtMostId, SP!IndexAtMostId, S!BootInv, SP!BootInv, S!NextIsOther,
     SP!NextIsOther, S!Listed, SP!Listed, S!Task, SP!Task, S!Idle, SP!Idle,
     S!State, SP!State

LEMMA SchedInitInv == S!Init => S!SchedInv
<1>1. S!Init => SP!Init
  BY DEF S!Init, SP!Init, S!Task, SP!Task
<1>2. SP!Init => SP!SchedInv
  BY SP!InitInv, KernelAssumption DEF S!SchedAssumption
<1> QED BY <1>1, <1>2, SameInv

LEMMA SchedNextInv == S!SchedInv /\ [S!Next]_schedVars => S!SchedInv'
<1>1. S!SchedInv' <=> SP!SchedInv'
  BY SameInv, PTL
<1>2. S!Next => SP!Next
  BY DEF S!Next, SP!Next, S!BootCreate, SP!BootCreate, S!pit_init, SP!pit_init,
     S!SysCreate, SP!SysCreate, S!Kill, SP!Kill, S!sched_switch, SP!sched_switch,
     S!IsrHalt, SP!IsrHalt, S!FaultInSyscall, SP!FaultInSyscall, S!LiveTaskRuns,
     SP!LiveTaskRuns, S!sched_create_new_task, SP!sched_create_new_task, S!NewStruct,
     SP!NewStruct, S!sched_kill, SP!sched_kill, S!sched_remove_task,
     SP!sched_remove_task, S!ShiftDown, SP!ShiftDown, S!NextCursor, SP!NextCursor,
     S!SavedRegs, SP!SavedRegs, S!Reap, SP!Reap, S!Advance, SP!Advance, S!Task,
     SP!Task, S!Idle, SP!Idle
<1>3. SP!SchedInv /\ [SP!Next]_schedVars => SP!SchedInv'
  BY SP!NextInv, KernelAssumption DEF S!SchedAssumption, SP!schedVars, schedVars
<1> QED BY <1>1, <1>2, <1>3, SameInv

(* Every step of the composition is a step of the scheduler or leaves it   *)
(* alone.                                                                  *)
LEMMA SchedStep == [Next]_vars => [S!Next]_schedVars
<1> SUFFICES ASSUME [Next]_vars PROVE S!Next \/ UNCHANGED schedVars
  OBVIOUS
<1>1. CASE BootCreate \/ pit_init \/ Tick
  BY <1>1 DEF BootCreate, pit_init, Tick, S!Next
<1>2. ASSUME NEW t \in Task, NEW p \in Programs, RunElf(t, p) \/ Spawn(t, p)
      PROVE  S!Next
  BY <1>2 DEF RunElf, Spawn, S!Next
<1>3. ASSUME NEW t \in Task, PageFault(t) \/ FaultInSyscall(t) \/ Exception(t)
      PROVE  S!Next
  BY <1>3 DEF PageFault, FaultInSyscall, Exception, S!Next
<1>4. ASSUME NEW t \in Task, Return(t) \/ Step(t)
      PROVE  S!Next \/ UNCHANGED schedVars
  BY <1>4 DEF Return, Step, Wrapper, LoadIdx, TransmitPid, ReloadIdx, TransmitSignal,
     TransmitRet, TransmitIdx, Die, Collect, Dispatch, S!Next
<1>5. CASE UNCHANGED vars
  BY <1>5 DEF vars
<1> QED BY <1>1, <1>2, <1>3, <1>4, <1>5 DEF Next

(* So everything proved of the scheduler holds while programs return,      *)
(* fault and are collected (sched.c:38-125).                               *)
THEOREM SchedulerInvariance == Spec => []S!SchedInv
<1>1. Init => S!Init
  BY DEF Init
<1> QED BY <1>1, SchedStep, SchedInitInv, SchedNextInv, PTL DEF Spec

-----------------------------------------------------------------------------
(* Labels of a task's context: inside ipc_transmit called by sched_wrapper *)
(* or before its first store; past it; and the shell between run_elf and   *)
(* its prompt.                                                             *)
Transmitting == {"load", "pid", "reload", "signal", "ret", "idx"}
Ended == {"die", "hlt", "fault"}
Waiting == {"wait", "check", "getret", "print", "dispatch"}
Label == Transmitting \cup Ended \cup Waiting \cup {"none", "idle", "user", "read"}

TaskTypeOK ==
    /\ pc \in [Task -> Label]
    /\ prog \in [Task -> Programs \cup {"none", "idle", "shell"}]
    /\ child \in [Task -> Task \cup {NULL}]
    /\ pid \in [Task -> 0..MaxCreated]
    /\ slot \in [Task -> Nat]
    /\ result \in [Task -> Ret \cup {SEGV, NULL}]
    /\ DOMAIN report = Task
    /\ IpcTypeOK(0..MaxCreated, Ret)

(* A task has a result from its return or fault on, transmits a return     *)
(* value, and is alive until it killed itself or was killed.               *)
ProgressInv ==
    \A t \in Task :
        /\ pc[t] = "none" <=> t > created
        /\ result[t] # NULL <=> pc[t] \in Transmitting \cup Ended
        /\ pc[t] \in Transmitting => result[t] \in Ret
        /\ pc[t] \notin {"none", "hlt", "fault"} => task_state[t] = "RUNNING"

TaskInv == S!SchedInv /\ TaskTypeOK /\ ProgressInv

USE DEF Task, S!Task

LEMMA TaskInit == Init => TaskInv
<1> SUFFICES ASSUME Init PROVE TaskInv
  OBVIOUS
<1>1. S!SchedInv
  BY SchedInitInv DEF Init
<1>2. TaskTypeOK
  BY KernelAssumption, IpcAssumption
     DEF Init, IpcInit, TaskTypeOK, IpcTypeOK, NoSignal, Label, Ret, S!SchedAssumption
<1>3. ProgressInv
  BY DEF Init, S!Init, ProgressInv, Transmitting, Ended
<1> QED BY <1>1, <1>2, <1>3 DEF TaskInv

(* What the steps of the scheduler do to created, task_id and task_state.  *)
LEMMA CreateFrame ==
  ASSUME S!SchedInv, S!BootCreate \/ S!SysCreate
  PROVE  /\ created + 1 \in Task /\ created' = created + 1
         /\ task_state' = [task_state EXCEPT ![created + 1] = "RUNNING"]
         /\ task_id' = [task_id EXCEPT ![created + 1] = sched_tid]
         /\ created \in Nat /\ task_state \in [Task -> S!State]
         /\ task_id \in [Task -> 0..(MaxCreated - 1)]
  BY KernelAssumption
     DEF S!SchedInv, S!TypeOK, S!BootCreate, S!SysCreate, S!sched_create_new_task,
         S!NewStruct, S!SchedAssumption

LEMMA SwitchFrame ==
  ASSUME S!SchedInv, S!sched_switch
  PROVE  /\ created' = created
         /\ \A t \in Task : task_state[t] = "RUNNING" =>
               task_state'[t] = "RUNNING" /\ task_id'[t] = task_id[t]
<1>1. task_state \in [Task -> S!State] /\ task_id \in [Task -> 0..(MaxCreated - 1)]
  BY DEF S!SchedInv, S!TypeOK
<1>2. CASE UNCHANGED << task_id, task_state >>
  BY <1>1, <1>2 DEF S!sched_switch
<1>3. CASE S!Reap
  <2> DEFINE v == sched_list[S!NextCursor]
  <2>1. /\ task_state[v] = "DEAD"
        /\ task_state' = [task_state EXCEPT ![v] = "WAITING"]
        /\ task_id' = [task_id EXCEPT ![v] = 0]
    BY <1>3 DEF S!Reap, S!sched_remove_task
  <2> HIDE DEF v
  <2> QED BY <1>1, <2>1 DEF S!sched_switch
<1> QED BY <1>2, <1>3 DEF S!sched_switch, S!Advance

LEMMA KillFrame ==
  ASSUME S!SchedInv, NEW t \in Task, cpu = t, S!sched_kill
  PROVE  /\ UNCHANGED << created, task_id >>
         /\ task_state' = [task_state EXCEPT ![t] = "DEAD"]
         /\ task_state \in [Task -> S!State]
  BY DEF S!SchedInv, S!TypeOK, S!ContextInv, S!sched_kill

(* An action of task t is taken by the task the CPU executes, which is     *)
(* also sched_current_task.                                                *)
LEMMA AtRuns ==
  ASSUME S!SchedInv, NEW t \in Task, NEW l, At(t, l)
  PROVE  cpu = t /\ sched_current_task = t /\ ~halted /\ pc[t] = l
  BY DEF S!SchedInv, S!ContextInv, At

(* Creating a task: at boot, by a shell, by a program.                     *)
LEMMA CreateTaskInv ==
  ASSUME TaskInv, S!SchedInv', S!BootCreate \/ S!SysCreate,
         NEW p \in Programs \cup {"idle", "shell"},
         NEW t \in Task, pc[t] \in {"none", "user", "read"},
         \/ pc' = [pc EXCEPT ![created + 1] = Entry(p)]
         \/ pc[t] = "read" /\ pc' = [pc EXCEPT ![t] = "wait", ![created + 1] = Entry(p)],
         prog' = [prog EXCEPT ![created + 1] = p],
         UNCHANGED << ipcVars, slot, result >>,
         child' \in [Task -> Task \cup {NULL}], pid' \in [Task -> 0..MaxCreated],
         DOMAIN report' = Task
  PROVE  TaskInv'
<1> DEFINE new == created + 1
<1>1. /\ new \in Task /\ created' = new /\ created \in Nat
      /\ task_state \in [Task -> S!State]
      /\ task_state' = [task_state EXCEPT ![new] = "RUNNING"]
  BY CreateFrame DEF TaskInv
<1> HIDE DEF new
<1>2. Entry(p) \in {"idle", "read", "user"}
  BY DEF Entry
<1>3. pc[new] = "none" /\ result[new] = NULL /\ new > created
  BY <1>1 DEF TaskInv, ProgressInv, Transmitting, Ended, new
<1>4. \A u \in Task : pc'[u] = IF u = new THEN Entry(p)
                               ELSE IF pc'[u] = pc[u] THEN pc[u] ELSE "wait"
  BY <1>1, <1>3 DEF TaskInv, TaskTypeOK, new
<1>5. \A u \in Task \ {new} : pc'[u] # pc[u] => pc[u] = "read"
  BY <1>1, <1>3 DEF TaskInv, TaskTypeOK, new
<1>6. TaskTypeOK'
  <2>1. pc' \in [Task -> Label]
    BY <1>1, <1>2 DEF TaskInv, TaskTypeOK, Label, Waiting, new
  <2>2. prog' \in [Task -> Programs \cup {"none", "idle", "shell"}]
    BY DEF TaskInv, TaskTypeOK
  <2>3. IpcTypeOK(0..MaxCreated, Ret)'
    BY DEF TaskInv, TaskTypeOK, IpcTypeOK, ipcVars
  <2> QED BY <2>1, <2>2, <2>3 DEF TaskInv, TaskTypeOK
<1>7. ProgressInv'
  <2> SUFFICES ASSUME NEW u \in Task
      PROVE  /\ pc'[u] = "none" <=> u > new
             /\ result[u] # NULL <=> pc'[u] \in Transmitting \cup Ended
             /\ pc'[u] \in Transmitting => result[u] \in Ret
             /\ pc'[u] \notin {"none", "hlt", "fault"} => task_state'[u] = "RUNNING"
    BY <1>1 DEF ProgressInv
  <2>1. CASE u = new
    BY <2>1, <1>1, <1>2, <1>3, <1>4 DEF Transmitting, Ended
  <2>2. CASE u # new
    <3>1. u > new <=> u > created
      BY <2>2, <1>1 DEF new
    <3>2. task_state'[u] = task_state[u]
      BY <2>2, <1>1
    <3> QED BY <2>2, <3>1, <3>2, <1>4, <1>5 DEF TaskInv, ProgressInv, Transmitting, Ended
  <2> QED BY <2>1, <2>2
<1> QED BY <1>6, <1>7 DEF TaskInv

(* A step of task t that moves it from one label to another, alive before  *)
(* and after, and leaves the scheduler alone.                              *)
LEMMA MoveTaskInv ==
  ASSUME TaskInv, UNCHANGED schedVars, UNCHANGED prog, UNCHANGED child, UNCHANGED pid,
         NEW t \in Task, NEW to \in Label \ {"none", "hlt", "fault"},
         pc[t] \notin {"none", "hlt", "fault"},
         pc' = [pc EXCEPT ![t] = to],
         \/ /\ UNCHANGED result
            /\ to \in Transmitting \cup Ended <=> pc[t] \in Transmitting \cup Ended
            /\ to \in Transmitting => pc[t] \in Transmitting
         \/ \E r \in Ret : result' = [result EXCEPT ![t] = r] /\ to \in Transmitting,
         slot' \in [Task -> Nat], DOMAIN report' = Task,
         IpcTypeOK(0..MaxCreated, Ret)'
  PROVE  TaskInv'
<1>1. S!SchedInv' /\ UNCHANGED << created, task_state >>
  BY SchedNextInv DEF TaskInv, schedVars
<1>2. NULL \notin Ret
  BY KernelAssumption
<1>3. TaskTypeOK'
  BY DEF TaskInv, TaskTypeOK
<1>4. ProgressInv'
  BY <1>1, <1>2, ZenonT(30) DEF TaskInv, TaskTypeOK, ProgressInv
<1> QED BY <1>1, <1>3, <1>4 DEF TaskInv

(* A task that ends: a page fault, or the last assignment of sched_wrapper. *)
LEMMA EndTaskInv ==
  ASSUME TaskInv, S!SchedInv', NEW t \in Task, cpu = t, S!sched_kill,
         NEW to \in {"hlt", "fault"}, pc' = [pc EXCEPT ![t] = to],
         pc[t] \in {"die", "user"},
         \/ pc[t] = "die" /\ UNCHANGED result
         \/ result' = [result EXCEPT ![t] = SEGV],
         UNCHANGED << prog, child, pid, slot, report >>,
         IpcTypeOK(0..MaxCreated, Ret)'
  PROVE  TaskInv'
<1>1. /\ UNCHANGED created
      /\ task_state' = [task_state EXCEPT ![t] = "DEAD"]
      /\ task_state \in [Task -> S!State]
  BY KillFrame DEF TaskInv
<1>2. NULL # SEGV
  BY KernelAssumption
<1>3. TaskTypeOK'
  BY DEF TaskInv, TaskTypeOK, Label, Ended
<1>4. ProgressInv'
  BY <1>1, <1>2 DEF TaskInv, TaskTypeOK, ProgressInv, Transmitting, Ended
<1> QED BY <1>3, <1>4 DEF TaskInv

(* Every store into the queue keeps its types.                             *)
LEMMA IpcTypes ==
  ASSUME NEW Pid, NEW R, 0 \in Pid, 0 \in R, IpcTypeOK(Pid, R),
         \/ \E i \in Nat, p \in Pid : StorePid(i, p)
         \/ \E i \in Nat, s \in {SIGKILL, SIGSEGV} : StoreSignal(i, s)
         \/ \E i \in Nat, r \in R : StoreRet(i, r)
         \/ \E i \in Nat : Publish(i)
         \/ \E p \in Pid, s \in {SIGKILL, SIGSEGV}, r \in R : ipc_transmit(p, s, r)
         \/ \E p \in Pid : ipc_dispatch(p)
  PROVE  IpcTypeOK(Pid, R)'
<1> DEFINE T == [pid : Pid, signal : {0, SIGKILL, SIGSEGV}, ret : R]
<1>1. ipc_signals \in [0..(IPC_SLOTS - 1) -> T] /\ ipc_queue_idx \in Nat
  BY DEF IpcTypeOK
<1>2. ASSUME NEW i, NEW x \in T, ipc_signals' = [ipc_signals EXCEPT ![i] = x],
             ipc_queue_idx' \in Nat
      PROVE  IpcTypeOK(Pid, R)'
  BY <1>1, <1>2 DEF IpcTypeOK
<1>3. ASSUME NEW i \in Nat, NEW p \in Pid, StorePid(i, p) PROVE IpcTypeOK(Pid, R)'
  BY <1>1, <1>3 DEF StorePid, IpcTypeOK
<1>4. ASSUME NEW i \in Nat, NEW s \in {SIGKILL, SIGSEGV}, StoreSignal(i, s)
      PROVE  IpcTypeOK(Pid, R)'
  BY <1>1, <1>4 DEF StoreSignal, IpcTypeOK
<1>5. ASSUME NEW i \in Nat, NEW r \in R, StoreRet(i, r) PROVE IpcTypeOK(Pid, R)'
  BY <1>1, <1>5 DEF StoreRet, IpcTypeOK
<1>6. ASSUME NEW i \in Nat, Publish(i) PROVE IpcTypeOK(Pid, R)'
  BY <1>1, <1>6 DEF Publish, IpcTypeOK
<1>7. ASSUME NEW p \in Pid, NEW s \in {SIGKILL, SIGSEGV}, NEW r \in R, ipc_transmit(p, s, r)
      PROVE  IpcTypeOK(Pid, R)'
  <2>1. [pid |-> p, signal |-> s, ret |-> r] \in T
    OBVIOUS
  <2>2. /\ ipc_signals' = [ipc_signals EXCEPT ![ipc_queue_idx] =
                               [pid |-> p, signal |-> s, ret |-> r]]
        /\ ipc_queue_idx' \in Nat
    BY <1>1, <1>7 DEF ipc_transmit
  <2> HIDE DEF T
  <2> QED BY <1>2, <2>1, <2>2
<1>8. ASSUME NEW p \in Pid, ipc_dispatch(p) PROVE IpcTypeOK(Pid, R)'
  <2>1. NoSignal \in T
    BY DEF NoSignal
  <2>2. CASE UsedBy(p) = {}
    BY <1>1, <1>8, <2>2 DEF ipc_dispatch, IpcTypeOK
  <2>3. CASE UsedBy(p) # {}
    <3>1. ipc_signals' = [ipc_signals EXCEPT ![Min(UsedBy(p))] = NoSignal]
      BY <1>8, <2>3 DEF ipc_dispatch
    <3> QED BY <1>1, <1>2, <1>8, <2>1, <3>1 DEF ipc_dispatch
  <2> QED BY <2>2, <2>3
<1> QED BY <1>3, <1>4, <1>5, <1>6, <1>7, <1>8

LEMMA TaskNext == TaskInv /\ [Next]_vars => TaskInv'
<1> SUFFICES ASSUME TaskInv, [Next]_vars PROVE TaskInv'
  OBVIOUS
<1>1. S!SchedInv /\ S!SchedInv'
  BY SchedStep, SchedNextInv DEF TaskInv
<1>2. /\ pc \in [Task -> Label] /\ child \in [Task -> Task \cup {NULL}]
      /\ pid \in [Task -> 0..MaxCreated] /\ slot \in [Task -> Nat]
      /\ result \in [Task -> Ret \cup {SEGV, NULL}] /\ DOMAIN report = Task
      /\ IpcTypeOK(0..MaxCreated, Ret)
      /\ task_id \in [Task -> 0..(MaxCreated - 1)]
      /\ sched_tid \in 0..MaxCreated /\ MaxCreated \in Nat /\ MaxCreated >= 2
  BY <1>1, KernelAssumption
     DEF TaskInv, TaskTypeOK, S!SchedInv, S!TypeOK, S!SchedAssumption
<1>3. CASE BootCreate
  <2> DEFINE p == IF created = 0 THEN "idle" ELSE "shell"
  <2>1. /\ pc' = [pc EXCEPT ![created + 1] = Entry(p)]
        /\ prog' = [prog EXCEPT ![created + 1] = p]
        /\ S!BootCreate /\ UNCHANGED << ipcVars, child, pid, slot, result, report >>
    BY <1>3 DEF BootCreate
  <2>2. p \in Programs \cup {"idle", "shell"}
    OBVIOUS
  <2> HIDE DEF p
  <2>3. created + 1 \in Task /\ created + 1 > created
    BY <1>1, <2>1, CreateFrame
  <2>4. pc[created + 1] = "none"
    BY <2>3 DEF TaskInv, ProgressInv
  <2> QED BY <1>1, <1>2, <2>1, <2>2, <2>3, <2>4, CreateTaskInv
<1>4. ASSUME NEW t \in Task, NEW p \in Programs, RunElf(t, p) PROVE TaskInv'
  <2>1. /\ S!SysCreate /\ pc[t] = "read"
        /\ pc' = [pc EXCEPT ![t] = "wait", ![created + 1] = Entry(p)]
        /\ prog' = [prog EXCEPT ![created + 1] = p]
        /\ UNCHANGED << ipcVars, slot, result >>
        /\ pid' = [pid EXCEPT ![t] = sched_tid]
        /\ child' = [child EXCEPT ![t] = created + 1]
        /\ report' = [report EXCEPT ![t] = NULL]
    BY <1>4 DEF RunElf, At
  <2>2. created + 1 \in Task
    BY <1>1, <2>1, CreateFrame
  <2>3. /\ child' \in [Task -> Task \cup {NULL}] /\ pid' \in [Task -> 0..MaxCreated]
        /\ DOMAIN report' = Task
    BY <1>2, <2>1, <2>2
  <2> QED BY <1>1, <2>1, <2>3, CreateTaskInv
<1>5. ASSUME NEW t \in Task, NEW p \in Programs, Spawn(t, p) PROVE TaskInv'
  <2>1. /\ S!SysCreate /\ pc[t] = "user"
        /\ pc' = [pc EXCEPT ![created + 1] = Entry(p)]
        /\ prog' = [prog EXCEPT ![created + 1] = p]
        /\ UNCHANGED << ipcVars, child, pid, slot, result, report >>
    BY <1>5 DEF Spawn, At
  <2> QED BY <1>1, <1>2, <2>1, CreateTaskInv
<1>6. CASE pit_init \/ Tick
  <2>1. UNCHANGED << ipcVars, taskVars >>
    BY <1>6 DEF pit_init, Tick
  <2>2. created' = created /\ \A t \in Task : task_state[t] = "RUNNING"
                                              => task_state'[t] = "RUNNING"
    BY <1>1, <1>6, SwitchFrame DEF pit_init, Tick, S!pit_init
  <2> QED
    BY <1>1, <2>1, <2>2
       DEF TaskInv, TaskTypeOK, ProgressInv, IpcTypeOK, ipcVars, taskVars
<1>7. ASSUME NEW t \in Task, Return(t) PROVE TaskInv'
  <2>1. PICK r \in Ret : result' = [result EXCEPT ![t] = r]
    BY <1>7 DEF Return
  <2> QED
    BY <1>2, <1>7, <2>1, MoveTaskInv
       DEF Return, At, Goto, Label, Transmitting, IpcTypeOK, ipcVars
<1>8. ASSUME NEW t \in Task, LoadIdx(t) \/ ReloadIdx(t) PROVE TaskInv'
  <2>1. slot' \in [Task -> Nat] /\ UNCHANGED ipcVars
    BY <1>2, <1>8, SMTT(30) DEF LoadIdx, ReloadIdx, IpcTypeOK
  <2> QED
    BY <1>2, <1>8, <2>1, MoveTaskInv
       DEF LoadIdx, ReloadIdx, At, Goto, Label, Transmitting, IpcTypeOK, ipcVars
<1>9. ASSUME NEW t \in Task,
             TransmitPid(t) \/ TransmitSignal(t) \/ TransmitRet(t) \/ TransmitIdx(t)
      PROVE  TaskInv'
  <2>1. IpcTypeOK(0..MaxCreated, Ret)'
    <3>1. TransmitPid(t) => sched_current_task = t
      BY <1>1, AtRuns DEF TransmitPid
    <3>2. pc[t] \in Transmitting => result[t] \in Ret
      BY DEF TaskInv, ProgressInv
    <3>3. TransmitRet(t) => result[t] \in Ret
      BY <3>2 DEF TransmitRet, At, Transmitting
    <3>4. slot[t] \in Nat /\ task_id[t] \in 0..MaxCreated /\ 0 \in Ret /\ 0 \in 0..MaxCreated
      BY <1>2 DEF Ret
    <3> QED
      BY <1>2, <1>9, <3>1, <3>3, <3>4, IpcTypes
         DEF TransmitPid, TransmitSignal, TransmitRet, TransmitIdx
  <2> QED
    BY <1>2, <1>9, <2>1, MoveTaskInv
       DEF TransmitPid, TransmitSignal, TransmitRet, TransmitIdx, At, Goto, Label,
           Transmitting, Ended
<1>10. ASSUME NEW t \in Task, Die(t) PROVE TaskInv'
  BY <1>1, <1>2, <1>10, EndTaskInv
     DEF Die, At, Goto, S!Kill, IpcTypeOK, ipcVars
<1>11. ASSUME NEW t \in Task, PageFault(t) \/ FaultInSyscall(t) PROVE TaskInv'
  <2>1. /\ cpu = t /\ pc[t] = "user" /\ pc' = [pc EXCEPT ![t] = "fault"]
        /\ S!sched_kill /\ result' = [result EXCEPT ![t] = SEGV]
        /\ UNCHANGED << prog, child, pid, slot, report >>
        /\ ipc_transmit(task_id[sched_current_task], SIGSEGV, 1)
        /\ sched_current_task = t
    BY <1>1, <1>11, AtRuns
       DEF PageFault, FaultInSyscall, Segv, At, Goto, S!Kill, S!FaultInSyscall
  <2>2. IpcTypeOK(0..MaxCreated, Ret)'
    <3>1. /\ task_id[t] \in 0..MaxCreated /\ 0 \in Ret /\ 1 \in Ret
          /\ 0 \in 0..MaxCreated /\ SIGSEGV \in {SIGKILL, SIGSEGV}
      BY <1>2 DEF Ret
    <3> QED BY <1>2, <2>1, <3>1, IpcTypes
  <2> QED BY <1>1, <2>1, <2>2, EndTaskInv
<1>12. ASSUME NEW t \in Task, Exception(t) PROVE TaskInv'
  <2>1. UNCHANGED << ipcVars, taskVars, created, task_state >>
    BY <1>12 DEF Exception, S!IsrHalt
  <2> QED
    BY <1>1, <2>1 DEF TaskInv, TaskTypeOK, ProgressInv, IpcTypeOK, ipcVars, taskVars
<1>13. ASSUME NEW t \in Task, Collect(t) \/ Dispatch(t) PROVE TaskInv'
  <2>1. IpcTypeOK(0..MaxCreated, Ret)'
    <3>1. CASE Collect(t)
      BY <1>2, <3>1 DEF Collect, IpcTypeOK, ipcVars
    <3>2. CASE Dispatch(t)
      <4>1. pid[t] \in 0..MaxCreated /\ 0 \in Ret /\ 0 \in 0..MaxCreated
        BY <1>2 DEF Ret
      <4> QED BY <1>2, <3>2, <4>1, IpcTypes DEF Dispatch
    <3> QED BY <1>13, <3>1, <3>2
  <2>2. PICK to \in Waiting \cup {"read"} : pc[t] \in Waiting /\ pc' = [pc EXCEPT ![t] = to]
    BY <1>13 DEF Collect, Dispatch, Poll, CheckSignal, TestRet, PrintRet, ShellStep,
       At, Goto, Waiting
  <2>3. DOMAIN report' = Task
    BY <1>2, <1>13 DEF Collect, Dispatch, Poll, CheckSignal, TestRet, PrintRet, Tell
  <2>4. UNCHANGED << schedVars, prog, child, pid, slot, result >>
    BY <1>13 DEF Collect, Dispatch
  <2> QED
    BY <1>2, <2>1, <2>2, <2>3, <2>4, MoveTaskInv DEF Waiting, Label, Transmitting, Ended
<1>14. CASE UNCHANGED vars
  BY <1>1, <1>14
     DEF vars, schedVars, taskVars, TaskInv, TaskTypeOK, ProgressInv, IpcTypeOK, ipcVars
<1> QED
  BY <1>3, <1>4, <1>5, <1>6, <1>7, <1>8, <1>9, <1>10, <1>11, <1>12, <1>13, <1>14
     DEF Next, Step, Wrapper

THEOREM TaskInvariance == Spec => []TaskInv
  BY TaskInit, TaskNext, PTL DEF Spec

-----------------------------------------------------------------------------
(* The tasks whose signal is out, and the bound they put on the queue: a   *)
(* task inside ipc_transmit holds an index no higher than their number.    *)
Transmitted == {t \in Task : pc[t] \in Ended}
CountInv == /\ ipc_queue_idx <= Cardinality(Transmitted)
            /\ \A t \in Task : pc[t] \in Transmitting \ {"load"}
                                  => slot[t] <= Cardinality(Transmitted)

LEMMA TransmittedFinite == IsFiniteSet(Transmitted) /\ Cardinality(Transmitted) \in Nat
<1>1. IsFiniteSet(Task)
  BY FS_Interval, KernelAssumption DEF S!SchedAssumption
<1>2. Transmitted \subseteq Task
  BY DEF Transmitted
<1> QED BY <1>1, <1>2, FS_Subset, FS_CardinalityType

(* A step after which as many tasks have transmitted, or one more if the   *)
(* queue grew, keeps the bound.                                            *)
LEMMA CountGrows ==
  ASSUME TaskInv, CountInv, slot' \in [Task -> Nat], ipc_queue_idx' \in Nat,
         NEW t \in Task,
         \A u \in Task \ {t} : /\ pc'[u] = pc[u] \/ {pc[u], pc'[u]} \cap Ended = {}
                               /\ pc'[u] \in Transmitting => pc[u] = pc'[u]
                               /\ slot'[u] = slot[u],
         \/ /\ pc[t] \notin Ended /\ pc'[t] \in Ended
            /\ ipc_queue_idx' <= Cardinality(Transmitted) + 1
         \/ /\ pc[t] \in Ended <=> pc'[t] \in Ended
            /\ ipc_queue_idx' = ipc_queue_idx
            /\ pc'[t] \in Transmitting \ {"load"} => slot'[t] <= Cardinality(Transmitted)
  PROVE  CountInv'
<1> DEFINE new == IF pc[t] \notin Ended /\ pc'[t] \in Ended THEN {t} ELSE {}
<1>1. Transmitted' = Transmitted \cup new
  BY DEF Transmitted
<1>2. Cardinality(Transmitted') = IF new = {t} THEN Cardinality(Transmitted) + 1
                                               ELSE Cardinality(Transmitted)
  <2>1. new = {t} => t \notin Transmitted
    BY DEF Transmitted
  <2>2. new = {t} \/ new = {}
    OBVIOUS
  <2> QED BY <1>1, <2>1, <2>2, TransmittedFinite, FS_AddElement
<1>3. Cardinality(Transmitted) \in Nat /\ Cardinality(Transmitted') \in Nat
  BY <1>2, TransmittedFinite
<1>4. /\ ipc_queue_idx' <= Cardinality(Transmitted')
      /\ Cardinality(Transmitted) <= Cardinality(Transmitted')
  BY <1>2, <1>3 DEF CountInv
<1>5. ASSUME NEW u \in Task, pc'[u] \in Transmitting \ {"load"}
      PROVE  slot'[u] <= Cardinality(Transmitted')
  <2>1. slot'[u] <= Cardinality(Transmitted)
    BY <1>5 DEF CountInv, Transmitting, Ended
  <2> QED BY <1>3, <1>4, <2>1
<1> QED BY <1>4, <1>5 DEF CountInv

LEMMA CountNext == TaskInv /\ TaskInv' /\ CountInv /\ [Next]_vars => CountInv'
<1> SUFFICES ASSUME TaskInv, TaskInv', CountInv, [Next]_vars PROVE CountInv'
  OBVIOUS
<1>1. /\ pc \in [Task -> Label] /\ slot \in [Task -> Nat] /\ ipc_queue_idx \in Nat
      /\ slot' \in [Task -> Nat] /\ ipc_queue_idx' \in Nat /\ S!SchedInv
      /\ Cardinality(Transmitted) \in Nat /\ ipc_queue_idx <= Cardinality(Transmitted)
  BY TransmittedFinite DEF TaskInv, TaskTypeOK, IpcTypeOK, CountInv
<1>2. CASE UNCHANGED << pc, slot, ipc_queue_idx >>
  BY <1>2 DEF CountInv, Transmitted
<1>3. ASSUME S!BootCreate \/ S!SysCreate, NEW t \in Task, pc[t] \in {"none", "user", "read"},
             NEW p, \/ pc' = [pc EXCEPT ![created + 1] = Entry(p)]
                    \/ /\ pc[t] = "read"
                       /\ pc' = [pc EXCEPT ![t] = "wait", ![created + 1] = Entry(p)],
             UNCHANGED << slot, ipc_queue_idx >>
      PROVE  CountInv'
  <2> DEFINE new == created + 1
  <2>1. new \in Task /\ new > created
    BY <1>1, <1>3, CreateFrame
  <2> HIDE DEF new
  <2>2. Entry(p) \in {"idle", "read", "user"} /\ pc[new] = "none"
    BY <2>1 DEF Entry, TaskInv, ProgressInv
  <2>3. \A u \in Task : pc'[u] = pc[u] \/ /\ {pc[u], pc'[u]} \cap Ended = {}
                                          /\ pc'[u] \notin Transmitting
    BY <1>1, <1>3, <2>1, <2>2 DEF Ended, Transmitting, new
  <2>4. \A u \in Task : pc[u] \in Ended <=> pc'[u] \in Ended
    BY <2>3
  <2> QED BY <1>1, <1>3, <2>1, <2>3, <2>4 DEF CountInv, Transmitted
<1>4. ASSUME BootCreate \/ \E t \in Task, p \in Programs : RunElf(t, p) \/ Spawn(t, p)
      PROVE  CountInv'
  <2>1. created + 1 \in Task /\ created + 1 > created
    BY <1>1, <1>4, CreateFrame DEF BootCreate, RunElf, Spawn
  <2>2. pc[created + 1] = "none"
    BY <2>1 DEF TaskInv, ProgressInv
  <2> QED BY <1>3, <1>4, <2>1, <2>2 DEF BootCreate, RunElf, Spawn, At, ipcVars
<1>5. ASSUME NEW t \in Task, Return(t) \/ Step(t) \/ PageFault(t) \/ FaultInSyscall(t)
      PROVE  CountInv'
  <2>1. \A u \in Task \ {t} : pc'[u] = pc[u] /\ slot'[u] = slot[u]
    BY <1>1, <1>5
       DEF Return, Step, Wrapper, LoadIdx, TransmitPid, ReloadIdx, TransmitSignal,
           TransmitRet, TransmitIdx, Die, Collect, Poll, CheckSignal, TestRet, PrintRet,
           ShellStep, Dispatch, PageFault, FaultInSyscall, Segv, Goto
  <2>2. CASE TransmitIdx(t)
    <3>1. /\ pc[t] = "idx" /\ pc'[t] = "die" /\ ipc_queue_idx' = slot[t] + 1
          /\ slot[t] \in Nat
      BY <1>1, <2>2 DEF TransmitIdx, At, Goto, Publish
    <3>2. slot[t] <= Cardinality(Transmitted)
      BY <3>1 DEF CountInv, Transmitting
    <3>3. ipc_queue_idx' <= Cardinality(Transmitted) + 1
      BY <1>1, <3>1, <3>2
    <3> QED BY <1>1, <2>1, <3>1, <3>3, CountGrows DEF Ended
  <2>3. CASE PageFault(t) \/ FaultInSyscall(t)
    <3>1. /\ pc[t] = "user" /\ pc'[t] = "fault" /\ ipc_queue_idx' = ipc_queue_idx + 1
      BY <1>1, <2>3 DEF PageFault, FaultInSyscall, Segv, At, Goto, ipc_transmit
    <3>2. ipc_queue_idx' <= Cardinality(Transmitted) + 1
      BY <1>1, <3>1
    <3> QED BY <1>1, <2>1, <3>1, <3>2, CountGrows DEF Ended
  <2>4. CASE LoadIdx(t) \/ ReloadIdx(t)
    <3>1. /\ pc[t] \in {"load", "reload"} /\ pc'[t] \in {"pid", "signal"}
          /\ ipc_queue_idx' = ipc_queue_idx
      BY <1>1, <2>4 DEF LoadIdx, ReloadIdx, At, Goto, ipcVars
    <3>2. \/ slot'[t] = ipc_queue_idx
          \/ pc[t] = "reload" /\ slot'[t] = slot[t]
      BY <1>1, <2>4 DEF LoadIdx, ReloadIdx, At
    <3>3. slot'[t] <= Cardinality(Transmitted)
      BY <1>1, <3>2 DEF CountInv, Transmitting
    <3> QED BY <1>1, <2>1, <3>1, <3>3, CountGrows DEF Ended
  <2>5. CASE TransmitPid(t) \/ TransmitSignal(t) \/ TransmitRet(t)
    <3>1. /\ pc[t] \in Transmitting \ {"load"} /\ pc'[t] \notin Ended
          /\ ipc_queue_idx' = ipc_queue_idx /\ slot'[t] = slot[t]
      BY <1>1, <2>5 DEF TransmitPid, TransmitSignal, TransmitRet, At, Goto, StorePid,
         StoreSignal, StoreRet, Transmitting, Ended
    <3>2. slot'[t] <= Cardinality(Transmitted)
      BY <3>1 DEF CountInv
    <3>3. pc[t] \notin Ended
      BY <3>1 DEF Transmitting, Ended
    <3> QED BY <1>1, <2>1, <3>1, <3>2, <3>3, CountGrows
  <2>6. CASE Return(t) \/ Die(t) \/ Collect(t) \/ Dispatch(t)
    <3>1. /\ pc[t] \in Ended <=> pc'[t] \in Ended
          /\ pc'[t] \notin Transmitting \ {"load"} /\ ipc_queue_idx' = ipc_queue_idx
      BY <1>1, <2>6 DEF Return, Die, Collect, Poll, CheckSignal, TestRet, PrintRet,
         ShellStep, Dispatch, At, Goto, ipcVars, ipc_dispatch, Ended, Transmitting
    <3> QED BY <1>1, <2>1, <3>1, CountGrows
  <2> QED BY <1>5, <2>2, <2>3, <2>4, <2>5, <2>6 DEF Step, Wrapper
<1>6. CASE pit_init \/ Tick \/ (\E t \in Task : Exception(t)) \/ UNCHANGED vars
  BY <1>2, <1>6 DEF pit_init, Tick, Exception, vars, ipcVars, taskVars
<1> QED BY <1>4, <1>5, <1>6 DEF Next

(* Signals are never counted twice, however the stores of several          *)
(* ipc_transmit calls interleave (ipc.c:31-37): the queue counts at most   *)
(* the tasks that ended.                                                   *)
THEOREM OneSignalPerTask == Spec => []OneSignalEach
<1>1. Init => CountInv
  <2> SUFFICES ASSUME Init PROVE CountInv
    OBVIOUS
  <2>1. Cardinality(Transmitted) \in Nat
    BY TransmittedFinite
  <2> QED BY <2>1 DEF Init, IpcInit, CountInv, Transmitting
<1>2. TaskInv /\ CountInv => OneSignalEach
  <2> SUFFICES ASSUME TaskInv, CountInv PROVE OneSignalEach
    OBVIOUS
  <2> DEFINE E == {t \in Task : result[t] # NULL}
  <2>1. Transmitted \subseteq E
    BY DEF TaskInv, ProgressInv, Transmitted
  <2>2. IsFiniteSet(E)
    <3>1. IsFiniteSet(Task)
      BY FS_Interval, KernelAssumption DEF S!SchedAssumption
    <3>2. E \subseteq Task
      OBVIOUS
    <3> QED BY <3>1, <3>2, FS_Subset
  <2>3. Cardinality(E) \in Nat /\ Cardinality(Transmitted) <= Cardinality(E)
    BY <2>1, <2>2, FS_Subset, FS_CardinalityType
  <2>4. ipc_queue_idx \in Nat /\ ipc_queue_idx <= Cardinality(Transmitted)
    BY DEF TaskInv, TaskTypeOK, IpcTypeOK, CountInv
  <2>5. Cardinality(Transmitted) \in Nat
    BY TransmittedFinite
  <2> HIDE DEF E
  <2>6. ipc_queue_idx <= Cardinality(E)
    BY <2>3, <2>4, <2>5
  <2> QED BY <2>6 DEF OneSignalEach, E
<1> QED BY <1>1, <1>2, TaskInit, TaskNext, CountNext, PTL DEF Spec

-----------------------------------------------------------------------------
(* From here on, one shell that is told to run programs which start        *)
(* nothing themselves, and a queue with a slot for each of them: run       *)
(* kernel_shell.  With several shells or spawners the four properties      *)
(* below do not hold.                                                      *)
OneAtATime == /\ Programs \cap {"spawner", "shell"} = {}
              /\ IPC_SLOTS >= MaxCreated - 2

Shell == 2        \* the second task _start creates
Last == created   \* the program started last, from the third task on

(* All programs but the last have transmitted; the last one has unless the *)
(* shell polls for it.  The queue index counts the signals, and the pid    *)
(* the shell holds is the one the last program will transmit.              *)
OneShellInv ==
    /\ \A t \in Task : /\ pc[t] \in Waiting \cup {"read"} => t = Shell
                       /\ prog[t] # "spawner"
    /\ created >= 1 => pc[S!Idle] = "idle"
    /\ created >= 2 => pc[Shell] \in Waiting \cup {"read"}
    /\ \A t \in 3..created : /\ t < Last => pc[t] \in Ended
                             /\ pc[t] \in {"user"} \cup Transmitting \cup Ended
    /\ created >= 3 /\ pc[Shell] # "wait" => pc[Last] \in Ended
    /\ pc[Shell] \in Waiting =>
         /\ created >= 3 /\ child[Shell] = Last /\ pid[Shell] # 0
         /\ pc[Last] \notin Ended => task_id[Last] = pid[Shell]
    /\ ipc_queue_idx = IF created < 3 THEN 0
                       ELSE IF pc[Last] \in Ended THEN created - 2 ELSE created - 3

(* What the last program leaves in the queue.                              *)
Signal == IF result[Last] = SEGV
          THEN [pid |-> pid[Shell], signal |-> SIGSEGV, ret |-> 1]
          ELSE [pid |-> pid[Shell], signal |-> SIGKILL, ret |-> result[Last]]

(* No slot is used but the last program's, until the shell dispatches it;  *)
(* what the program has stored of it so far is in the slot it loaded.      *)
QueueInv ==
    /\ \A i \in Used : i = created - 3 /\ pc[Shell] \in Waiting
    /\ pc[Shell] \in Waiting /\ pc[Last] \in Ended => ipc_signals[created - 3] = Signal
    /\ created >= 3 =>
         /\ pc[Last] \in Transmitting \ {"load"} => slot[Last] = ipc_queue_idx
         /\ pc[Last] \in {"reload", "signal", "ret", "idx"}
               => ipc_signals[slot[Last]].pid = pid[Shell]
         /\ pc[Last] \in {"ret", "idx"} => ipc_signals[slot[Last]].signal = SIGKILL
         /\ pc[Last] = "idx" => ipc_signals[slot[Last]].ret = result[Last]

ReportInv ==
    /\ pc[Shell] \in {"getret", "print"} => result[Last] # SEGV
    /\ pc[Shell] = "dispatch" => report[Shell] = result[Last]

ShellInv == OneShellInv /\ QueueInv /\ ReportInv

LEMMA ShellInit == Init => ShellInv
<1> SUFFICES ASSUME Init PROVE ShellInv
  OBVIOUS
<1>1. /\ \A t \in Task : pc[t] = "none" /\ prog[t] = "none"
      /\ created = 0 /\ ipc_queue_idx = 0 /\ Shell \in Task
  BY KernelAssumption DEF Init, S!Init, IpcInit, Shell, S!SchedAssumption
<1>2. Used = {}
  BY <1>1 DEF Used
<1> QED
  BY <1>1, <1>2
     DEF ShellInv, OneShellInv, QueueInv, ReportInv, Waiting, Transmitting

(* The types the steps below need.                                         *)
LEMMA Types ==
  ASSUME TaskInv
  PROVE  /\ pc \in [Task -> Label] /\ child \in [Task -> Task \cup {NULL}]
         /\ prog \in [Task -> Programs \cup {"none", "idle", "shell"}]
         /\ pid \in [Task -> 0..MaxCreated] /\ slot \in [Task -> Nat]
         /\ result \in [Task -> Ret \cup {SEGV, NULL}] /\ DOMAIN report = Task
         /\ ipc_signals \in [0..(IPC_SLOTS - 1) ->
                [pid : 0..MaxCreated, signal : {0, SIGKILL, SIGSEGV}, ret : Ret]]
         /\ ipc_queue_idx \in Nat
         /\ task_id \in [Task -> 0..(MaxCreated - 1)] /\ created \in 0..MaxCreated
         /\ sched_tid \in 0..MaxCreated
         /\ MaxCreated \in Nat /\ MaxCreated >= 2 /\ IPC_SLOTS \in Nat \ {0}
         /\ Shell \in Task /\ S!Idle \in Task /\ S!Idle # Shell
         /\ SEGV \notin Ret /\ 0 \in Ret /\ 1 \in Ret /\ NULL \notin Ret \cup {SEGV}
<1>1. /\ MaxCreated \in Nat /\ MaxCreated >= 2 /\ IPC_SLOTS \in Nat \ {0}
      /\ Shell \in Task /\ S!Idle \in Task /\ S!Idle # Shell
      /\ SEGV \notin Ret /\ 0 \in Ret /\ 1 \in Ret /\ NULL \notin Ret \cup {SEGV}
  BY KernelAssumption, IpcAssumption DEF S!SchedAssumption, S!Idle, Shell, Ret, SEGV
<1>2. /\ task_id \in [Task -> 0..(MaxCreated - 1)] /\ created \in 0..MaxCreated
      /\ sched_tid \in 0..MaxCreated
  BY DEF TaskInv, S!SchedInv, S!TypeOK
<1> QED BY <1>1, <1>2 DEF TaskInv, TaskTypeOK, IpcTypeOK

(* A program that has not transmitted yet is the last one, and the shell   *)
(* polls an empty queue for it.                                            *)
LEMMA ProgramRuns ==
  ASSUME OneAtATime, TaskInv, ShellInv, NEW t \in Task, pc[t] \in {"user"} \cup Transmitting
  PROVE  /\ t = Last /\ created >= 3 /\ t # Shell /\ pc[Shell] = "wait"
         /\ ipc_queue_idx = created - 3 /\ ipc_queue_idx \in 0..(IPC_SLOTS - 1)
         /\ Used = {} /\ child[Shell] = t /\ pid[Shell] # 0 /\ task_id[t] = pid[Shell]
<1>1. t <= created /\ created \in 0..MaxCreated
  BY Types, SMTT(30) DEF TaskInv, ProgressInv, Transmitting
<1>2. t >= 3 /\ t = Last
  BY <1>1, Types DEF ShellInv, OneShellInv, Transmitting, Ended, Waiting, S!Idle, Shell, Last
<1>3. pc[Last] \notin Ended
  BY <1>2 DEF Transmitting, Ended
<1>4. pc[Shell] = "wait" /\ ipc_queue_idx = created - 3 /\ created >= 3
  BY <1>1, <1>2, <1>3 DEF ShellInv, OneShellInv, Last
<1>5. /\ child[Shell] = t /\ pid[Shell] # 0 /\ task_id[t] = pid[Shell]
  BY <1>2, <1>3, <1>4 DEF ShellInv, OneShellInv, Waiting
<1>6. Used = {}
  BY <1>4 DEF ShellInv, QueueInv, Used
<1>7. ipc_queue_idx \in 0..(IPC_SLOTS - 1)
  BY <1>1, <1>4, Types DEF OneAtATime
<1> QED BY <1>2, <1>4, <1>5, <1>6, <1>7 DEF Shell

(* While the shell waits or collects, ipc_get and ipc_get_ret find the     *)
(* last program's signal exactly if that program has transmitted it.       *)
LEMMA ShellReads ==
  ASSUME OneAtATime, TaskInv, ShellInv, pc[Shell] \in Waiting
  PROVE  /\ pc[Last] \notin Ended => ipc_get(pid[Shell]) = 0 /\ Used = {}
         /\ pc[Last] \in Ended =>
              /\ UsedBy(pid[Shell]) = {created - 3} /\ Min({created - 3}) = created - 3
              /\ created - 3 \in 0..(IPC_SLOTS - 1)
              /\ ipc_get(pid[Shell]) = Signal.signal /\ Signal.signal # 0
              /\ ipc_get_ret(pid[Shell]) = Signal.ret
<1>1. created \in 3..MaxCreated /\ Last \in Task /\ pid[Shell] # 0
  BY Types DEF ShellInv, OneShellInv, Last
<1>2. CASE pc[Last] \notin Ended
  <2>1. ipc_queue_idx = created - 3
    BY <1>1, <1>2 DEF ShellInv, OneShellInv
  <2>2. Used = {}
    BY <1>1, <2>1 DEF ShellInv, QueueInv, Used
  <2> QED BY <1>2, <2>2 DEF ipc_get
<1>3. CASE pc[Last] \in Ended
  <2> DEFINE k == created - 3
  <2>1. ipc_queue_idx = created - 2 /\ ipc_signals[k] = Signal
    BY <1>1, <1>3 DEF ShellInv, OneShellInv, QueueInv
  <2>2. k \in 0..(IPC_SLOTS - 1) /\ k < ipc_queue_idx
    BY <1>1, <2>1, Types DEF OneAtATime
  <2>3. Signal.pid = pid[Shell] /\ Signal.signal # 0
    BY DEF Signal, SIGKILL, SIGSEGV
  <2>4. Used = {k}
    BY <1>1, <2>1, <2>2, <2>3 DEF ShellInv, QueueInv, Used
  <2>5. Min({k}) = k
    BY <2>2 DEF Min
  <2>6. UsedBy(pid[Shell]) = {k}
    BY <2>1, <2>3, <2>4 DEF UsedBy
  <2> HIDE DEF k
  <2>7. ipc_get(pid[Shell]) = Signal.signal
    BY <2>1, <2>3, <2>4, <2>5 DEF ipc_get
  <2>8. ipc_get_ret(pid[Shell]) = Signal.ret
    BY <2>1, <2>5, <2>6 DEF ipc_get_ret
  <2> QED BY <1>3, <2>2, <2>3, <2>5, <2>6, <2>7, <2>8 DEF k
<1> QED BY <1>2, <1>3

(* The shell starts a program.                                             *)
LEMMA RunElfKeeps ==
  ASSUME OneAtATime, TaskInv, ShellInv, NEW t \in Task, NEW p \in Programs, RunElf(t, p)
  PROVE  ShellInv'
<1> DEFINE new == created + 1
<1>1. /\ pc[t] = "read" /\ S!SysCreate /\ S!SchedInv
      /\ pc' = [pc EXCEPT ![t] = "wait", ![new] = Entry(p)]
      /\ prog' = [prog EXCEPT ![new] = p] /\ child' = [child EXCEPT ![t] = new]
      /\ pid' = [pid EXCEPT ![t] = sched_tid]
      /\ UNCHANGED << ipc_signals, ipc_queue_idx, slot, result >>
  BY DEF RunElf, At, TaskInv, ipcVars
<1>2. /\ new \in Task /\ created' = new /\ created \in Nat
      /\ task_id' = [task_id EXCEPT ![new] = sched_tid]
  BY <1>1, CreateFrame
<1>3. t = Shell /\ created >= 2 /\ new >= 3 /\ new # Shell /\ pc[Shell] = "read"
  BY <1>1, <1>2 DEF ShellInv, OneShellInv, TaskInv, ProgressInv, Shell
<1>4. Entry(p) = "user" /\ p # "spawner"
  BY ProgramsAssumption DEF OneAtATime, Entry
<1>5. created >= 3 => pc[created] \in Ended
  BY <1>3 DEF ShellInv, OneShellInv, Last
<1>6. ipc_queue_idx = created - 2
  BY <1>2, <1>3, <1>5 DEF ShellInv, OneShellInv, Last
<1>7. sched_tid # 0
  <2>1. task_state[Shell] = "RUNNING"
    BY <1>3, Types DEF TaskInv, ProgressInv
  <2>2. S!Listed(Shell)
    BY <1>1, <2>1, Types DEF S!SchedInv, S!FreedInv
  <2> QED BY <2>2, Types DEF S!Listed
<1>8. /\ pc'[Shell] = "wait" /\ pc'[new] = "user"
      /\ \A u \in Task \ {Shell, new} : pc'[u] = pc[u]
      /\ child'[Shell] = new /\ pid'[Shell] = sched_tid /\ task_id'[new] = sched_tid
      /\ prog'[new] = p /\ \A u \in Task \ {new} : prog'[u] = prog[u]
  BY <1>1, <1>2, <1>3, <1>4, Types
<1> HIDE DEF new
<1>9. OneShellInv'
  <2>1. \A u \in Task : (pc'[u] \in Waiting \cup {"read"} => u = Shell) /\ prog'[u] # "spawner"
    BY <1>4, <1>8 DEF ShellInv, OneShellInv, Waiting
  <2>2. pc'[S!Idle] = "idle" /\ pc'[Shell] \in Waiting
    BY <1>2, <1>3, <1>8, Types DEF ShellInv, OneShellInv, Waiting, S!Idle, new
  <2>3. \A u \in 3..new : /\ u < new => pc'[u] \in Ended
                          /\ pc'[u] \in {"user"} \cup Transmitting \cup Ended
    <3> SUFFICES ASSUME NEW u \in 3..new
                 PROVE  /\ u < new => pc'[u] \in Ended
                        /\ pc'[u] \in {"user"} \cup Transmitting \cup Ended
      OBVIOUS
    <3>1. CASE u = new
      BY <3>1, <1>2, <1>8
    <3>2. CASE u # new
      <4>1. u \in 3..created /\ u \in Task \ {Shell, new} /\ (u = created \/ u < created)
        BY <3>2, <1>2, Types DEF new, Shell
      <4>2. pc[u] \in Ended
        BY <4>1, <1>5 DEF ShellInv, OneShellInv, Last
      <4> QED BY <4>1, <4>2, <1>8
    <3> QED BY <3>1, <3>2
  <2>4. pc'[new] \notin Ended /\ pc'[Shell] = "wait"
    BY <1>8 DEF Ended
  <2>5. ipc_queue_idx' = new - 3
    BY <1>1, <1>2, <1>6 DEF new
  <2> QED BY <1>2, <1>3, <1>7, <1>8, <2>1, <2>2, <2>3, <2>4, <2>5 DEF OneShellInv, Last
<1>10. Used' = {}
  BY <1>1, <1>3 DEF Used, ShellInv, QueueInv, Waiting
<1>11. QueueInv' /\ ReportInv'
  BY <1>2, <1>8, <1>10 DEF QueueInv, ReportInv, Last, Ended, Transmitting
<1> QED BY <1>9, <1>11 DEF ShellInv

(* _start creates the idle task and the shell.                             *)
LEMMA BootKeeps ==
  ASSUME OneAtATime, TaskInv, ShellInv, BootCreate
  PROVE  ShellInv'
<1> DEFINE new == created + 1
           p == IF created = 0 THEN "idle" ELSE "shell"
<1>1. /\ S!BootCreate /\ S!SchedInv /\ created < 2
      /\ pc' = [pc EXCEPT ![new] = Entry(p)]
      /\ prog' = [prog EXCEPT ![new] = p]
      /\ UNCHANGED << ipc_signals, ipc_queue_idx, slot, result >>
  BY DEF BootCreate, TaskInv, ipcVars, S!BootCreate
<1>2. new \in Task /\ created' = new /\ created \in Nat
  BY <1>1, CreateFrame
<1>3. created = 0 \/ created = 1
  BY <1>1, <1>2
<1>4. /\ created = 0 => new = S!Idle /\ Entry(p) = "idle" /\ p = "idle"
      /\ created = 1 => new = Shell /\ Entry(p) = "read" /\ p = "shell"
  BY <1>3 DEF Entry, Shell, S!Idle
<1>5. ipc_queue_idx = 0 /\ ipc_queue_idx' = 0 /\ created' < 3
  BY <1>1, <1>2 DEF ShellInv, OneShellInv
<1>6. Used' = {}
  BY <1>5 DEF Used
<1>7. \A u \in Task : /\ pc'[u] = IF u = new THEN Entry(p) ELSE pc[u]
                      /\ prog'[u] = IF u = new THEN p ELSE prog[u]
  BY <1>1, <1>2, Types
<1>8. created = 0 => pc[Shell] = "none"
  BY Types DEF TaskInv, ProgressInv, Shell
<1> HIDE DEF p, new
<1>9. OneShellInv'
  <2>1. \A u \in Task : (pc'[u] \in Waiting \cup {"read"} => u = Shell) /\ prog'[u] # "spawner"
    BY <1>3, <1>4, <1>7 DEF ShellInv, OneShellInv, Waiting
  <2>2. pc'[S!Idle] = "idle"
    BY <1>3, <1>4, <1>7, Types, SMTT(30) DEF ShellInv, OneShellInv
  <2>3. pc'[Shell] \in {"none", "read"}
    BY <1>3, <1>4, <1>7, <1>8, Types
  <2>4. created' >= 2 => pc'[Shell] = "read"
    BY <1>2, <1>3, <1>4, <1>7, Types DEF new
  <2> QED BY <1>2, <1>5, <2>1, <2>2, <2>3, <2>4 DEF OneShellInv, Waiting
<1>10. pc'[Shell] \notin Waiting
  BY <1>3, <1>4, <1>7, <1>8, Types DEF Waiting
<1>11. QueueInv' /\ ReportInv'
  BY <1>2, <1>5, <1>6, <1>10 DEF QueueInv, ReportInv, Waiting
<1> QED BY <1>9, <1>11 DEF ShellInv

(* A step of the last program, or of one that transmitted before, keeps    *)
(* the shell's part of the invariant.                                      *)
LEMMA ProgramStepKeeps ==
  ASSUME OneAtATime, TaskInv, ShellInv, NEW t \in Task,
         pc[t] \in {"user"} \cup Transmitting \cup Ended,
         NEW to \in Transmitting \cup Ended, pc' = [pc EXCEPT ![t] = to],
         pc[t] \in Ended => to \in Ended,
         UNCHANGED << prog, child, pid, task_id, created >>,
         ipc_queue_idx' = IF pc[t] \notin Ended /\ to \in Ended THEN ipc_queue_idx + 1
                                                               ELSE ipc_queue_idx
  PROVE  OneShellInv'
<1>1. t # Shell /\ t \in 3..created /\ created >= 3
  <2>1. t \in 1..created
    <3>1. pc[t] # "none"
      BY DEF Transmitting, Ended
    <3>2. ~(t > created)
      BY <3>1 DEF TaskInv, ProgressInv
    <3> QED BY <3>2, Types
  <2>2. pc[t] \notin Waiting \cup {"read", "idle"}
    BY DEF Transmitting, Ended, Waiting
  <2>3. t # S!Idle /\ t # Shell
    BY <2>1, <2>2, Types DEF ShellInv, OneShellInv, S!Idle, Shell
  <2> QED BY <2>1, <2>3, Types DEF S!Idle, Shell
<1>2. \A u \in Task : pc'[u] = IF u = t THEN to ELSE pc[u]
  BY Types
<1>3. to \notin Waiting \cup {"read"}
  BY DEF Transmitting, Ended, Waiting
<1>4. pc'[Shell] = pc[Shell] /\ pc'[S!Idle] = pc[S!Idle]
  BY <1>1, <1>2, Types DEF S!Idle
<1>5. pc[t] \notin Ended => t = Last /\ pc[Shell] = "wait"
  BY ProgramRuns DEF Transmitting
<1>6. Last \in Task /\ Last' = Last
  BY <1>1, Types DEF Last
<1>7. ipc_queue_idx' = IF pc'[Last] \in Ended THEN created - 2 ELSE created - 3
  BY <1>1, <1>2, <1>5, <1>6, Types DEF ShellInv, OneShellInv, Last
<1>8. \A u \in Task : (pc'[u] \in Waiting \cup {"read"} => u = Shell) /\ prog'[u] # "spawner"
  BY <1>2, <1>3 DEF ShellInv, OneShellInv
<1>9. \A u \in 3..created : /\ u < Last => pc'[u] \in Ended
                            /\ pc'[u] \in {"user"} \cup Transmitting \cup Ended
  <2> SUFFICES ASSUME NEW u \in 3..created
               PROVE  /\ u < Last => pc'[u] \in Ended
                      /\ pc'[u] \in {"user"} \cup Transmitting \cup Ended
    OBVIOUS
  <2>1. u \in Task
    BY Types
  <2>2. pc[u] \in {"user"} \cup Transmitting \cup Ended /\ (u < Last => pc[u] \in Ended)
    BY DEF ShellInv, OneShellInv
  <2> QED BY <1>2, <2>1, <2>2
<1>10. pc[Last] \in Ended => pc'[Last] \in Ended
  BY <1>2, <1>6
<1>11. pc'[Shell] # "wait" => pc'[Last] \in Ended
  BY <1>1, <1>4, <1>10 DEF ShellInv, OneShellInv
<1>12. pc'[Shell] \in Waiting => /\ child[Shell] = Last /\ pid[Shell] # 0
                                 /\ pc'[Last] \notin Ended => task_id[Last] = pid[Shell]
  BY <1>4, <1>10 DEF ShellInv, OneShellInv
<1> QED
  BY <1>1, <1>4, <1>6, <1>7, <1>8, <1>9, <1>11, <1>12 DEF ShellInv, OneShellInv, Last

(* The program returns or takes one of the steps of ipc_transmit.          *)
LEMMA TransmitKeeps ==
  ASSUME OneAtATime, TaskInv, ShellInv, NEW t \in Task,
         \/ Return(t) \/ LoadIdx(t) \/ TransmitPid(t) \/ ReloadIdx(t)
         \/ TransmitSignal(t) \/ TransmitRet(t) \/ TransmitIdx(t)
  PROVE  ShellInv'
<1>1. S!SchedInv /\ sched_current_task = t
  BY AtRuns DEF TaskInv, Return, LoadIdx, TransmitPid, ReloadIdx, TransmitSignal,
     TransmitRet, TransmitIdx
<1>2. pc[t] \in {"user"} \cup Transmitting
  BY DEF Return, LoadIdx, TransmitPid, ReloadIdx, TransmitSignal, TransmitRet,
     TransmitIdx, At, Transmitting
<1>3. /\ t = Last /\ created >= 3 /\ t # Shell /\ pc[Shell] = "wait"
      /\ ipc_queue_idx = created - 3 /\ ipc_queue_idx \in 0..(IPC_SLOTS - 1)
      /\ Used = {} /\ child[Shell] = t /\ pid[Shell] # 0 /\ task_id[t] = pid[Shell]
  BY <1>2, ProgramRuns
<1>4. UNCHANGED << prog, child, pid, task_id, created, report >>
  BY DEF Return, LoadIdx, TransmitPid, ReloadIdx, TransmitSignal, TransmitRet,
     TransmitIdx, schedVars
<1>5. PICK to \in Transmitting \cup {"die"} : pc' = [pc EXCEPT ![t] = to]
  BY DEF Return, LoadIdx, TransmitPid, ReloadIdx, TransmitSignal, TransmitRet,
     TransmitIdx, Goto, Transmitting
<1>6. /\ to = "die" <=> TransmitIdx(t)
      /\ pc[t] \notin Ended
      /\ pc'[Shell] = "wait" /\ pc'[t] = to /\ Last' = Last
  <2>1. pc'[Shell] = "wait" /\ pc'[t] = to /\ Last' = Last
    BY <1>3, <1>4, <1>5, Types DEF Last
  <2>2. to = "die" <=> TransmitIdx(t)
    BY <1>5, <2>1, Types DEF Return, LoadIdx, TransmitPid, ReloadIdx, TransmitSignal, TransmitRet,
       TransmitIdx, Goto, At
  <2> QED BY <1>2, <2>1, <2>2 DEF Transmitting, Ended
<1>7. slot[t] \in Nat /\ (pc[t] \in Transmitting \ {"load"} => slot[t] = ipc_queue_idx)
  BY <1>3, Types DEF ShellInv, QueueInv
<1>8. ipc_queue_idx' = IF to = "die" THEN ipc_queue_idx + 1 ELSE ipc_queue_idx
  <2>1. CASE TransmitIdx(t)
    BY <1>6, <1>7, <2>1 DEF TransmitIdx, At, Publish, Transmitting
  <2>2. CASE ~TransmitIdx(t)
    BY <1>6, <2>2 DEF Return, LoadIdx, TransmitPid, ReloadIdx, TransmitSignal,
       TransmitRet, StorePid, StoreSignal, StoreRet, ipcVars
  <2> QED BY <2>1, <2>2
<1>9. OneShellInv'
  BY <1>2, <1>4, <1>5, <1>6, <1>8, ProgramStepKeeps DEF Transmitting, Ended
<1> DEFINE k == ipc_queue_idx
<1>10. ReportInv'
  BY <1>6 DEF ReportInv
<1>11. ASSUME to # "die" PROVE Used' = {}
  <2>1. \/ UNCHANGED ipc_signals
        \/ /\ pc[t] \in {"pid", "signal", "ret"}
           /\ \A i \in 0..(IPC_SLOTS - 1) : i # slot[t] => ipc_signals'[i] = ipc_signals[i]
    BY <1>6, <1>11, Types
       DEF Return, LoadIdx, TransmitPid, ReloadIdx, TransmitSignal, TransmitRet, StorePid,
           StoreSignal, StoreRet, ipcVars, At
  <2>2. \A i \in 0..(IPC_SLOTS - 1) : i < k => ipc_signals'[i] = ipc_signals[i]
    BY <1>3, <1>7, <2>1 DEF Transmitting
  <2> QED BY <1>3, <1>8, <1>11, <2>2 DEF Used
<1>12. CASE Return(t) \/ LoadIdx(t) \/ ReloadIdx(t)
  <2>1. pc'[t] \in {"load", "pid", "signal"} /\ UNCHANGED << ipc_signals, ipc_queue_idx >>
    BY <1>12, Types DEF Return, LoadIdx, ReloadIdx, Goto, ipcVars
  <2>2. pc'[t] # "load" => slot'[t] = k
    BY <1>7, <1>12, Types DEF Return, LoadIdx, ReloadIdx, Goto, At, Transmitting
  <2>3. pc'[t] = "signal" => pc[t] = "reload"
    BY <1>12, Types DEF Return, LoadIdx, ReloadIdx, Goto, At
  <2>4. pc'[t] = "signal" => ipc_signals'[slot'[t]].pid = pid[Shell]
    BY <1>3, <1>7, <2>1, <2>2, <2>3 DEF ShellInv, QueueInv, Transmitting
  <2>5. Used' = {} /\ pc'[t] \notin Ended
    BY <1>6, <1>11, <2>1 DEF Ended
  <2> QED BY <1>3, <1>4, <1>6, <1>9, <1>10, <2>1, <2>2, <2>4, <2>5 DEF ShellInv, QueueInv, Ended
<1>13. CASE TransmitPid(t) \/ TransmitSignal(t) \/ TransmitRet(t)
  <2>1. slot[t] = k /\ slot' = slot /\ ipc_queue_idx' = k
    BY <1>7, <1>13 DEF TransmitPid, TransmitSignal, TransmitRet, At, Transmitting,
       StorePid, StoreSignal, StoreRet
  <2>2. /\ TransmitPid(t) => /\ pc'[t] = "reload"
                             /\ ipc_signals'[k].pid = pid[Shell]
        /\ TransmitSignal(t) => /\ pc[t] = "signal" /\ pc'[t] = "ret"
                                /\ ipc_signals'[k].pid = ipc_signals[k].pid
                                /\ ipc_signals'[k].signal = SIGKILL
        /\ TransmitRet(t) => /\ pc[t] = "ret" /\ pc'[t] = "idx"
                             /\ ipc_signals'[k].pid = ipc_signals[k].pid
                             /\ ipc_signals'[k].signal = ipc_signals[k].signal
                             /\ ipc_signals'[k].ret = result[t]
    BY <1>1, <1>3, <1>13, <2>1, Types, SMTT(30)
       DEF TransmitPid, TransmitSignal, TransmitRet, At, Goto, StorePid, StoreSignal, StoreRet
  <2>3. /\ pc[t] \in {"reload", "signal", "ret", "idx"} => ipc_signals[k].pid = pid[Shell]
        /\ pc[t] \in {"ret", "idx"} => ipc_signals[k].signal = SIGKILL
    BY <1>3, <2>1 DEF ShellInv, QueueInv
  <2>4. Used' = {} /\ pc'[t] \notin Ended /\ UNCHANGED result
    BY <1>6, <1>11, <1>13, <2>2
       DEF Ended, TransmitPid, TransmitSignal, TransmitRet
  <2> QED
    BY <1>3, <1>4, <1>6, <1>9, <1>10, <1>13, <2>1, <2>2, <2>3, <2>4
       DEF ShellInv, QueueInv, Ended
<1>14. CASE TransmitIdx(t)
  <2>1. /\ pc[t] = "idx" /\ pc'[t] = "die" /\ UNCHANGED << ipc_signals, result >>
        /\ ipc_queue_idx' = k + 1
    BY <1>6, <1>8, <1>14 DEF TransmitIdx, At, Publish
  <2>2. slot[t] = k
    BY <1>7, <2>1 DEF Transmitting
  <2>3. result[t] \in Ret /\ result[t] # SEGV
    BY <2>1, Types DEF TaskInv, ProgressInv, Transmitting
  <2>4. ipc_signals[k] = [pid |-> pid[Shell], signal |-> SIGKILL, ret |-> result[t]]
    BY <1>3, <2>1, <2>2, Types DEF ShellInv, QueueInv
  <2>5. ipc_signals'[created - 3] = Signal'
    BY <1>3, <1>4, <1>6, <2>1, <2>3, <2>4 DEF Signal
  <2>6. \A i \in Used' : i = created - 3
    BY <1>3, <2>1 DEF Used
  <2> QED
    BY <1>3, <1>4, <1>6, <1>9, <1>10, <2>1, <2>5, <2>6
       DEF ShellInv, QueueInv, Waiting, Transmitting
<1> QED BY <1>12, <1>13, <1>14

(* The program faults: isr_handler transmits and kills it in one step.     *)
LEMMA FaultKeeps ==
  ASSUME OneAtATime, TaskInv, ShellInv, NEW t \in Task, PageFault(t) \/ FaultInSyscall(t)
  PROVE  ShellInv'
<1>1. /\ S!SchedInv /\ sched_current_task = t /\ cpu = t /\ pc[t] = "user"
      /\ pc' = [pc EXCEPT ![t] = "fault"] /\ result' = [result EXCEPT ![t] = SEGV]
      /\ UNCHANGED << prog, child, pid, slot, report >> /\ S!sched_kill
      /\ ipc_transmit(task_id[t], SIGSEGV, 1)
  BY AtRuns DEF TaskInv, PageFault, FaultInSyscall, Segv, At, Goto, S!Kill, S!FaultInSyscall
<1>2. UNCHANGED << task_id, created >>
  BY <1>1, KillFrame
<1>3. /\ t = Last /\ created >= 3 /\ t # Shell /\ pc[Shell] = "wait"
      /\ ipc_queue_idx = created - 3 /\ ipc_queue_idx \in 0..(IPC_SLOTS - 1)
      /\ Used = {} /\ child[Shell] = t /\ pid[Shell] # 0 /\ task_id[t] = pid[Shell]
  BY <1>1, ProgramRuns
<1> DEFINE k == ipc_queue_idx
<1>4. /\ ipc_queue_idx' = k + 1
      /\ ipc_signals'[k] = [pid |-> pid[Shell], signal |-> SIGSEGV, ret |-> 1]
      /\ \A i \in 0..(IPC_SLOTS - 1) : i < k => ipc_signals'[i] = ipc_signals[i]
  BY <1>1, <1>3, Types DEF ipc_transmit
<1>5. OneShellInv'
  BY <1>1, <1>2, <1>4, ProgramStepKeeps DEF Ended
<1>6. /\ pc'[Shell] = "wait" /\ pc'[t] = "fault" /\ Last' = Last /\ result'[t] = SEGV
  BY <1>1, <1>2, <1>3, Types DEF Last
<1>7. \A i \in Used' : i = created - 3
  BY <1>3, <1>4 DEF Used
<1>8. ipc_signals'[created - 3] = Signal'
  BY <1>1, <1>3, <1>4, <1>6 DEF Signal
<1>9. QueueInv' /\ ReportInv'
  BY <1>2, <1>3, <1>6, <1>7, <1>8 DEF QueueInv, ReportInv, Waiting, Transmitting
<1> QED BY <1>5, <1>9 DEF ShellInv

(* A task that transmitted kills itself.                                   *)
LEMMA DieKeeps ==
  ASSUME OneAtATime, TaskInv, ShellInv, NEW t \in Task, Die(t)
  PROVE  ShellInv'
<1>1. /\ S!SchedInv /\ cpu = t /\ pc[t] = "die" /\ pc' = [pc EXCEPT ![t] = "hlt"]
      /\ UNCHANGED << ipcVars, prog, child, pid, slot, result, report >> /\ S!sched_kill
  BY DEF TaskInv, Die, At, Goto, S!Kill
<1>2. UNCHANGED << task_id, created >>
  BY <1>1, KillFrame
<1>3. OneShellInv'
  BY <1>1, <1>2, ProgramStepKeeps DEF Ended, ipcVars
<1>4. Used' = Used /\ Last' = Last /\ Signal' = Signal
  BY <1>1, <1>2 DEF Used, Last, Signal, ipcVars
<1>5. pc'[Shell] = pc[Shell]
  <2>1. pc[Shell] # "die"
    BY <1>1, Types, SMTT(30) DEF ShellInv, OneShellInv, TaskInv, ProgressInv, Waiting, Shell
  <2> QED BY <1>1, <2>1, Types
<1>6. created >= 3 => /\ pc'[Last] \in Ended <=> pc[Last] \in Ended
                      /\ pc'[Last] \in Transmitting => pc'[Last] = pc[Last]
  BY <1>1, Types DEF Last, Ended, Transmitting
<1>7. pc[Shell] \in Waiting => created >= 3
  BY DEF ShellInv, OneShellInv
<1>8. QueueInv'
  BY <1>1, <1>2, <1>4, <1>5, <1>6, <1>7 DEF ShellInv, QueueInv, ipcVars, Transmitting
<1>9. ReportInv'
  BY <1>1, <1>4, <1>5 DEF ShellInv, ReportInv
<1> QED BY <1>3, <1>8, <1>9 DEF ShellInv

(* The shell polls, decides and prints.                                    *)
LEMMA CollectKeeps ==
  ASSUME OneAtATime, TaskInv, ShellInv, NEW t \in Task, Collect(t)
  PROVE  ShellInv'
<1>1. /\ t = Shell /\ pc[Shell] \in Waiting /\ pc[Shell] # "dispatch"
      /\ UNCHANGED << ipcVars, schedVars, prog, child, pid, slot, result >>
  BY DEF Collect, Poll, CheckSignal, TestRet, PrintRet, ShellStep, At, Waiting, ShellInv,
     OneShellInv
<1>2. PICK to \in {"check", "getret", "print", "dispatch"} : pc' = [pc EXCEPT ![t] = to]
  BY DEF Collect, Poll, CheckSignal, TestRet, PrintRet, ShellStep, Goto
<1>3. /\ UNCHANGED << ipc_signals, ipc_queue_idx, task_id, created >>
      /\ pc'[Shell] = to /\ to \in Waiting /\ Last' = Last /\ created >= 3 /\ Last # Shell
      /\ \A u \in Task \ {Shell} : pc'[u] = pc[u]
  BY <1>1, <1>2, Types, SMTT(30) DEF Last, ipcVars, schedVars, Waiting, Shell, ShellInv, OneShellInv
<1>4. pc[Last] \in Ended
  <2>1. CASE pc[Shell] = "wait"
    <3>1. ipc_get(pid[Shell]) # 0
      BY <1>1, <2>1 DEF Collect, Poll, CheckSignal, TestRet, PrintRet, ShellStep, At
    <3> QED BY <1>1, <3>1, ShellReads
  <2>2. CASE pc[Shell] # "wait"
    BY <1>3, <2>2 DEF ShellInv, OneShellInv
  <2> QED BY <2>1, <2>2
<1>5. /\ ipc_get(pid[Shell]) = Signal.signal
      /\ ipc_get_ret(pid[Shell]) = Signal.ret
  BY <1>1, <1>4, ShellReads
<1>6. Last \in Task /\ pc'[Last] = pc[Last]
  BY <1>3, Types, SMTT(30) DEF Last
<1>7. OneShellInv'
  <2>1. \A u \in Task : (pc'[u] \in Waiting \cup {"read"} => u = Shell) /\ prog'[u] # "spawner"
    BY <1>1, <1>3 DEF ShellInv, OneShellInv
  <2>2. pc'[S!Idle] = "idle"
    <3>1. created >= 1 /\ S!Idle \in Task \ {Shell}
      BY <1>3, Types
    <3> QED BY <1>3, <3>1 DEF ShellInv, OneShellInv
  <2>3. \A u \in 3..created : pc'[u] = pc[u]
    BY <1>3, Types DEF Shell
  <2> QED
    BY <1>1, <1>3, <1>4, <1>6, <2>1, <2>2, <2>3 DEF ShellInv, OneShellInv, Last
<1>8. Used' = Used /\ Signal' = Signal
  BY <1>1, <1>3 DEF Used, Signal
<1>9. QueueInv'
  BY <1>1, <1>3, <1>4, <1>6, <1>8 DEF ShellInv, QueueInv
<1>10. result[Last] = SEGV <=> Signal.signal = SIGSEGV
  BY DEF Signal, SIGKILL, SIGSEGV
<1>11. result[Last] # SEGV => Signal.ret = result[Last]
  BY DEF Signal
<1>12. ReportInv'
  <2>1. CASE Poll(t)
    <3>1. pc'[Shell] = "check"
      BY <1>1, <2>1, Types DEF Poll, ShellStep, Goto
    <3> QED BY <3>1 DEF ReportInv
  <2>2. CASE CheckSignal(t)
    <3>1. \/ /\ result[Last] = SEGV /\ pc'[Shell] = "dispatch"
             /\ report'[Shell] = SEGV
          \/ result[Last] # SEGV /\ pc'[Shell] = "getret"
      BY <1>1, <1>5, <1>10, <2>2, Types DEF CheckSignal, ShellStep, Goto, Tell
    <3> QED BY <1>1, <1>3, <3>1 DEF ReportInv
  <2>3. CASE TestRet(t)
    <3>1. pc[Shell] = "getret" /\ result[Last] # SEGV
      BY <1>1, <2>3 DEF TestRet, ShellStep, At, ShellInv, ReportInv
    <3>2. \/ /\ result[Last] = 0 /\ pc'[Shell] = "dispatch"
             /\ report'[Shell] = 0
          \/ pc'[Shell] = "print"
      BY <1>1, <1>5, <1>11, <2>3, <3>1, Types DEF TestRet, ShellStep, Goto, Tell
    <3> QED BY <1>1, <1>3, <3>1, <3>2 DEF ReportInv
  <2>4. CASE PrintRet(t)
    <3>1. pc[Shell] = "print" /\ result[Last] # SEGV
      BY <1>1, <2>4 DEF PrintRet, ShellStep, At, ShellInv, ReportInv
    <3>2. pc'[Shell] = "dispatch" /\ report'[Shell] = result[Last]
      BY <1>1, <1>5, <1>11, <2>4, <3>1, Types DEF PrintRet, ShellStep, Goto, Tell
    <3> QED BY <1>1, <1>3, <3>2 DEF ReportInv
  <2> QED BY <2>1, <2>2, <2>3, <2>4 DEF Collect
<1> QED BY <1>7, <1>9, <1>12 DEF ShellInv

(* The shell dispatches the signal and comes back to its prompt.           *)
LEMMA DispatchKeeps ==
  ASSUME OneAtATime, TaskInv, ShellInv, NEW t \in Task, Dispatch(t)
  PROVE  ShellInv'
<1>1. /\ t = Shell /\ pc[Shell] = "dispatch" /\ pc' = [pc EXCEPT ![Shell] = "read"]
      /\ UNCHANGED << schedVars, prog, child, pid, slot, result, report >>
      /\ ipc_dispatch(pid[Shell])
  BY DEF Dispatch, ShellStep, Goto, At, Waiting, ShellInv, OneShellInv
<1>2. /\ UNCHANGED << ipc_queue_idx, task_id, created >>
      /\ pc'[Shell] = "read" /\ Last' = Last /\ created >= 3 /\ Last # Shell
      /\ \A u \in Task \ {Shell} : pc'[u] = pc[u]
      /\ pc[Last] \in Ended /\ pc[Shell] \in Waiting
  BY <1>1, Types
     DEF Last, ipc_dispatch, schedVars, Waiting, Shell, ShellInv, OneShellInv
<1>3. Last \in Task /\ pc'[Last] = pc[Last]
  BY <1>2, Types, SMTT(30) DEF Last
<1>4. OneShellInv'
  <2>1. \A u \in Task : (pc'[u] \in Waiting \cup {"read"} => u = Shell) /\ prog'[u] # "spawner"
    BY <1>1, <1>2 DEF ShellInv, OneShellInv
  <2>2. pc'[S!Idle] = "idle"
    BY <1>2, Types, SMTT(30) DEF ShellInv, OneShellInv
  <2>3. \A u \in 3..created : pc'[u] = pc[u]
    BY <1>2, Types DEF Shell
  <2>4. pc'[Shell] \notin Waiting
    BY <1>2 DEF Waiting
  <2> QED
    BY <1>1, <1>2, <1>3, <2>1, <2>2, <2>3, <2>4 DEF ShellInv, OneShellInv, Last
<1> DEFINE k == created - 3
<1>5. /\ UsedBy(pid[Shell]) = {k} /\ Min({k}) = k /\ k \in 0..(IPC_SLOTS - 1)
  BY <1>2, ShellReads
<1>6. ipc_signals' = [ipc_signals EXCEPT ![k] = NoSignal]
  BY <1>1, <1>5 DEF ipc_dispatch
<1>7. Used' = {}
  <2>1. \A i \in Used : i = k
    BY DEF ShellInv, QueueInv
  <2> HIDE DEF k
  <2> QED BY <1>2, <1>5, <1>6, <2>1, Types DEF Used, NoSignal
<1>8. pc'[Last] \notin Transmitting /\ pc'[Shell] \notin Waiting
  BY <1>2, <1>3 DEF Transmitting, Ended, Waiting
<1>9. QueueInv' /\ ReportInv'
  BY <1>2, <1>7, <1>8 DEF QueueInv, ReportInv, Transmitting
<1> QED BY <1>4, <1>9 DEF ShellInv

LEMMA ShellNext == OneAtATime /\ TaskInv /\ ShellInv /\ [Next]_vars => ShellInv'
<1> SUFFICES ASSUME OneAtATime, TaskInv, ShellInv, [Next]_vars PROVE ShellInv'
  OBVIOUS
<1>1. ASSUME NEW t \in Task, NEW p \in Programs, Spawn(t, p) PROVE FALSE
  BY <1>1 DEF Spawn, ShellInv, OneShellInv
<1>2. CASE pit_init \/ Tick \/ (\E t \in Task : Exception(t)) \/ UNCHANGED vars
  <2>1. UNCHANGED << ipc_signals, ipc_queue_idx, taskVars, created >>
    BY <1>2, SwitchFrame DEF pit_init, Tick, Exception, vars, TaskInv, S!pit_init, S!IsrHalt,
       schedVars, ipcVars
  <2>2. UNCHANGED << pc, prog, child, pid, slot, result, report >>
    BY <2>1 DEF taskVars
  <2>3. created >= 3 /\ pc[Last] \notin Ended => task_id'[Last] = task_id[Last]
    <3>1. SUFFICES ASSUME created >= 3, pc[Last] \notin Ended
                   PROVE  task_id'[Last] = task_id[Last]
      OBVIOUS
    <3>2. Last \in Task /\ Last \in 3..created
      BY <3>1, Types DEF Last
    <3>3. pc[Last] \in {"user"} \cup Transmitting
      BY <3>1, <3>2 DEF ShellInv, OneShellInv
    <3>4. task_state[Last] = "RUNNING"
      BY <3>2, <3>3 DEF TaskInv, ProgressInv, Transmitting
    <3>5. CASE Tick
      BY <3>2, <3>4, <3>5, SwitchFrame DEF TaskInv, Tick
    <3>6. CASE ~Tick
      BY <1>2, <3>6 DEF pit_init, Exception, vars, schedVars, S!pit_init, S!IsrHalt
    <3> QED BY <3>5, <3>6
  <2>4. Used' = Used /\ Last' = Last /\ Signal' = Signal
    BY <2>1, <2>2 DEF Used, Last, Signal
  <2>5. OneShellInv'
    BY <2>1, <2>2, <2>3, <2>4 DEF ShellInv, OneShellInv
  <2>6. QueueInv' /\ ReportInv'
    BY <2>1, <2>2, <2>4 DEF ShellInv, QueueInv, ReportInv
  <2> QED BY <2>5, <2>6 DEF ShellInv
<1> QED
  BY <1>1, <1>2, BootKeeps, RunElfKeeps, TransmitKeeps, FaultKeeps, DieKeeps,
     CollectKeeps, DispatchKeeps DEF Next, Step, Wrapper

(* The four properties of run kernel_shell are consequences.               *)
LEMMA ShellFacts ==
  ASSUME OneAtATime, TaskInv, ShellInv
  PROVE  NoEarlyWakeup /\ ReportTrue /\ NotBlocked /\ SignalKept
<1>1. \A t \in Task : pc[t] \in Waiting => t = Shell
  BY DEF ShellInv, OneShellInv
<1>2. pc[Shell] \in Waiting => /\ created >= 3 /\ child[Shell] = Last /\ Last \in Task
  BY Types DEF ShellInv, OneShellInv, Last
<1>3. pc[Shell] \in Waiting \ {"wait"} => pc[Last] \in Ended
  BY <1>2 DEF ShellInv, OneShellInv
<1>4. \A t \in Task : pc[t] \in Ended => result[t] # NULL
  BY DEF TaskInv, ProgressInv
<1>5. NoEarlyWakeup
  BY <1>1, <1>2, <1>3, <1>4 DEF NoEarlyWakeup, Waiting
<1>6. ReportTrue
  BY <1>1, <1>2 DEF ReportTrue, Waiting, ShellInv, ReportInv
<1>7. NotBlocked
  <2> SUFFICES ASSUME NEW t \in Task, pc[t] = "wait", UsedBy(pid[t]) # {}
               PROVE  ipc_get(pid[t]) # 0
    BY DEF NotBlocked
  <2>1. t = Shell /\ pc[Shell] \in Waiting
    BY <1>1 DEF Waiting
  <2>2. Used # {}
    BY DEF UsedBy
  <2> QED BY <2>1, <2>2, ShellReads
<1>8. SignalKept
  <2> SUFFICES ASSUME NEW t \in Task, pc[t] = "wait", pc[child[t]] \in Ended
               PROVE  UsedBy(pid[t]) # {}
    BY DEF SignalKept, Ended
  <2>1. t = Shell /\ pc[Shell] \in Waiting
    BY <1>1 DEF Waiting
  <2> QED BY <1>2, <2>1, ShellReads
<1> QED BY <1>5, <1>6, <1>7, <1>8

LEMMA ShellInvariance == ASSUME OneAtATime PROVE Spec => [](TaskInv /\ ShellInv)
<1>1. TaskInv /\ ShellInv /\ [Next]_vars => TaskInv' /\ ShellInv'
  BY TaskNext, ShellNext
<1> QED BY <1>1, TaskInit, ShellInit, PTL DEF Spec

(* The shell leaves its wait loop only after the program it started ended  *)
(* (shell.c:102-104), for any number of programs run one after another.    *)
THEOREM NoWakeupBeforeTheEnd == ASSUME OneAtATime PROVE Spec => []NoEarlyWakeup
<1>1. TaskInv /\ ShellInv => NoEarlyWakeup
  BY ShellFacts
<1> QED BY <1>1, ShellInvariance, PTL

(* What it prints is that program's return value or fault, although three  *)
(* system calls read the queue and pids repeat (shell.c:105-112).          *)
THEOREM ReportsAreTrue == ASSUME OneAtATime PROVE Spec => []ReportTrue
<1>1. TaskInv /\ ShellInv => ReportTrue
  BY ShellFacts
<1> QED BY <1>1, ShellInvariance, PTL

(* ipc_get finds a signal as soon as one with the shell's pid is published *)
(* (ipc.c:9-18).                                                           *)
THEOREM NeverBlocked == ASSUME OneAtATime PROVE Spec => []NotBlocked
<1>1. TaskInv /\ ShellInv => NotBlocked
  BY ShellFacts
<1> QED BY <1>1, ShellInvariance, PTL

(* An ended program's signal stays until the shell dispatches it           *)
(* (ipc.c:31-49).                                                          *)
THEOREM SignalsAreKept == ASSUME OneAtATime PROVE Spec => []SignalKept
<1>1. TaskInv /\ ShellInv => SignalKept
  BY ShellFacts
<1> QED BY <1>1, ShellInvariance, PTL

-----------------------------------------------------------------------------
(* The job a task waits for, as module JobControl sees it.                 *)
Job(t) == IF pc[t] \in {"wait", "check", "getret", "print"} THEN child[t] ELSE NULL
JobOf == [t \in Task |-> Job(t)]

LEMMA JobStart ==
  ASSUME OneAtATime, TaskInv, ShellInv, TaskInv', ShellInv',
         NEW t \in Task, NEW p \in Programs, RunElf(t, p)
  PROVE  J!Next
<1>1. PICK new \in Task : new = created + 1 /\ new > created
  BY CreateFrame DEF TaskInv, RunElf
<1>2. /\ pc[t] = "read" /\ S!SysCreate /\ S!SchedInv
      /\ pc' = [pc EXCEPT ![t] = "wait", ![new] = Entry(p)]
      /\ child' = [child EXCEPT ![t] = new]
      /\ report' = [report EXCEPT ![t] = NULL] /\ UNCHANGED result
  BY <1>1 DEF RunElf, At, TaskInv
<1>3. pc[new] = "none" /\ result[new] = NULL /\ NULL \notin Task
  BY <1>1, KernelAssumption DEF TaskInv, ProgressInv, Transmitting, Ended, S!SchedAssumption
<1>4. new # t
  BY <1>2, <1>3
<1>5. Entry(p) \in {"idle", "read", "user"}
  BY DEF Entry
<1>6. \A u \in Task : Job(u) = NULL
  BY <1>2, Types DEF ShellInv, OneShellInv, Job, Waiting
<1>7. \A u \in Task : Job(u)' = IF u = t THEN new ELSE NULL
  <2> SUFFICES ASSUME NEW u \in Task PROVE Job(u)' = IF u = t THEN new ELSE NULL
    OBVIOUS
  <2>1. CASE u = t
    BY <1>2, <1>4, <2>1, Types DEF Job
  <2>2. CASE u = new
    BY <1>2, <1>4, <1>5, <2>2, Types DEF Job
  <2>3. CASE u \notin {t, new}
    <3>1. pc'[u] = pc[u] /\ child'[u] = child[u]
      BY <1>2, <2>3, Types
    <3> QED BY <1>6, <2>3, <3>1 DEF Job
  <2> QED BY <2>1, <2>2, <2>3
<1>8. JobOf' = [JobOf EXCEPT ![t] = new]
  BY <1>6, <1>7 DEF JobOf
<1>9. J!Start(t, new)
  BY <1>2, <1>3, <1>6, <1>8 DEF J!Start, JobOf, Job
<1> QED BY <1>9 DEF J!Next

(* A return or a fault finishes the job.                                   *)
LEMMA JobFinish ==
  ASSUME TaskInv, NEW t \in Task, Return(t) \/ PageFault(t) \/ FaultInSyscall(t)
  PROVE  J!Next
<1>1. PICK r \in Ret \cup {SEGV} : result' = [result EXCEPT ![t] = r]
  BY DEF Return, PageFault, FaultInSyscall, Segv
<1>2. PICK to \in {"load", "fault"} : /\ pc[t] = "user" /\ pc' = [pc EXCEPT ![t] = to]
                                      /\ UNCHANGED << child, report >>
  BY DEF Return, PageFault, FaultInSyscall, Segv, At, Goto
<1>3. JobOf' = JobOf
  BY <1>2, Types DEF JobOf, Job
<1>4. result[t] = NULL
  BY <1>2 DEF TaskInv, ProgressInv, Transmitting, Ended
<1>5. J!Finish(t, r)
  BY <1>1, <1>2, <1>3, <1>4 DEF J!Finish, JobOf, Job
<1> QED BY <1>5 DEF J!Next

(* Coming to "dispatch" with a report collects it; the shell's other steps *)
(* change nothing JobControl sees.                                         *)
LEMMA JobCollect ==
  ASSUME OneAtATime, TaskInv, ShellInv, TaskInv', ShellInv', NEW t \in Task, Collect(t)
  PROVE  J!Next \/ UNCHANGED << JobOf, result, report >>
<1>1. /\ t = Shell /\ pc[Shell] \in Waiting \ {"dispatch"}
      /\ UNCHANGED << child, result, schedVars >>
  BY DEF Collect, Poll, CheckSignal, TestRet, PrintRet, ShellStep, At, Waiting, ShellInv,
     OneShellInv
<1>2. PICK to \in {"check", "getret", "print", "dispatch"} :
           /\ pc' = [pc EXCEPT ![Shell] = to]
           /\ to # "dispatch" => UNCHANGED report
           /\ to = "dispatch" => \E r : report' = [report EXCEPT ![Shell] = r]
  BY <1>1 DEF Collect, Poll, CheckSignal, TestRet, PrintRet, ShellStep, Goto, Tell
<1>3. created >= 3 /\ child[Shell] = Last /\ Last \in Task /\ Last' = Last
  BY <1>1, Types DEF ShellInv, OneShellInv, Last, schedVars
<1>4. CASE to # "dispatch"
  <2>1. JobOf' = JobOf
    BY <1>1, <1>2, <1>4, Types DEF JobOf, Job, Waiting
  <2> QED BY <1>1, <1>2, <1>4, <2>1
<1>5. CASE to = "dispatch"
  <2>1. pc'[Shell] = "dispatch"
    BY <1>2, <1>5, Types
  <2>2. pc'[Last] \in Ended /\ report'[Shell] = result[Last]
    <3>1. created' = created /\ result' = result
      BY <1>1 DEF schedVars
    <3>2. ReportInv' /\ OneShellInv'
      BY DEF ShellInv
    <3>3. report'[Shell] = result[Last]
      BY <1>3, <2>1, <3>1, <3>2 DEF ReportInv
    <3>4. pc'[Last] \in Ended
      BY <1>3, <2>1, <3>1, <3>2 DEF OneShellInv
    <3> QED BY <3>3, <3>4
  <2>3. result[Last] # NULL
    BY <1>1, <1>3, <2>2 DEF TaskInv, ProgressInv
  <2>4. PICK r : report' = [report EXCEPT ![Shell] = r]
    BY <1>2, <1>5
  <2>5. report' = [report EXCEPT ![Shell] = result[Last]]
    BY <2>2, <2>4, Types
  <2>6. JobOf[Shell] = Last /\ JobOf' = [JobOf EXCEPT ![Shell] = NULL]
    BY <1>1, <1>2, <1>3, <1>5, Types DEF JobOf, Job, Waiting
  <2>7. NULL \notin Task
    BY KernelAssumption DEF S!SchedAssumption
  <2>8. J!Collect(Shell)
    BY <1>1, <1>3, <2>3, <2>5, <2>6, <2>7 DEF J!Collect, JobOf, Job
  <2> QED BY <2>8, Types DEF J!Next
<1> QED BY <1>4, <1>5

(* Everything else is invisible to JobControl.                             *)
LEMMA JobStutter ==
  ASSUME OneAtATime, TaskInv, ShellInv,
         \/ BootCreate \/ pit_init \/ Tick \/ UNCHANGED vars
         \/ \E t \in Task : Exception(t) \/ Wrapper(t) \/ Dispatch(t)
  PROVE  UNCHANGED << JobOf, result, report >>
<1>1. CASE pit_init \/ Tick \/ (\E t \in Task : Exception(t)) \/ UNCHANGED vars
  BY <1>1 DEF pit_init, Tick, Exception, vars, taskVars, JobOf, Job
<1>2. CASE BootCreate
  <2>1. created + 1 \in Task /\ created + 1 > created
    BY <1>2, CreateFrame DEF TaskInv, BootCreate
  <2>2. pc[created + 1] = "none"
    BY <2>1 DEF TaskInv, ProgressInv
  <2>3. PICK p : /\ pc' = [pc EXCEPT ![created + 1] = Entry(p)]
                 /\ UNCHANGED << child, result, report >>
    BY <1>2 DEF BootCreate
  <2>4. Entry(p) \in {"idle", "read", "user"}
    BY DEF Entry
  <2>5. \A t \in Task : Job(t)' = Job(t)
    BY <2>1, <2>2, <2>3, <2>4, Types DEF Job
  <2> QED BY <2>3, <2>5 DEF JobOf
<1>3. ASSUME NEW t \in Task, Wrapper(t) \/ Dispatch(t)
      PROVE  UNCHANGED << JobOf, result, report >>
  <2>1. PICK to \in Transmitting \cup {"die", "hlt", "read"} : pc' = [pc EXCEPT ![t] = to]
    BY <1>3 DEF Wrapper, LoadIdx, TransmitPid, ReloadIdx, TransmitSignal, TransmitRet,
       TransmitIdx, Die, Dispatch, ShellStep, Goto, Transmitting
  <2>2. /\ pc[t] \in Transmitting \cup {"die", "dispatch"}
        /\ UNCHANGED << child, result, report >>
    BY <1>3 DEF Wrapper, LoadIdx, TransmitPid, ReloadIdx, TransmitSignal, TransmitRet,
       TransmitIdx, Die, Dispatch, ShellStep, At, Transmitting
  <2>3. \A u \in Task : Job(u)' = Job(u)
    BY <2>1, <2>2, Types DEF Job, Transmitting
  <2> QED BY <2>2, <2>3 DEF JobOf
<1> QED BY <1>1, <1>2, <1>3

(* One shell and its programs do, step by step, what JobControl promises,  *)
(* its fairness apart: a job is started once, finishes once, and its       *)
(* result and no other is collected, after it finished (shell.c:99-113).   *)
THEOREM JobsRefined == ASSUME OneAtATime PROVE Spec => J!Init /\ [][J!Next]_(J!jobVars)
<1>1. Init => J!Init
  BY DEF Init, J!Init
<1>2. J!jobVars = << JobOf, result, report >>
  BY DEF J!jobVars, JobOf, Job
<1>3. /\ TaskInv /\ ShellInv /\ TaskInv' /\ ShellInv' /\ [Next]_vars
      => J!Next \/ UNCHANGED << JobOf, result, report >>
  <2> SUFFICES ASSUME TaskInv, ShellInv, TaskInv', ShellInv', [Next]_vars
               PROVE  J!Next \/ UNCHANGED << JobOf, result, report >>
    OBVIOUS
  <2>1. ASSUME NEW t \in Task, NEW p \in Programs, Spawn(t, p) PROVE FALSE
    BY <2>1 DEF Spawn, ShellInv, OneShellInv
  <2> QED
    BY <2>1, JobStart, JobFinish, JobCollect, JobStutter DEF Next, Step
<1>4. /\ TaskInv /\ ShellInv /\ TaskInv' /\ ShellInv' /\ [Next]_vars => [J!Next]_(J!jobVars)
  BY <1>2, <1>3 DEF J!jobVars, JobOf, Job
<1> QED BY <1>1, <1>4, ShellInvariance, PTL DEF Spec
=============================================================================
