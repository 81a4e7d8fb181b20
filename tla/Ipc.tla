-------------------------------- MODULE Ipc --------------------------------
(***************************************************************************)
(* The signal queue of src/sched/ipc.c, through which a task that ends     *)
(* tells the program that started it.  The readers (ipc_get, ipc_get_ret)  *)
(* and ipc_dispatch run inside system calls, so each is atomic; so is      *)
(* ipc_transmit when isr_handler calls it.  When sched_wrapper calls it,   *)
(* interrupts are on and its stores are separate steps: StorePid,          *)
(* StoreSignal, StoreRet and Publish.                                      *)
(***************************************************************************)
EXTENDS Integers, FiniteSetsExt

CONSTANT IPC_SLOTS   \* the length of ipc_signals (ipc.c:3: 256)

ASSUME IpcAssumption == IPC_SLOTS \in Nat \ {0}

VARIABLES ipc_signals,    \* the slots
          ipc_queue_idx   \* slots in use; nothing ever lowers it

ipcVars == << ipc_signals, ipc_queue_idx >>

SIGKILL == 1
SIGSEGV == 2
NoSignal == [pid |-> 0, signal |-> 0, ret |-> 0]

IpcInit == /\ ipc_signals = [i \in 0..(IPC_SLOTS - 1) |-> NoSignal]
           /\ ipc_queue_idx = 0

(* The slots the loops over i < ipc_queue_idx do not skip, and among them  *)
(* those of one pid.  Slots past the array are memory the model leaves out. *)
Used == {i \in 0..(IPC_SLOTS - 1) : i < ipc_queue_idx /\ ipc_signals[i].pid # 0}
UsedBy(pid) == {i \in Used : ipc_signals[i].pid = pid}

(* ipc_get looks only at the first used slot: if it is another task's, the *)
(* loop returns 0.                                                         *)
ipc_get(pid) ==
    IF Used # {} /\ ipc_signals[Min(Used)].pid = pid
    THEN ipc_signals[Min(Used)].signal
    ELSE 0

(* ipc_get_ret searches every used slot. *)
ipc_get_ret(pid) ==
    IF UsedBy(pid) # {} THEN ipc_signals[Min(UsedBy(pid))].ret ELSE 0

ipc_dispatch_KeepsPid(pid) ==
    /\ ipc_signals' = IF UsedBy(pid) = {} THEN ipc_signals
                      ELSE [ipc_signals EXCEPT ![Min(UsedBy(pid))].signal = 0]
    /\ UNCHANGED ipc_queue_idx
ipc_dispatch_Nothing(pid) == UNCHANGED ipcVars
ipc_dispatch(pid) ==
    /\ ipc_signals' = IF UsedBy(pid) = {} THEN ipc_signals
                      ELSE [ipc_signals EXCEPT ![Min(UsedBy(pid))] = NoSignal]
    /\ UNCHANGED ipc_queue_idx

(* ipc_transmit as one step. *)
ipc_transmit_NotPublished(pid, signal, ret) ==
    /\ ipc_signals' = [ipc_signals EXCEPT ![ipc_queue_idx] =
                          [pid |-> pid, signal |-> signal, ret |-> ret]]
    /\ UNCHANGED ipc_queue_idx
ipc_transmit(pid, signal, ret) ==
    /\ ipc_signals' = [ipc_signals EXCEPT ![ipc_queue_idx] =
                          [pid |-> pid, signal |-> signal, ret |-> ret]]
    /\ ipc_queue_idx' = ipc_queue_idx + 1

(* The stores of ipc_transmit one by one, into the slot the caller loaded. *)
StorePid(i, pid) == /\ ipc_signals' = [ipc_signals EXCEPT ![i].pid = pid]
                    /\ UNCHANGED ipc_queue_idx
StoreSignal(i, signal) == /\ ipc_signals' = [ipc_signals EXCEPT ![i].signal = signal]
                          /\ UNCHANGED ipc_queue_idx
StoreRet(i, ret) == /\ ipc_signals' = [ipc_signals EXCEPT ![i].ret = ret]
                    /\ UNCHANGED ipc_queue_idx
Publish_Twice(i) == ipc_queue_idx' = i + 2 /\ UNCHANGED ipc_signals
Publish_Forgotten(i) == UNCHANGED ipcVars
Publish(i) == ipc_queue_idx' = i + 1 /\ UNCHANGED ipc_signals

IpcTypeOK(Pid, Ret) ==
    /\ ipc_signals \in [0..(IPC_SLOTS - 1) ->
                          [pid : Pid, signal : {0, SIGKILL, SIGSEGV}, ret : Ret]]
    /\ ipc_queue_idx \in Nat
=============================================================================
