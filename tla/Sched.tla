------------------------------- MODULE Sched -------------------------------
(***************************************************************************)
(* The round-robin scheduler of QuasarOS: src/sched/sched.c, the boot      *)
(* sequence of src/kernel/main.c that feeds it, and the two ways in which  *)
(* src/arch/x86_64/tables/idt/idt.c stops it.                              *)
(*                                                                         *)
(* Tasks are named by the order of their creation (kmalloc never hands the *)
(* same block out twice), so a task's name stands for the address of its   *)
(* sched_task, for its execution context and for its page map.  Every      *)
(* gate of the IDT is an interrupt gate, so sched_switch (timer interrupt) *)
(* and sched_create_new_task (system call) each run with interrupts off:   *)
(* one atomic action each.                                                 *)
(***************************************************************************)
EXTENDS Integers

CONSTANTS
    MaxCreated,      \* bound: how many tasks are ever created
    SCHED_MAX_TASK,  \* the length of sched_list (sched.h: 16)
    NULL             \* no task; also the kernel's own page map and contents zeroed by kfree

ASSUME SchedAssumption ==
    /\ MaxCreated \in Nat /\ MaxCreated >= 2
    /\ SCHED_MAX_TASK \in Nat \ {0}
    /\ NULL \notin 1..MaxCreated

Task == 1..MaxCreated
Idle == 1                       \* kernel_idle, the first task main.c creates

State == {"WAITING", "RUNNING", "DEAD"}   \* BUSY is never used

VARIABLES
    sched_list,         \* the table, indexed from 0
    sched_current_task, \* the task sched_switch resumed last
    sched_tid,          \* tasks in the table; the pid of the next task
    sched_cid,          \* the index the next sched_switch resumes
    task_id, task_state, task_regs,  \* fields id, state and regs of the tasks
    cpu,                \* the context CPU 0 executes; NULL is the boot context
    vmm_current_page_map, \* owner of the page map in cr3; NULL is page_map_kernel
    created,            \* how many tasks were created
    tasking,            \* idt_handlers[0] is set: timer interrupts switch tasks
    halted              \* CPU 0 will never take an interrupt again

schedVars == << sched_list, sched_current_task, sched_tid, sched_cid, task_id,
                task_state, task_regs, cpu, vmm_current_page_map, created,
                tasking, halted >>

Init ==
    /\ sched_list = [i \in 0..MaxCreated |-> NULL]
    /\ sched_current_task = NULL
    /\ sched_tid = 0
    /\ sched_cid = 0
    /\ task_id = [t \in Task |-> 0]
    /\ task_state = [t \in Task |-> "WAITING"]
    /\ task_regs = [t \in Task |-> NULL]
    /\ cpu = NULL
    /\ vmm_current_page_map = NULL
    /\ created = 0
    /\ tasking = FALSE
    /\ halted = FALSE

-----------------------------------------------------------------------------
(* Definitions named X_... are mistaken variants of the definition X that  *)
(* follows them; no action uses them.  PROJECT.json pairs each with the    *)
(* property that detects it.                                               *)

(* sched_create_new_task: the task joins the table at sched_tid, which is  *)
(* also its pid; nothing compares sched_tid with SCHED_MAX_TASK.           *)
NewStruct(t) ==
    /\ task_id' = [task_id EXCEPT ![t] = sched_tid]
    /\ task_state' = [task_state EXCEPT ![t] = "RUNNING"]
    /\ task_regs' = [task_regs EXCEPT ![t] = t]

sched_create_new_task ==
    /\ created < MaxCreated
    /\ created' = created + 1
    /\ NewStruct(created + 1)
    /\ sched_list' = [sched_list EXCEPT ![sched_tid] = created + 1]
    /\ sched_tid' = sched_tid + 1
    /\ UNCHANGED << sched_current_task, sched_cid, cpu, vmm_current_page_map,
                    tasking, halted >>

(* _start creates the idle task and the shell before it registers the      *)
(* timer handler; the boot context is still running.                       *)
BootCreate == /\ ~tasking /\ ~halted /\ created < 2
              /\ sched_create_new_task

pit_init == /\ ~tasking /\ ~halted /\ created = 2
            /\ tasking' = TRUE
            /\ UNCHANGED << sched_list, sched_current_task, sched_tid, sched_cid,
                            task_id, task_state, task_regs, cpu,
                            vmm_current_page_map, created, halted >>

(* A live task other than idle executes: only such a task makes system     *)
(* calls, returns to sched_wrapper or faults.                              *)
LiveTaskRuns == /\ ~halted
                /\ cpu \in Task \ {Idle}
                /\ task_state[cpu] # "DEAD"

SysCreate == LiveTaskRuns /\ sched_create_new_task

(* sched_kill, and the same assignment in sched_wrapper. *)
sched_kill ==
    /\ task_state' = [task_state EXCEPT ![sched_current_task] = "DEAD"]
    /\ UNCHANGED << sched_list, sched_current_task, sched_tid, sched_cid, task_id,
                    task_regs, cpu, vmm_current_page_map, created, tasking >>

Kill == LiveTaskRuns /\ sched_kill /\ UNCHANGED halted

(* sched_remove_task: the entries above id move down by one, the last of   *)
(* them being the entry just past the table's end; kfree zeroes the task.  *)
(* A zeroed state field reads WAITING.                                     *)
ShiftDown_StopsEarly(id) == [i \in 0..MaxCreated |->
                    IF i \in id..(sched_tid - 2) THEN sched_list[i + 1]
                                                 ELSE sched_list[i]]
ShiftDown(id) == [i \in 0..MaxCreated |->
                    IF i \in id..(sched_tid - 1) THEN sched_list[i + 1]
                                                 ELSE sched_list[i]]

sched_remove_task(id) ==
    /\ sched_list' = ShiftDown(id)
    /\ sched_tid' = sched_tid - 1
    /\ task_id' = [task_id EXCEPT ![sched_list[id]] = 0]
    /\ task_state' = [task_state EXCEPT ![sched_list[id]] = "WAITING"]

NextCursor_WrapsEarly == IF sched_cid + 1 >= sched_tid - 1 THEN 0 ELSE sched_cid + 1
NextCursor == IF sched_cid + 1 = sched_tid THEN 0 ELSE sched_cid + 1

(* The contexts once sched_switch has saved the interrupted one.           *)
SavedRegs_AfterAdvance == [task_regs EXCEPT ![sched_list[sched_cid]] = cpu]
SavedRegs == IF sched_current_task = NULL THEN task_regs
             ELSE [task_regs EXCEPT ![sched_current_task] = cpu]

(* Lines 117-120: the task the cursor moves to is removed if it is dead,   *)
(* and the next round starts again from the idle task.                     *)
Reap_CursorKept ==
    /\ task_state[sched_list[NextCursor]] = "DEAD"
    /\ sched_remove_task(NextCursor)
    /\ sched_cid' = NextCursor
    /\ task_regs' = [SavedRegs EXCEPT ![sched_list[NextCursor]] = NULL]
Reap_RemovesResumed ==
    /\ task_state[sched_list[NextCursor]] = "DEAD"
    /\ sched_remove_task(sched_cid)
    /\ sched_cid' = 0
    /\ task_regs' = [SavedRegs EXCEPT ![sched_list[sched_cid]] = NULL]
Reap_NeverTheLast ==
    /\ NextCursor + 1 < sched_tid
    /\ task_state[sched_list[NextCursor]] = "DEAD"
    /\ sched_remove_task(NextCursor)
    /\ sched_cid' = 0
    /\ task_regs' = [SavedRegs EXCEPT ![sched_list[NextCursor]] = NULL]
Reap ==
    /\ task_state[sched_list[NextCursor]] = "DEAD"
    /\ sched_remove_task(NextCursor)
    /\ sched_cid' = 0
    /\ task_regs' = [SavedRegs EXCEPT ![sched_list[NextCursor]] = NULL]

Advance ==
    /\ task_state[sched_list[NextCursor]] # "DEAD"
    /\ sched_cid' = NextCursor
    /\ task_regs' = SavedRegs
    /\ UNCHANGED << sched_list, sched_tid, task_id, task_state >>

(* sched_switch: save the interrupted context, resume the task under the   *)
(* cursor, advance the cursor.                                             *)
sched_switch ==
    /\ tasking /\ ~halted
    /\ sched_current_task' = sched_list[sched_cid]
    /\ cpu' = SavedRegs[sched_list[sched_cid]]
    /\ vmm_current_page_map' = sched_list[sched_cid]
    /\ Advance \/ Reap
    /\ UNCHANGED << created, tasking, halted >>

(* isr_handler for anything but a page fault in an ELF: the timer handler  *)
(* is unregistered and the CPU halts with interrupts off.                  *)
IsrHalt ==
    /\ LiveTaskRuns
    /\ tasking' = FALSE
    /\ halted' = TRUE
    /\ UNCHANGED << sched_list, sched_current_task, sched_tid, sched_cid, task_id,
                    task_state, task_regs, cpu, vmm_current_page_map, created >>

(* A page fault inside a system call: isr_handler kills the task, returns  *)
(* to the faulting instruction and faults again, forever, with interrupts  *)
(* off because the system call gate cleared the interrupt flag.            *)
FaultInSyscall == LiveTaskRuns /\ sched_kill /\ halted' = TRUE

Next == \/ BootCreate \/ pit_init \/ SysCreate \/ Kill
        \/ sched_switch \/ IsrHalt \/ FaultInSyscall

(* The PIT keeps interrupting as long as CPU 0 accepts interrupts. *)
Spec == Init /\ [][Next]_schedVars /\ WF_schedVars(sched_switch)

-----------------------------------------------------------------------------
(* Type correctness of the scheduler's globals and of the task structs     *)
(* (sched.c:9-12, sched.h:18-27).                                          *)
TypeOK ==
    /\ sched_list \in [0..MaxCreated -> Task \cup {NULL}]
    /\ sched_current_task \in Task \cup {NULL}
    /\ sched_tid \in 0..MaxCreated
    /\ sched_cid \in 0..MaxCreated
    /\ task_id \in [Task -> 0..(MaxCreated - 1)]
    /\ task_state \in [Task -> State]
    /\ task_regs \in [Task -> Task \cup {NULL}]
    /\ cpu \in Task \cup {NULL}
    /\ vmm_current_page_map \in Task \cup {NULL}
    /\ created \in 0..MaxCreated
    /\ tasking \in BOOLEAN
    /\ halted \in BOOLEAN

Listed(t) == \E i \in 0..(sched_tid - 1) : sched_list[i] = t

(* The table stays dense and in order of creation through every shift of   *)
(* sched_remove_task: no hole below sched_tid, no leftover above it, and   *)
(* so no task in it twice.                                                 *)
ListInv ==
    /\ \A i \in 0..MaxCreated : (i < sched_tid) <=> (sched_list[i] # NULL)
    /\ \A i, j \in 0..(sched_tid - 1) : i < j => sched_list[i] < sched_list[j]

(* What sched_switch resumes exists and is alive: the cursor points into   *)
(* the table, at a task that is not dead, although the task that ran in    *)
(* between may have died and the table may have been shifted.              *)
CursorInv ==
    tasking => /\ sched_cid < sched_tid
               /\ task_state[sched_list[sched_cid]] = "RUNNING"
               /\ sched_list[0] = Idle

(* The context on the CPU, the page map in cr3 and sched_current_task      *)
(* belong to one task, which is still in the table and so not freed: the   *)
(* save in sched_switch never stores one task's registers into another.    *)
ContextInv ==
    /\ cpu = sched_current_task
    /\ vmm_current_page_map = sched_current_task
    /\ sched_current_task # NULL => Listed(sched_current_task)
    /\ \A t \in Task : Listed(t) => task_regs[t] = t

(* A task is alive or waiting to be removed exactly while it is listed;    *)
(* what sched_remove_task freed is gone for good.                          *)
FreedInv ==
    \A t \in Task : /\ Listed(t) <=> task_state[t] \in {"RUNNING", "DEAD"}
                    /\ Listed(t) => t <= created

(* A task leaves the table only when it is dead, and never in the          *)
(* interrupt that resumes it (sched.c:117-120).                            *)
OnlyDeadLeave == \A t \in Task :
                    Listed(t) /\ ~Listed(t)' => /\ task_state[t] = "DEAD"
                                                /\ t # sched_current_task'
RemovedOnlyDead == [][OnlyDeadLeave]_schedVars

(* A task's pid was its index when it was created (sched.c:39, 61) and     *)
(* removals only ever move it down, so no index is above its task's pid.   *)
IndexAtMostId ==
    \A i \in 0..(sched_tid - 1) : i <= task_id[sched_list[i]]

(* The boot order of _start: the idle task is first, stays at index 0 and  *)
(* never dies; nothing is resumed before the timer handler is registered.  *)
BootInv ==
    /\ sched_tid <= created
    /\ created > 0 => /\ sched_tid > 0
                      /\ sched_list[0] = Idle
                      /\ task_state[Idle] = "RUNNING"
    /\ tasking => created >= 2
    /\ ~tasking /\ ~halted => sched_current_task = NULL /\ sched_cid = 0

(* The task under the cursor is not the one running, the idle task apart:  *)
(* so a task that kills itself is never the next to be resumed.            *)
NextIsOther ==
    tasking /\ sched_current_task # Idle
        => sched_current_task # sched_list[sched_cid]

(* The inductive invariant: what holds of the scheduler between two steps. *)
SchedInv == /\ TypeOK /\ ListInv /\ CursorInv /\ ContextInv /\ FreedInv
            /\ IndexAtMostId /\ BootInv /\ NextIsOther

(* Round robin: whatever is created, dies or is removed meanwhile, a task  *)
(* in the table is resumed again and again.                                *)
NoStarvation ==
    \A t \in Task :
        (tasking /\ Listed(t)) ~> (sched_current_task = t \/ ~Listed(t) \/ halted)

(* The table has room for every task (sched.h:9).                          *)
TableFits == sched_tid <= SCHED_MAX_TASK
=============================================================================
