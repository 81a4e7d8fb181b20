-------------------------------- MODULE Irq --------------------------------
(***************************************************************************)
(* The interrupt path: the stubs of tables/idt/idt.asm, irq_handler of     *)
(* tables/idt/idt.c and pic_eoi of cpu/pic.c, against the two 8259         *)
(* interrupt controllers.  The timer's handler, sched_switch, replaces the *)
(* registers of the interrupt frame, the number of the interrupt included, *)
(* before irq_handler reads that number again to end the interrupt.        *)
(***************************************************************************)
EXTENDS Integers

CONSTANTS Task,     \* the tasks the timer switches between
          Line,     \* the lines devices use: 0 the timer, 1 the keyboard...
          Handled,  \* of these, the ones with an entry in idt_handlers
          Garbage   \* what the int_no of a task that never ran may hold

ASSUME IrqAssumption == /\ Line \subseteq 0..15 \ {2}
                        /\ Handled \subseteq Line
                        /\ Garbage \subseteq Nat
                        /\ Task # {}

VARIABLES
    requested,  \* lines whose device asks for service
    in_service, \* lines the controllers wait to see ended, 2 being the slave
    interrupts, \* the CPU's interrupt flag
    running,    \* the task on the CPU
    pc,         \* "task", or the part of the interrupt path that is next
    frame,      \* int_no of the interrupt frame on the stack
    int_no      \* the same field of the registers saved for each task

vars == << requested, in_service, interrupts, running, pc, frame, int_no >>

Init == /\ requested = {}
        /\ in_service = {}
        /\ interrupts = TRUE
        /\ running \in Task
        /\ pc = "task"
        /\ frame = 0
        /\ int_no \in [Task -> Garbage]

-----------------------------------------------------------------------------
(* Definitions named X_... are mistaken variants of the definition X that  *)
(* follows them; no action uses them.                                      *)

(* The controllers: lines 8 and up reach the slave, which is line 2 of the *)
(* master, hence this order of urgency.  A line is delivered if no more    *)
(* urgent one is requested and none as urgent is in service.               *)
Rank(line) == IF line < 2 THEN line ELSE IF line > 7 THEN line - 6 ELSE line + 7
Raise(line) == /\ line \notin requested
               /\ requested' = requested \cup {line}
               /\ UNCHANGED << in_service, interrupts, running, pc, frame, int_no >>

Deliverable(line) ==
    /\ line \in requested
    /\ \A l \in requested : Rank(line) <= Rank(l)
    /\ \A l \in in_service \ {2} : Rank(line) < Rank(l)
    /\ 2 \in in_service => line < 2

(* The gate clears the interrupt flag; the stub pushes the number. *)
Enter(number) == /\ pc = "task"
                 /\ interrupts' = FALSE
                 /\ frame' = number
                 /\ pc' = "handler"
                 /\ UNCHANGED << running, int_no >>

IntNo(line) == 32 + line

Interrupt(line) ==
    /\ interrupts /\ Deliverable(line)
    /\ Enter(IntNo(line))
    /\ requested' = requested \ {line}
    /\ in_service' = in_service \cup {line} \cup (IF line > 7 THEN {2} ELSE {})

(* The system call's stub goes the same way with number 48. *)
Syscall == Enter(48) /\ UNCHANGED << requested, in_service >>

-----------------------------------------------------------------------------
(* irq_handler calls what is registered; pit_handler switches tasks.       *)
SwitchTo(t) == /\ frame = 32 /\ 0 \in Handled
               /\ running' = t
               /\ frame' = IF t = running THEN frame ELSE int_no[t]
               /\ int_no' = [int_no EXCEPT ![running] = frame]

OtherHandler == /\ frame # 32 \/ 0 \notin Handled
                /\ UNCHANGED << running, frame, int_no >>

Handler == /\ pc = "handler"
           /\ pc' = "eoi"
           /\ (\E t \in Task : SwitchTo(t)) \/ OtherHandler
           /\ UNCHANGED << requested, in_service, interrupts >>

(* An end of interrupt, to one controller, ends the most urgent line it    *)
(* has in service, if any.                                                 *)
Ended(lines) == {l \in lines : \A k \in lines : l <= k}
Master == {l \in in_service : l < 8}
Slave == {l \in in_service : l > 7}

(* pic_eoi takes a u8. *)
EoiFor_One(no) == IF no > 7 THEN Ended(Slave) ELSE Ended(Master)
EoiFor_NotTimer(no) == IF no = 0 THEN {} ELSE Ended(Slave) \cup Ended(Master)
EoiFor(no) == (IF no > 7 THEN Ended(Slave) ELSE {}) \cup Ended(Master)

pic_eoi == /\ pc = "eoi"
           /\ in_service' = in_service \ EoiFor((frame + 256 - 32) % 256)
           /\ pc' = "iret"
           /\ UNCHANGED << requested, interrupts, running, frame, int_no >>

(* iretq restores the flags of the task that is resumed: rflags is 0x202   *)
(* in a new task, and every other one was interrupted with them set.       *)
Iret == /\ pc = "iret"
        /\ interrupts' = TRUE
        /\ pc' = "task"
        /\ UNCHANGED << requested, in_service, running, frame, int_no >>

Next == \/ \E line \in Line : Raise(line) \/ Interrupt(line)
        \/ Syscall
        \/ Handler \/ pic_eoi \/ Iret

(* The CPU executes its handlers, and between system calls it lets a timer *)
(* interrupt in.                                                           *)
Spec == /\ Init /\ [][Next]_vars
        /\ WF_vars(Handler) /\ WF_vars(pic_eoi) /\ WF_vars(Iret)
        /\ SF_vars(Interrupt(0))

-----------------------------------------------------------------------------
(* Type correctness of the controllers and of the interrupt frame. *)
TypeOK ==
    /\ requested \subseteq Line
    /\ in_service \subseteq Line \cup {2}
    /\ interrupts \in BOOLEAN
    /\ running \in Task
    /\ pc \in {"task", "handler", "eoi", "iret"}
    /\ frame \in Garbage \cup {0, 48} \cup {32 + l : l \in Line}
    /\ int_no \in [Task -> Garbage \cup {32}]

(* Whenever a task runs, every interrupt taken before was ended: although  *)
(* the number irq_handler ends is that of another task's last interrupt,   *)
(* or garbage, and a system call ends an interrupt that never was.         *)
AllEnded == pc = "task" => in_service = {} /\ interrupts

(* The timer keeps interrupting whatever the devices, the tasks and their  *)
(* system calls do: what the fairness of module Sched relies on.           *)
TimerServed == (0 \in requested) ~> (0 \notin requested)
=============================================================================
