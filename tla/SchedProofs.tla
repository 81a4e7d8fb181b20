---------------------------- MODULE SchedProofs ----------------------------
(***************************************************************************)
(* Proofs about the scheduler of module Sched, for every number of tasks   *)
(* ever created and every table length.                                    *)
(***************************************************************************)
EXTENDS Sched, TLAPS

USE DEF SchedAssumption, Task, Idle, State

(* The boot state satisfies every conjunct: the table is empty, nothing    *)
(* runs but the boot context.                                              *)
LEMMA InitInv == Init => SchedInv
<1> SUFFICES ASSUME Init PROVE SchedInv
  OBVIOUS
<1> USE SchedAssumption DEF Init
<1>1. TypeOK
  <2>1. sched_list \in [0..MaxCreated -> Task \cup {NULL}] /\ 0 \in 0..MaxCreated
    OBVIOUS
  <2>2. /\ task_id \in [Task -> 0..(MaxCreated - 1)]
        /\ task_state \in [Task -> State]
        /\ task_regs \in [Task -> Task \cup {NULL}]
    OBVIOUS
  <2> QED BY <2>1, <2>2 DEF TypeOK
<1>2. \A t \in Task : ~Listed(t)
  BY DEF Listed
<1>3. ListInv /\ IndexAtMostId /\ BootInv
  BY DEF ListInv, IndexAtMostId, BootInv
<1>4. CursorInv /\ NextIsOther
  BY DEF CursorInv, NextIsOther
<1>5. ContextInv /\ FreedInv
  BY <1>2 DEF ContextInv, FreedInv
<1> QED BY <1>1, <1>3, <1>4, <1>5 DEF SchedInv

(* sched_create_new_task (sched.c:33-67) run in boot or by a live task     *)
(* keeps the invariant.                                                    *)
LEMMA CreateInv ==
  ASSUME SchedInv, sched_create_new_task,
         \/ ~tasking /\ ~halted /\ created < 2
         \/ LiveTaskRuns
  PROVE  SchedInv'
<1> USE SchedAssumption DEF SchedInv, sched_create_new_task, NewStruct, LiveTaskRuns
<1>1. TypeOK'
  BY DEF TypeOK, BootInv
<1>2. sched_tid < MaxCreated /\ sched_list' = [sched_list EXCEPT ![sched_tid] = created + 1]
  BY DEF TypeOK, BootInv
<1>3. ListInv'
  <2>1. \A i \in 0..(sched_tid - 1) : sched_list[i] \in Task /\ sched_list[i] <= created
    BY DEF TypeOK, ListInv, FreedInv, Listed
  <2>2. \A i \in 0..MaxCreated : (i < sched_tid') <=> (sched_list'[i] # NULL)
    BY <1>2 DEF TypeOK, ListInv
  <2>3. \A i, j \in 0..(sched_tid' - 1) : i < j => sched_list'[i] < sched_list'[j]
    <3> SUFFICES ASSUME NEW i \in 0..sched_tid, NEW j \in 0..sched_tid, i < j
                 PROVE  sched_list'[i] < sched_list'[j]
      BY DEF TypeOK
    <3>1. i \in 0..(sched_tid - 1) /\ sched_list'[i] = sched_list[i]
      BY <1>2 DEF TypeOK
    <3>2. CASE j = sched_tid
      BY <3>1, <3>2, <1>2, <2>1 DEF TypeOK
    <3>3. CASE j # sched_tid
      BY <3>1, <3>3, <1>2 DEF TypeOK, ListInv
    <3> QED BY <3>2, <3>3
  <2> QED BY <2>2, <2>3 DEF ListInv
<1>4. created + 1 \in Task /\ ~Listed(created + 1)
  BY DEF TypeOK, FreedInv
<1>5. \A t \in Task : Listed(t)' <=> Listed(t) \/ t = created + 1
  BY <1>2, <1>4 DEF TypeOK, ListInv, Listed
<1>6. BootInv'
  BY <1>2 DEF TypeOK, BootInv, ListInv, ContextInv, Listed
<1>7. CursorInv'
  BY <1>2, <1>4 DEF TypeOK, CursorInv, FreedInv, Listed, BootInv
<1>8. ContextInv'
  BY <1>4, <1>5 DEF TypeOK, ContextInv
<1>9. FreedInv'
  BY <1>4, <1>5 DEF TypeOK, FreedInv
<1>10. IndexAtMostId'
  BY <1>2, <1>4 DEF TypeOK, IndexAtMostId, ListInv, Listed
<1>11. NextIsOther'
  BY <1>2 DEF TypeOK, NextIsOther, CursorInv
<1> QED BY <1>1, <1>3, <1>6, <1>7, <1>8, <1>9, <1>10, <1>11

(* sched_kill (sched.c:73-75) by a live task keeps the invariant, whether  *)
(* or not the CPU goes on.                                                 *)
LEMMA KillInv ==
  ASSUME SchedInv, LiveTaskRuns, sched_kill, halted' \in BOOLEAN
  PROVE  SchedInv'
<1> USE SchedAssumption DEF SchedInv, sched_kill, LiveTaskRuns
<1>1. sched_current_task \in Task \ {Idle} /\ Listed(sched_current_task)
  BY DEF ContextInv
<1>2. TypeOK'
  BY DEF TypeOK
<1>3. \A t \in Task : Listed(t)' <=> Listed(t)
  BY DEF Listed
<1>4. ListInv' /\ IndexAtMostId'
  BY DEF ListInv, IndexAtMostId
<1>5. ContextInv' /\ FreedInv'
  BY <1>1, <1>3 DEF TypeOK, ContextInv, FreedInv
<1>6. CursorInv'
  BY <1>1 DEF TypeOK, CursorInv, NextIsOther
<1>7. BootInv' /\ NextIsOther'
  BY <1>1 DEF TypeOK, BootInv, NextIsOther
<1> QED BY <1>2, <1>4, <1>5, <1>6, <1>7

(* Every entry below sched_tid is a task, and the cursor advances inside   *)
(* the table to a task other than the one about to be resumed, unless it   *)
(* comes back to the idle task.                                            *)
LEMMA CursorFacts ==
  ASSUME SchedInv, tasking
  PROVE  /\ \A i \in 0..(sched_tid - 1) : sched_list[i] \in Task /\ Listed(sched_list[i])
         /\ sched_cid \in 0..(sched_tid - 1)
         /\ NextCursor \in 0..(sched_tid - 1)
         /\ sched_list[0] = Idle /\ task_state[Idle] = "RUNNING"
         /\ NextCursor # 0 => NextCursor = sched_cid + 1
         /\ SavedRegs \in [Task -> Task \cup {NULL}]
         /\ \A t \in Task : Listed(t) => SavedRegs[t] = t
<1> USE SchedAssumption DEF SchedInv
<1>1. \A i \in 0..(sched_tid - 1) : sched_list[i] \in Task /\ Listed(sched_list[i])
  BY SMTT(30) DEF TypeOK, ListInv, Listed
<1>2. /\ sched_cid \in 0..(sched_tid - 1)
      /\ sched_list[0] = Idle /\ task_state[Idle] = "RUNNING"
  BY DEF TypeOK, CursorInv, BootInv
<1>3. NextCursor \in 0..(sched_tid - 1) /\ (NextCursor # 0 => NextCursor = sched_cid + 1)
  BY <1>2 DEF TypeOK, NextCursor
<1>4. /\ SavedRegs \in [Task -> Task \cup {NULL}]
      /\ \A t \in Task : Listed(t) => SavedRegs[t] = t
  BY DEF TypeOK, ContextInv, SavedRegs
<1> QED BY <1>1, <1>2, <1>3, <1>4

(* Removing the entry at k, neither the first nor the one resumed, leaves  *)
(* a dense ordered table that lists exactly the other tasks                *)
(* (sched_remove_task, sched.c:81-100).                                    *)
LEMMA ShiftFacts ==
  ASSUME TypeOK, ListInv, NEW k \in 0..(sched_tid - 1), sched_remove_task(k)
  PROVE  /\ sched_list' \in [0..MaxCreated -> Task \cup {NULL}]
         /\ ListInv'
         /\ sched_tid' \in 0..MaxCreated
         /\ \A i \in 0..(sched_tid' - 1) :
               sched_list'[i] = IF i < k THEN sched_list[i] ELSE sched_list[i + 1]
         /\ \A t \in Task : Listed(t)' <=> Listed(t) /\ t # sched_list[k]
<1> USE SchedAssumption DEF sched_remove_task
<1>1. sched_tid' = sched_tid - 1 /\ sched_tid' \in 0..MaxCreated
  BY DEF TypeOK
<1>2. \A i \in 0..MaxCreated :
         sched_list'[i] = IF i \in k..(sched_tid - 1) THEN sched_list[i + 1] ELSE sched_list[i]
  BY DEF ShiftDown, TypeOK
<1>3. sched_list' \in [0..MaxCreated -> Task \cup {NULL}]
  BY DEF ShiftDown, TypeOK
<1>4. \A i \in 0..(sched_tid' - 1) :
         sched_list'[i] = IF i < k THEN sched_list[i] ELSE sched_list[i + 1]
  BY <1>1, <1>2 DEF TypeOK
<1>5. ListInv'
  <2>1. \A i \in 0..MaxCreated : (i < sched_tid') <=> (sched_list'[i] # NULL)
    <3> SUFFICES ASSUME NEW i \in 0..MaxCreated
                 PROVE  (i < sched_tid - 1) <=> (sched_list'[i] # NULL)
      BY <1>1
    <3>1. CASE i \in k..(sched_tid - 1)
      <4>1. i + 1 \in 0..MaxCreated /\ sched_list'[i] = sched_list[i + 1]
        BY <3>1, <1>2 DEF TypeOK
      <4> QED BY <4>1 DEF TypeOK, ListInv
    <3>2. CASE i \notin k..(sched_tid - 1)
      <4>1. sched_list'[i] = sched_list[i] /\ (i < k \/ i >= sched_tid)
        BY <3>2, <1>2 DEF TypeOK
      <4> QED BY <4>1 DEF TypeOK, ListInv
    <3> QED BY <3>1, <3>2
  <2>2. \A i, j \in 0..(sched_tid' - 1) : i < j => sched_list'[i] < sched_list'[j]
    <3> SUFFICES ASSUME NEW i \in 0..(sched_tid' - 1), NEW j \in 0..(sched_tid' - 1), i < j
                 PROVE  sched_list'[i] < sched_list'[j]
      OBVIOUS
    <3> DEFINE a == IF i < k THEN i ELSE i + 1
               b == IF j < k THEN j ELSE j + 1
    <3>1. a \in 0..(sched_tid - 1) /\ b \in 0..(sched_tid - 1) /\ a < b
      BY <1>1 DEF TypeOK
    <3>2. sched_list'[i] = sched_list[a] /\ sched_list'[j] = sched_list[b]
      BY <1>4
    <3> HIDE DEF a, b
    <3> QED BY <3>1, <3>2 DEF ListInv
  <2> QED BY <2>1, <2>2 DEF ListInv
<1>6. \A t \in Task : Listed(t)' <=> Listed(t) /\ t # sched_list[k]
  <2> SUFFICES ASSUME NEW t \in Task
               PROVE  Listed(t)' <=> Listed(t) /\ t # sched_list[k]
    OBVIOUS
  <2>1. ASSUME Listed(t)' PROVE Listed(t) /\ t # sched_list[k]
    <3>1. PICK i \in 0..(sched_tid' - 1) : sched_list'[i] = t
      BY <2>1 DEF Listed
    <3>2. PICK j \in 0..(sched_tid - 1) : j # k /\ sched_list[j] = t
      BY <3>1, <1>1, <1>4 DEF TypeOK
    <3>3. j < k \/ k < j
      BY <3>2 DEF TypeOK
    <3>4. sched_list[j] \in Task /\ sched_list[k] \in Task
      BY DEF TypeOK, ListInv
    <3> QED BY <3>2, <3>3, <3>4 DEF TypeOK, ListInv, Listed
  <2>2. ASSUME Listed(t), t # sched_list[k] PROVE Listed(t)'
    <3>1. PICK j \in 0..(sched_tid - 1) : sched_list[j] = t
      BY <2>2 DEF Listed
    <3>2. CASE j < k
      <4>1. j \in 0..(sched_tid' - 1) /\ sched_list'[j] = t
        BY <3>1, <3>2, <1>1, <1>4 DEF TypeOK
      <4>2. \E i \in 0..(sched_tid' - 1) : sched_list'[i] = t
        BY <4>1
      <4> QED BY <4>2 DEF Listed
    <3>3. CASE j > k
      <4>1. j - 1 \in 0..(sched_tid' - 1) /\ sched_list'[j - 1] = t
        BY <3>1, <3>3, <1>1, <1>4 DEF TypeOK
      <4>2. \E i \in 0..(sched_tid' - 1) : sched_list'[i] = t
        BY <4>1
      <4> QED BY <4>2 DEF Listed
    <3>4. j # k
      BY <3>1, <2>2
    <3>5. j \in Int /\ k \in Int
      BY DEF TypeOK
    <3>6. j < k \/ j > k
      BY <3>4, <3>5
    <3> QED BY <3>2, <3>3, <3>6
  <2> QED BY <2>1, <2>2
<1> QED BY <1>1, <1>3, <1>4, <1>5, <1>6

(* The timer interrupt (sched_switch, sched.c:102-122) keeps the           *)
(* invariant, with or without a removal.                                   *)
LEMMA SwitchInv ==
  ASSUME SchedInv, sched_switch
  PROVE  SchedInv'
<1> USE SchedAssumption DEF SchedInv, sched_switch, Advance, Reap
<1> DEFINE next   == sched_list[sched_cid]
           victim == sched_list[NextCursor]
<1>1. /\ \A i \in 0..(sched_tid - 1) : sched_list[i] \in Task /\ Listed(sched_list[i])
      /\ sched_cid \in 0..(sched_tid - 1)
      /\ NextCursor \in 0..(sched_tid - 1)
      /\ sched_list[0] = Idle /\ task_state[Idle] = "RUNNING"
      /\ NextCursor # 0 => NextCursor = sched_cid + 1
      /\ SavedRegs \in [Task -> Task \cup {NULL}]
      /\ \A t \in Task : Listed(t) => SavedRegs[t] = t
  BY CursorFacts
<1>2. /\ next \in Task /\ Listed(next) /\ cpu' = next
      /\ sched_current_task' = next /\ vmm_current_page_map' = next
  BY <1>1
<1>3. CASE task_state[victim] # "DEAD"
  <2>1. /\ sched_cid' = NextCursor /\ task_regs' = SavedRegs
        /\ UNCHANGED << sched_list, sched_tid, task_id, task_state >>
    BY <1>3
  <2>2. \A t \in Task : Listed(t)' <=> Listed(t)
    BY <2>1 DEF Listed
  <2>3. TypeOK'
    BY <1>1, <1>2, <2>1 DEF TypeOK
  <2>4. ListInv' /\ IndexAtMostId' /\ FreedInv' /\ BootInv'
    BY <2>1, <2>2 DEF ListInv, IndexAtMostId, FreedInv, BootInv
  <2>5. CursorInv'
    BY <1>1, <1>3, <2>1 DEF CursorInv, TypeOK, FreedInv
  <2>6. ContextInv'
    BY <1>1, <1>2, <2>1, <2>2 DEF ContextInv
  <2>7. NextIsOther'
    BY <1>1, <1>2, <2>1 DEF NextIsOther, ListInv, TypeOK
  <2> QED BY <2>3, <2>4, <2>5, <2>6, <2>7
<1>4. CASE task_state[victim] = "DEAD"
  <2>1. /\ sched_remove_task(NextCursor) /\ sched_cid' = 0
        /\ task_regs' = [SavedRegs EXCEPT ![victim] = NULL]
        /\ task_state' = [task_state EXCEPT ![victim] = "WAITING"]
        /\ task_id' = [task_id EXCEPT ![victim] = 0]
        /\ sched_tid' = sched_tid - 1
    BY <1>4 DEF sched_remove_task
  <2>2. NextCursor = sched_cid + 1 /\ victim \in Task \ {Idle} /\ Listed(victim)
    BY <1>1, <1>4
  <2>3. /\ sched_list' \in [0..MaxCreated -> Task \cup {NULL}]
        /\ ListInv'
        /\ sched_tid' \in 0..MaxCreated
        /\ \A i \in 0..(sched_tid' - 1) :
              sched_list'[i] = IF i < NextCursor THEN sched_list[i] ELSE sched_list[i + 1]
        /\ \A t \in Task : Listed(t)' <=> Listed(t) /\ t # victim
    BY <1>1, <2>1, ShiftFacts
  <2>4. sched_list'[0] = Idle /\ sched_tid' > 0
    BY <1>1, <2>1, <2>2, <2>3 DEF TypeOK
  <2>5. next # victim
    <3>1. sched_list[sched_cid] < sched_list[NextCursor]
      BY <1>1, <2>2 DEF TypeOK, ListInv
    <3> QED BY <3>1, <1>2, <2>2
  <2>6. TypeOK'
    BY <1>1, <1>2, <2>1, <2>3 DEF TypeOK
  <2>7. IndexAtMostId'
    <3> SUFFICES ASSUME NEW i \in 0..(sched_tid' - 1)
                 PROVE  i <= task_id'[sched_list'[i]]
      BY DEF IndexAtMostId
    <3> DEFINE j == IF i < NextCursor THEN i ELSE i + 1
    <3>1. /\ j \in 0..(sched_tid - 1) /\ i <= j /\ j # NextCursor
          /\ sched_list'[i] = sched_list[j]
      BY <2>1, <2>3, <1>1 DEF TypeOK
    <3> HIDE DEF j
    <3>2. sched_list[j] \in Task /\ sched_list[j] # victim
      <4>1. j < NextCursor \/ NextCursor < j
        BY <3>1, <1>1
      <4>2. sched_list[j] \in Task /\ sched_list[NextCursor] \in Task
        BY <3>1, <1>1
      <4>3. sched_list[j] < sched_list[NextCursor] \/ sched_list[NextCursor] < sched_list[j]
        BY <3>1, <4>1, <1>1 DEF ListInv
      <4> QED BY <4>2, <4>3
    <3>3. task_id'[sched_list[j]] = task_id[sched_list[j]]
      BY <3>2, <2>1 DEF TypeOK
    <3>4. j <= task_id[sched_list[j]] /\ task_id[sched_list[j]] \in Int
      BY <3>1, <3>2 DEF IndexAtMostId, TypeOK
    <3> QED BY <3>1, <3>3, <3>4
  <2>8. CursorInv'
    BY <1>1, <2>1, <2>2, <2>4 DEF CursorInv, TypeOK
  <2>9. ContextInv'
    BY <1>1, <1>2, <2>1, <2>2, <2>3, <2>5 DEF ContextInv, TypeOK
  <2>10. FreedInv'
    BY <2>1, <2>2, <2>3 DEF FreedInv, TypeOK
  <2>11. BootInv'
    BY <1>1, <2>1, <2>2, <2>3, <2>4 DEF BootInv, TypeOK
  <2>12. NextIsOther'
    BY <1>2, <2>1, <2>4 DEF NextIsOther
  <2> QED BY <2>3, <2>6, <2>7, <2>8, <2>9, <2>10, <2>11, <2>12
<1> QED BY <1>3, <1>4

(* Every step of the scheduler keeps the invariant; one case per action.   *)
LEMMA NextInv == SchedInv /\ [Next]_schedVars => SchedInv'
<1> SUFFICES ASSUME SchedInv, [Next]_schedVars PROVE SchedInv'
  OBVIOUS
<1>1. CASE BootCreate
  BY <1>1, CreateInv DEF BootCreate
<1>2. CASE pit_init
  <2>1. \A t \in Task : Listed(t)' <=> Listed(t)
    BY <1>2 DEF pit_init, Listed
  <2>2. TypeOK' /\ ListInv' /\ FreedInv' /\ IndexAtMostId'
    BY <1>2, <2>1 DEF pit_init, SchedInv, TypeOK, ListInv, FreedInv, IndexAtMostId
  <2>3. ContextInv' /\ BootInv'
    BY <1>2, <2>1 DEF pit_init, SchedInv, TypeOK, ContextInv, BootInv
  <2>4. CursorInv' /\ NextIsOther'
    BY <1>2, SchedAssumption
       DEF pit_init, SchedInv, TypeOK, CursorInv, NextIsOther, BootInv
  <2> QED BY <2>2, <2>3, <2>4 DEF SchedInv
<1>3. CASE SysCreate
  BY <1>3, CreateInv DEF SysCreate
<1>4. CASE Kill
  <2>1. halted' \in BOOLEAN
    BY <1>4 DEF Kill, SchedInv, TypeOK
  <2> QED BY <1>4, <2>1, KillInv DEF Kill
<1>5. CASE sched_switch
  BY <1>5, SwitchInv
<1>6. CASE IsrHalt
  <2>1. \A t \in Task : Listed(t)' <=> Listed(t)
    BY <1>6 DEF IsrHalt, Listed
  <2>2. TypeOK' /\ ListInv' /\ FreedInv' /\ IndexAtMostId'
    BY <1>6, <2>1 DEF IsrHalt, SchedInv, TypeOK, ListInv, FreedInv, IndexAtMostId
  <2>3. ~tasking' /\ halted'
    BY <1>6 DEF IsrHalt
  <2>4. CursorInv' /\ NextIsOther'
    BY <2>3 DEF CursorInv, NextIsOther
  <2>5. ContextInv' /\ BootInv'
    BY <1>6, <2>1, <2>3 DEF IsrHalt, SchedInv, TypeOK, ContextInv, BootInv
  <2> QED BY <2>2, <2>4, <2>5 DEF SchedInv
<1>7. CASE FaultInSyscall
  <2>1. halted' \in BOOLEAN
    BY <1>7 DEF FaultInSyscall
  <2> QED BY <1>7, <2>1, KillInv DEF FaultInSyscall
<1>8. CASE UNCHANGED schedVars
  BY <1>8 DEF schedVars, SchedInv, TypeOK, ListInv, CursorInv, ContextInv, FreedInv,
     IndexAtMostId, BootInv, NextIsOther, Listed
<1> QED
  BY <1>1, <1>2, <1>3, <1>4, <1>5, <1>6, <1>7, <1>8 DEF Next

-----------------------------------------------------------------------------
(* The inductive invariant holds in every reachable state of the           *)
(* scheduler, whatever the number of tasks.                                *)
THEOREM Invariance == Spec => []SchedInv
  BY InitInv, NextInv, PTL DEF Spec

(* Every global and every task struct keeps its type (sched.c:9-12); in    *)
(* particular the cursor and the table's end stay within the entries ever  *)
(* written.                                                                *)
THEOREM TypeCorrect == Spec => []TypeOK
<1>1. SchedInv => TypeOK
  BY DEF SchedInv
<1> QED BY Invariance, <1>1, PTL

(* sched_remove_task keeps the table dense and ordered (sched.c:89-97).    *)
THEOREM TableDense == Spec => []ListInv
<1>1. SchedInv => ListInv
  BY DEF SchedInv
<1> QED BY Invariance, <1>1, PTL

(* What the next timer interrupt resumes is a live task, and index 0 is    *)
(* the idle task (sched.c:108-110).                                        *)
THEOREM ResumesLiveTask == Spec => []CursorInv
<1>1. SchedInv => CursorInv
  BY DEF SchedInv
<1> QED BY Invariance, <1>1, PTL

(* The context on the CPU, cr3 and sched_current_task always belong to one *)
(* listed task (sched.c:104-111).                                          *)
THEOREM ContextsNeverMix == Spec => []ContextInv
<1>1. SchedInv => ContextInv
  BY DEF SchedInv
<1> QED BY Invariance, <1>1, PTL

(* A task leaves the table only when dead and never as the one resumed     *)
(* (sched.c:117-120).                                                      *)
THEOREM OnlyTheDeadAreRemoved == Spec => RemovedOnlyDead
<1>1. SchedInv /\ [Next]_schedVars => [OnlyDeadLeave]_schedVars
  <2> SUFFICES ASSUME SchedInv, Next, NEW t \in Task, Listed(t), ~Listed(t)'
               PROVE  task_state[t] = "DEAD" /\ t # sched_current_task'
    BY DEF OnlyDeadLeave
  <2>1. CASE sched_create_new_task
    <3>1. PICK i \in 0..(sched_tid - 1) : sched_list[i] = t
      BY DEF Listed
    <3>2. i \in 0..(sched_tid' - 1) /\ sched_list'[i] = t
      BY <2>1, <3>1 DEF sched_create_new_task, SchedInv, TypeOK
    <3> QED BY <3>2 DEF Listed
  <2>2. CASE UNCHANGED << sched_list, sched_tid >>
    BY <2>2 DEF Listed
  <2>3. CASE /\ sched_switch /\ task_state[sched_list[NextCursor]] = "DEAD"
             /\ sched_remove_task(NextCursor)
    <3>1. /\ NextCursor \in 0..(sched_tid - 1) /\ sched_cid \in 0..(sched_tid - 1)
          /\ sched_list[0] = Idle /\ task_state[Idle] = "RUNNING"
          /\ NextCursor # 0 => NextCursor = sched_cid + 1
          /\ sched_list[sched_cid] \in Task /\ sched_list[NextCursor] \in Task
      BY <2>3, CursorFacts DEF sched_switch
    <3>2. t = sched_list[NextCursor]
      BY <2>3, <3>1, ShiftFacts DEF SchedInv
    <3>3. sched_list[sched_cid] < sched_list[NextCursor]
      BY <2>3, <3>1 DEF SchedInv, TypeOK, ListInv
    <3> QED BY <2>3, <3>1, <3>2, <3>3 DEF sched_switch
  <2> QED
    BY <2>1, <2>2, <2>3 DEF Next, BootCreate, pit_init, SysCreate, Kill, sched_kill,
       sched_switch, Advance, Reap, IsrHalt, FaultInSyscall
<1> QED BY Invariance, <1>1, PTL DEF Spec, RemovedOnlyDead
=============================================================================
