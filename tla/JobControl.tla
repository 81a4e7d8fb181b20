---------------------------- MODULE JobControl ----------------------------
(***************************************************************************)
(* What running a program from the shell promises, without scheduler,      *)
(* table, pids or signal queue: a shell starts a job, the job finishes     *)
(* with a result once, and the shell collects that job's result, only      *)
(* after it finished.  exec/src/shell.c:99-113 relies on it.               *)
(***************************************************************************)
CONSTANTS Job,     \* the tasks of the system
          Result,  \* what a job can end with
          Nothing  \* no job, no result

VARIABLES waiting,  \* the job each shell waits for, or Nothing
          result,   \* how each job ended, or Nothing
          report    \* what each shell told its user about its last job

jobVars == << waiting, result, report >>

Init == /\ waiting = [s \in Job |-> Nothing]
        /\ result = [j \in Job |-> Nothing]
        /\ report = [s \in Job |-> Nothing]

Start(s, j) == /\ waiting[s] = Nothing
               /\ result[j] = Nothing
               /\ \A t \in Job : waiting[t] # j
               /\ waiting' = [waiting EXCEPT ![s] = j]
               /\ report' = [report EXCEPT ![s] = Nothing]
               /\ UNCHANGED result

Finish(j, r) == /\ result[j] = Nothing
                /\ result' = [result EXCEPT ![j] = r]
                /\ UNCHANGED << waiting, report >>

Collect(s) == /\ waiting[s] # Nothing
              /\ result[waiting[s]] # Nothing
              /\ report' = [report EXCEPT ![s] = result[waiting[s]]]
              /\ waiting' = [waiting EXCEPT ![s] = Nothing]
              /\ UNCHANGED result

Next == \/ \E s, j \in Job : Start(s, j)
        \/ \E j \in Job, r \in Result : Finish(j, r)
        \/ \E s \in Job : Collect(s)

Spec == Init /\ [][Next]_jobVars /\ \A s \in Job : WF_jobVars(Collect(s))
=============================================================================
