----------------------------- MODULE TaskLease -----------------------------
(***************************************************************************)
(* What agent_executions promises the rest of the system: a task is leased *)
(* to at most one execution at a time, and a lease passes from one         *)
(* execution to another only through a moment in which the task is free.   *)
(* An execution may be leased the same task again (a row that was reaped   *)
(* while its process was slow is revived), but never while another has it. *)
(***************************************************************************)
CONSTANTS Task, Exec, Null

VARIABLE lease  \* the execution that holds each task, or Null

Free(t) == lease[t] = Null

TypeOK == lease \in [Task -> Exec \cup {Null}]

Init == lease = [t \in Task |-> Null]

Acquire(t, e) ==
    /\ Free(t)
    /\ lease' = [lease EXCEPT ![t] = e]

(* A reaper may end several leases in one transaction.                     *)
Release(S) ==
    /\ \A t \in S : ~Free(t)
    /\ lease' = [t \in Task |-> IF t \in S THEN Null ELSE lease[t]]

Next ==
    \/ \E t \in Task, e \in Exec : Acquire(t, e)
    \/ \E S \in SUBSET Task : Release(S)

Spec == Init /\ [][Next]_lease
=============================================================================
