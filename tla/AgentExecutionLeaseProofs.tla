--------------------- MODULE AgentExecutionLeaseProofs ----------------------
(***************************************************************************)
(* An active row is a lease on its task, for every number of tasks, rows,  *)
(* processes and requests: at most one is active, the agent execution      *)
(* implements TaskLease, and the columns of the task follow the lease.     *)
(***************************************************************************)
EXTENDS AgentExecutionProofs, FiniteSetTheorems

(* What a step does to the active rows: it ends those in S, or makes e the  *)
(* active row of t when no other row is.                                    *)
EndsOf(S) == \A t \in Task : ActiveOf(t)' = ActiveOf(t) \ S

Leads(t, e) ==
    /\ ActiveOf(t) \subseteq {e} /\ ActiveOf(t)' = {e}
    /\ \A u \in Task \ {t} : ActiveOf(u)' = ActiveOf(u)

ActiveMoves ==
    \/ \E S \in SUBSET Exec : EndsOf(S)
    \/ \E t \in Task, e \in Exec : Leads(t, e)

LEMMA EndsRowsMoves == OnlyEndsRows => ActiveMoves
<1> SUFFICES ASSUME OnlyEndsRows PROVE ActiveMoves
  OBVIOUS
<1> DEFINE S == {e \in Exec : row'[e].status # row[e].status}
<1>1. EndsOf(S)
  BY DEF EndsOf, ActiveOf, OnlyEndsRows, Active, ActiveStatuses
<1> QED BY <1>1 DEF ActiveMoves

LEMMA SameActiveMoves ==
    ASSUME \A e \in Exec : Active(e)' = Active(e) /\ (Active(e) => row'[e].task = row[e].task)
    PROVE  ActiveMoves
<1>1. EndsOf({})
  BY DEF EndsOf, ActiveOf
<1> QED BY <1>1 DEF ActiveMoves

(* Only the insert, the claimer that revives a row and the resume activate  *)
(* one, and the index guards them all.                                      *)
LEMMA NextActiveMoves == RunInv /\ [Next]_vars => ActiveMoves
<1> SUFFICES ASSUME RunInv, [Next]_vars PROVE ActiveMoves
  OBVIOUS
<1> USE DEF RunInv
<1>1. CASE Benign
  BY <1>1, EndsRowsMoves DEF Benign
<1>2. ASSUME NEW c \in Client, NEW e \in Exec, Insert(c, e) PROVE ActiveMoves
  <2> PICK t \in Task : t = req[c].task
    BY <1>2 DEF Insert, TaskKnown
  <2> DEFINE new == [status |-> IF req[c].kind = "stream" THEN "RUNNING" ELSE "PENDING",
                     task |-> t, stream |-> req[c].kind = "stream", owner |-> Null]
  <2>1. CASE IndexAdmits(e, t)
    <3>1. /\ row'[e] = new /\ row[e].status = "UNUSED"
          /\ \A f \in Exec \ {e} : row'[f] = row[f]
      BY <1>2, <2>1 DEF Insert, Typed, TypeOK
    <3>2. new.status \in ActiveStatuses /\ new.task = t
      BY DEF ActiveStatuses
    <3> HIDE DEF new
    <3>3. ActiveOf(t) \subseteq {e}
      BY <2>1 DEF IndexAdmits
    <3>4. ActiveOf(t)' = {e}
      BY <3>1, <3>2, <3>3 DEF ActiveOf, Active
    <3>5. \A u \in Task \ {t} : ActiveOf(u)' = ActiveOf(u)
      BY <3>1, <3>2 DEF ActiveOf, Active, ActiveStatuses
    <3> QED BY <3>3, <3>4, <3>5 DEF ActiveMoves, Leads
  <2>2. CASE ~IndexAdmits(e, t)
    BY <1>2, <2>2, SameRows, EndsRowsMoves DEF Insert
  <2> QED BY <2>1, <2>2
<1>3. ASSUME NEW c \in Client, OpenToInProgress(c) PROVE ActiveMoves
  BY <1>3, SameRows, EndsRowsMoves DEF OpenToInProgress
<1>4. ASSUME NEW e \in Exec, NEW p \in Proc, Claim(e, p) PROVE ActiveMoves
  <2> DEFINE new == [row[e] EXCEPT !.status = "RUNNING", !.owner = <<p, life[p]>>]
  <2>1. row[e] \in Row /\ row[e].status = "PENDING"
    BY <1>4 DEF Claim, Claimable, Typed, TypeOK
  <2>2. row'[e] = new /\ \A f \in Exec \ {e} : row'[f] = row[f]
    BY <1>4 DEF Claim, Typed, TypeOK
  <2>3. new.status = "RUNNING" /\ new.task = row[e].task
    BY <2>1 DEF Row
  <2> HIDE DEF new
  <2> QED BY <2>1, <2>2, <2>3, SameActiveMoves DEF Active, ActiveStatuses
<1>5. ASSUME NEW e \in Exec, NEW p \in Proc, MarkRunning(e, p) PROVE ActiveMoves
  <2>1. CASE UNCHANGED row
    BY <2>1, SameRows, EndsRowsMoves
  <2>2. CASE SetStatus(e, "RUNNING") /\ IndexAdmits(e, row[e].task)
    <3>1. /\ row'[e].status = "RUNNING" /\ row'[e].task = row[e].task
          /\ \A f \in Exec \ {e} : row'[f] = row[f]
      BY <2>2, SetStatusEffect
    <3>2. PICK t \in Task : t = row[e].task
      BY <1>5 DEF MarkRunning, NotStarted, TaskKnown
    <3>3. Leads(t, e)
      BY <2>2, <3>1, <3>2 DEF Leads, ActiveOf, Active, ActiveStatuses, IndexAdmits
    <3> QED BY <3>3 DEF ActiveMoves
  <2> QED BY <1>5, <2>1, <2>2 DEF MarkRunning
<1>6. ASSUME NEW e \in Exec, NEW p \in Proc, SuccessTx(e, p) PROVE ActiveMoves
  <2>1. CASE UNCHANGED row
    BY <2>1, SameRows, EndsRowsMoves
  <2>2. CASE SetStatus(e, "SUCCESS")
    <3>1. /\ row'[e].status = "SUCCESS"
          /\ \A f \in Exec \ {e} : row'[f] = row[f]
      BY <2>2, SetStatusEffect
    <3>2. EndsOf({e})
      BY <3>1 DEF EndsOf, ActiveOf, Active, ActiveStatuses
    <3> QED BY <3>2 DEF ActiveMoves
  <2> QED BY <1>6, <2>1, <2>2 DEF SuccessTx
<1>7. ASSUME NEW e \in Exec, Pause(e) PROVE ActiveMoves
  <2>1. row'[e].status = "PAUSED" /\ \A f \in Exec \ {e} : row'[f] = row[f]
    BY <1>7, SetStatusEffect DEF Pause
  <2>2. EndsOf({e})
    BY <2>1 DEF EndsOf, ActiveOf, Active, ActiveStatuses
  <2> QED BY <2>2 DEF ActiveMoves
<1>8. ASSUME NEW e \in Exec, Resume(e) PROVE ActiveMoves
  <2>1. /\ row'[e].status = "RUNNING" /\ row'[e].task = row[e].task
        /\ \A f \in Exec \ {e} : row'[f] = row[f]
    BY <1>8, SetStatusEffect DEF Resume
  <2>2. PICK t \in Task : t = row[e].task
    BY <1>8 DEF Resume, Listed, TaskKnown
  <2>3. Leads(t, e)
    BY <1>8, <2>1, <2>2 DEF Resume, Leads, ActiveOf, Active, ActiveStatuses, IndexAdmits
  <2> QED BY <2>3 DEF ActiveMoves
<1> QED BY <1>1, <1>2, <1>3, <1>4, <1>5, <1>6, <1>7, <1>8, NextKinds DEF Unusual

-----------------------------------------------------------------------------
(* At most one active row, stated without cardinality.                      *)
UniqueActive == \A t \in Task : \A e, f \in ActiveOf(t) : e = f

LEMMA InitNoneActive == Init => \A t \in Task : ActiveOf(t) = {}
BY DEF Init, ActiveOf, Active, ActiveStatuses

LEMMA UniqueStep == UniqueActive /\ ActiveMoves => UniqueActive'
BY DEF UniqueActive, ActiveMoves, EndsOf, Leads

LEMMA UniqueInvariance == Spec => []UniqueActive
<1>1. Init => UniqueActive
  BY InitNoneActive DEF UniqueActive
<1>2. UniqueActive /\ RunInv /\ [Next]_vars => UniqueActive'
  BY NextActiveMoves, UniqueStep
<1> QED BY <1>1, <1>2, Invariance, PTL DEF Spec

LEMMA UniqueIsOne == UniqueActive => OneActivePerTask
<1> SUFFICES ASSUME UniqueActive, NEW t \in Task
             PROVE  Cardinality(ActiveOf(t)) <= 1
  BY DEF OneActivePerTask
<1>1. CASE ActiveOf(t) = {}
  BY <1>1, FS_EmptySet
<1>2. CASE ActiveOf(t) # {}
  <2>1. PICK e : ActiveOf(t) = {e}
    BY <1>2 DEF UniqueActive
  <2>2. Cardinality({e}) = 1
    BY FS_Singleton
  <2> QED BY <2>1, <2>2
<1> QED BY <1>1, <1>2

(* However the requests of one task race, and whatever a slow claimer or a  *)
(* resume revives, a task never has two active executions.                  *)
THEOREM OneActive == Spec => []OneActivePerTask
BY UniqueInvariance, UniqueIsOne, PTL

-----------------------------------------------------------------------------
(* A step on the active rows is a step on the leases.                       *)
LEMMA LeaseStep ==
    UniqueActive /\ ActiveMoves => Lease!Next \/ UNCHANGED Leases
<1> SUFFICES ASSUME UniqueActive, ActiveMoves
             PROVE  Lease!Next \/ UNCHANGED Leases
  OBVIOUS
<1>1. UniqueActive'
  BY UniqueStep
<1>2. \A t \in Task, e \in Exec : ActiveOf(t) = {e} => Leases[t] = e
  BY DEF Leases, Holder
<1>3. \A t \in Task, e \in Exec : ActiveOf(t)' = {e} => Leases'[t] = e
  BY DEF Leases, Holder
<1>4. \A t \in Task : /\ ActiveOf(t) = {} => Leases[t] = Null
                      /\ ActiveOf(t)' = {} => Leases'[t] = Null
                      /\ ActiveOf(t)' = ActiveOf(t) => Leases'[t] = Leases[t]
  BY DEF Leases
<1>5. ASSUME NEW S \in SUBSET Exec, EndsOf(S) PROVE Lease!Next
  <2> DEFINE R == {t \in Task : ActiveOf(t) # {} /\ ActiveOf(t)' = {}}
  <2>1. \A t \in Task : ActiveOf(t)' = ActiveOf(t) \/ t \in R
    BY <1>5 DEF EndsOf, UniqueActive
  <2>2. \A t \in R : Leases[t] # Null
    <3> SUFFICES ASSUME NEW t \in R PROVE Leases[t] # Null
      OBVIOUS
    <3>1. PICK e \in Exec : ActiveOf(t) = {e}
      BY DEF UniqueActive, ActiveOf
    <3> QED BY <1>2, <3>1, ConstantsAssumption
  <2>3. Leases' = [t \in Task |-> IF t \in R THEN Null ELSE Leases[t]]
    BY <1>4, <2>1 DEF Leases
  <2>4. Lease!Release(R)
    BY <2>2, <2>3 DEF Lease!Release, Lease!Free
  <2> QED BY <2>4 DEF Lease!Next
<1>6. ASSUME NEW t \in Task, NEW e \in Exec, Leads(t, e)
      PROVE  Lease!Next \/ UNCHANGED Leases
  <2>1. CASE ActiveOf(t) = {}
    <3>1. Leases' = [Leases EXCEPT ![t] = e]
      BY <1>3, <1>4, <1>6 DEF Leases, Leads
    <3>2. Lease!Acquire(t, e)
      BY <1>4, <2>1, <3>1 DEF Lease!Acquire, Lease!Free
    <3> QED BY <3>2 DEF Lease!Next
  <2>2. CASE ActiveOf(t) = {e}
    <3>1. \A u \in Task : ActiveOf(u)' = ActiveOf(u)
      BY <1>6, <2>2 DEF Leads
    <3> QED BY <1>4, <3>1 DEF Leases
  <2> QED BY <1>6, <2>1, <2>2 DEF Leads
<1> QED BY <1>5, <1>6 DEF ActiveMoves

(* Every behaviour of the agent execution is one of the lease: each step    *)
(* acquires a free task, ends leases or leaves them alone.                  *)
THEOREM Implementation == Spec => ImplementsTaskLease
<1>1. Init => Lease!Init
  BY InitNoneActive DEF Lease!Init, Leases
<1>2. UniqueActive /\ RunInv /\ [Next]_vars => [Lease!Next]_Leases
  BY NextActiveMoves, LeaseStep
<1> QED BY <1>1, <1>2, Invariance, UniqueInvariance, PTL
        DEF Spec, ImplementsTaskLease, Lease!Spec

-----------------------------------------------------------------------------
(* What the end of a lease does to the two columns of its task.             *)

ColumnsTyped ==
    taskStatus \in [Task -> TaskStatuses] /\ execStatus \in [Task -> ExecutionStatuses]

(* FAILED is written on no task that is COMPLETED.                          *)
NoneFailed ==
    \A t \in Task : execStatus'[t] = "FAILED" /\ execStatus[t] # "FAILED"
                       => taskStatus'[t] # "COMPLETED"

LEMMA FailRowSpares ==
    ASSUME ColumnsTyped, NEW e \in Exec, FailRow(e), UNCHANGED taskStatus
    PROVE  NoneFailed
<1>1. CASE Active(e)
  <2>1. execStatus' = [execStatus EXCEPT ![row[e].task] = TerminatedStatus(row[e].task)]
    BY <1>1 DEF FailRow
  <2>2. \A t \in Task : \/ execStatus'[t] = execStatus[t]
                        \/ execStatus'[t] = TerminatedStatus(t)
    BY <2>1 DEF ColumnsTyped
  <2> QED BY <2>2, ConstantsAssumption DEF NoneFailed, TerminatedStatus
<1>2. CASE ~Active(e)
  BY <1>2 DEF FailRow, NoneFailed
<1> QED BY <1>1, <1>2

LEMMA ReapRowsSpares ==
    ASSUME NEW S, ReapRows(S), UNCHANGED taskStatus
    PROVE  NoneFailed
<1>1. \A t \in Task : \/ execStatus'[t] = execStatus[t]
                      \/ execStatus'[t] = ReapedStatus(t, S)
  BY DEF ReapRows
<1> QED BY <1>1, ConstantsAssumption DEF NoneFailed, ReapedStatus

LEMMA NextSpares == Typed /\ TaskKnown /\ [Next]_vars => NoneFailed
<1> SUFFICES ASSUME Typed, TaskKnown, [Next]_vars PROVE NoneFailed
  OBVIOUS
<1>0. ColumnsTyped
  BY DEF Typed, TypeOK, ColumnsTyped
<1>1. ASSUME UNCHANGED execStatus PROVE NoneFailed
  BY <1>1 DEF NoneFailed
<1>2. ASSUME NEW t \in Task, NEW s \in {"PENDING", "RUNNING", "SUCCESS"},
             execStatus' = [execStatus EXCEPT ![t] = s]
      PROVE  NoneFailed
  <2>1. \A u \in Task : execStatus'[u] = execStatus[u] \/ execStatus'[u] = s
    BY <1>0, <1>2 DEF ColumnsTyped
  <2> QED BY <2>1 DEF NoneFailed
<1>3. ASSUME NEW c \in Client, Begin(c) PROVE NoneFailed
  BY <1>1, <1>3 DEF Begin, BeginExecute, BeginStream, BeginReactor
<1>4. ASSUME NEW c \in Client, Proceed(c) PROVE NoneFailed
  <2>1. CASE \/ CheckActive(c) \/ RequestThrows(c) \/ OpenToInProgress(c) \/ Cleanup(c)
             \/ \E e \in Exec : Insert(c, e)
    BY <1>1, <2>1 DEF CheckActive, RequestThrows, OpenToInProgress, Cleanup, Insert
  <2>2. CASE StreamClaim(c) \/ ClaimTask(c)
    <3>1. req[c].task \in Task
      BY <2>2 DEF StreamClaim, ClaimTask, TaskKnown
    <3> QED BY <1>1, <1>2, <2>2, <3>1 DEF StreamClaim, ClaimTask
  <2>3. CASE CanNeverRun(c)
    <3>1. CASE UNCHANGED execStatus
      BY <1>1, <3>1
    <3>2. CASE execStatus' # execStatus
      <4>1. /\ execStatus' = [execStatus EXCEPT ![req[c].task] = "FAILED"]
            /\ taskStatus[req[c].task] # "COMPLETED" /\ taskStatus' = taskStatus
        BY <2>3, <3>2 DEF CanNeverRun
      <4> QED BY <1>0, <4>1 DEF NoneFailed, ColumnsTyped
    <3> QED BY <3>1, <3>2
  <2> QED BY <1>4, <2>1, <2>2, <2>3 DEF Proceed
<1>5. ASSUME NEW e \in Exec, NEW p \in Proc, Claim(e, p) \/ ClaimThrows(e, p) \/ RunStep(e, p)
      PROVE  NoneFailed
  <2>1. CASE ClaimThrows(e, p) \/ PersistFailure(e, p) \/ SafetyNet(e, p)
    BY <1>0, <2>1, FailRowSpares DEF ClaimThrows, PersistFailure, SafetyNet
  <2>2. CASE \/ Claim(e, p) \/ MarkRunning(e, p) \/ RunThrows(e, p) \/ Finish(e, p)
             \/ PersistFailureThrows(e, p) \/ SafetyNetThrows(e, p)
    BY <1>1, <2>2 DEF Claim, MarkRunning, RunThrows, Finish, PersistFailureThrows,
                      SafetyNetThrows
  <2>3. CASE SuccessTx(e, p)
    <3>1. CASE UNCHANGED execStatus
      BY <1>1, <3>1
    <3>2. CASE execStatus' = [execStatus EXCEPT ![row[e].task] = "SUCCESS"]
      BY <1>0, <3>2 DEF NoneFailed, ColumnsTyped
    <3> QED BY <2>3, <3>1, <3>2 DEF SuccessTx, SucceedTask
  <2> QED BY <1>5, <2>1, <2>2, <2>3 DEF RunStep
<1>6. ASSUME NEW e \in Exec, NEW p \in Proc, Sweep(e, p) PROVE NoneFailed
  BY <1>6, ReapRowsSpares DEF Sweep
<1>7. ASSUME NEW p \in Proc, StartStep(p) \/ Crash(p) \/ Restart(p) PROVE NoneFailed
  BY <1>1, <1>7, ReapRowsSpares
  DEF StartStep, StartScan, StartReap, StartCleanupFails, Crash, Restart
<1>8. ASSUME NEW e \in Exec, Cancel(e) \/ Pause(e) \/ Resume(e) PROVE NoneFailed
  BY <1>1, <1>8 DEF Cancel, Pause, Resume
<1>9. ASSUME NEW t \in Task, Complete(t) PROVE NoneFailed
  BY <1>1, <1>9 DEF Complete
<1>10. CASE UNCHANGED vars
  BY <1>1, <1>10 DEF vars
<1> QED BY <1>3, <1>4, <1>5, <1>6, <1>7, <1>8, <1>9, <1>10 DEF Next

(* COMPLETED tasks stay free of FAILED: every writer of the column reads    *)
(* the task's status in the statement that writes, whatever it read before. *)
THEOREM FailedNeverOnCompleted == Spec => NoFailedOnCompleted
<1>1. RunInv /\ [Next]_vars => [NoneFailed]_vars
  BY NextSpares DEF RunInv
<1> QED BY <1>1, Invariance, PTL DEF Spec, NoFailedOnCompleted, NoneFailed

-----------------------------------------------------------------------------
(* Who ends an active row frees its task.                                   *)
Frees(e) ==
    Active(e) /\ row'[e].status \in {"SUCCESS", "FAILED"}
        => execStatus'[row[e].task] \notin {"PENDING", "RUNNING"}

LEMMA FailRowFrees ==
    ASSUME RunInv, NEW e \in Exec, FailRow(e), NEW f \in Exec
    PROVE  Frees(f)
<1>0. Typed /\ ColumnsTyped
  BY DEF RunInv, Typed, TypeOK, ColumnsTyped
<1>1. CASE ~Active(e)
  BY <1>1 DEF FailRow, Frees, Active, ActiveStatuses
<1>2. CASE Active(e) /\ f # e
  <2>1. row'[f] = row[f]
    BY <1>0, <1>2, SetStatusEffect DEF FailRow
  <2> QED BY <2>1 DEF Frees, Active, ActiveStatuses
<1>3. CASE Active(e) /\ f = e
  <2>1. row[e].task \in Task
    BY <1>3 DEF RunInv, TaskKnown, Active, ActiveStatuses
  <2>2. execStatus'[row[e].task] = TerminatedStatus(row[e].task)
    BY <1>0, <1>3, <2>1 DEF FailRow, ColumnsTyped
  <2> QED BY <1>3, <2>2, ConstantsAssumption DEF TerminatedStatus, Frees
<1> QED BY <1>1, <1>2, <1>3

LEMMA ReapRowsFrees ==
    ASSUME RunInv, UniqueActive, NEW S \in SUBSET Exec, ReapRows(S), NEW f \in Exec
    PROVE  Frees(f)
<1> SUFFICES ASSUME Active(f), row'[f].status \in {"SUCCESS", "FAILED"}
             PROVE  execStatus'[row[f].task] \notin {"PENDING", "RUNNING"}
  BY DEF Frees
<1>1. f \in S
  BY DEF ReapRows, Active, ActiveStatuses
<1>2. row[f].task \in Task
  BY DEF RunInv, TaskKnown, Active, ActiveStatuses
<1>3. ActiveOf(row[f].task) \ S = {}
  <2>1. f \in ActiveOf(row[f].task)
    BY DEF ActiveOf
  <2> QED BY <1>1, <1>2, <2>1 DEF UniqueActive
<1>4. execStatus'[row[f].task] = ReapedStatus(row[f].task, S)
  BY <1>1, <1>2 DEF ReapRows
<1> QED BY <1>3, <1>4, ConstantsAssumption DEF ReapedStatus

LEMMA NextFrees ==
    ASSUME RunInv, UniqueActive, [Next]_vars, NEW f \in Exec
    PROVE  Frees(f) \/ Cancel(f)
<1> USE DEF RunInv
<1>1. ASSUME row'[f].status = row[f].status \/ row'[f].status \notin {"SUCCESS", "FAILED"}
      PROVE  Frees(f)
  BY <1>1 DEF Frees, Active, ActiveStatuses
<1>2. ASSUME NEW c \in Client, Begin(c) PROVE Frees(f)
  BY <1>1, <1>2 DEF Begin, BeginExecute, BeginStream, BeginReactor
<1>3. ASSUME NEW c \in Client, Proceed(c) PROVE Frees(f)
  <2>1. CASE \/ StreamClaim(c) \/ CheckActive(c) \/ CanNeverRun(c) \/ RequestThrows(c)
             \/ OpenToInProgress(c) \/ ClaimTask(c)
    BY <1>1, <2>1 DEF StreamClaim, CheckActive, CanNeverRun, RequestThrows,
                      OpenToInProgress, ClaimTask
  <2>2. ASSUME NEW e \in Exec, Insert(c, e) PROVE Frees(f)
    <3>1. row'[f] = row[f] \/ row'[f].status \in {"PENDING", "RUNNING"}
      BY <2>2 DEF Insert, Typed, TypeOK
    <3> QED BY <1>1, <3>1
  <2>3. CASE Cleanup(c)
    <3>1. CASE UNCHANGED row
      BY <1>1, <3>1
    <3>2. CASE SetStatus(req[c].exec, "DELETED")
      <4>1. row'[f].status \in {row[f].status, "DELETED"}
        BY <3>2 DEF SetStatus, Typed, TypeOK, Row
      <4> QED BY <1>1, <4>1
    <3> QED BY <2>3, <3>1, <3>2 DEF Cleanup
  <2> QED BY <1>3, <2>1, <2>2, <2>3 DEF Proceed
<1>4. ASSUME NEW e \in Exec, NEW p \in Proc, Claim(e, p) \/ ClaimThrows(e, p) \/ RunStep(e, p)
      PROVE  Frees(f)
  <2>1. CASE Claim(e, p)
    <3>1. row'[f] = row[f] \/ row'[f].status = "RUNNING"
      BY <2>1 DEF Claim, Typed, TypeOK, Row
    <3> QED BY <1>1, <3>1
  <2>2. CASE ClaimThrows(e, p) \/ PersistFailure(e, p) \/ SafetyNet(e, p)
    BY <2>2, FailRowFrees DEF ClaimThrows, PersistFailure, SafetyNet
  <2>3. CASE \/ RunThrows(e, p) \/ Finish(e, p)
             \/ PersistFailureThrows(e, p) \/ SafetyNetThrows(e, p)
    BY <1>1, <2>3 DEF RunThrows, Finish, PersistFailureThrows, SafetyNetThrows
  <2>4. CASE MarkRunning(e, p)
    <3>1. row'[f].status \in {row[f].status, "RUNNING"}
      BY <2>4, SetStatusEffect DEF MarkRunning
    <3> QED BY <1>1, <3>1
  <2>5. CASE SuccessTx(e, p)
    <3>1. CASE UNCHANGED row
      BY <1>1, <3>1
    <3>2. CASE SetStatus(e, "SUCCESS") /\ SucceedTask(row[e].task)
      <4>1. CASE f # e
        <5>1. row'[f] = row[f]
          BY <3>2, <4>1, SetStatusEffect
        <5> QED BY <1>1, <5>1
      <4>2. CASE f = e
        BY <3>2, <4>2 DEF SucceedTask, Frees, TaskKnown, Active, ActiveStatuses, Typed, TypeOK
      <4> QED BY <4>1, <4>2
    <3> QED BY <2>5, <3>1, <3>2 DEF SuccessTx
  <2> QED BY <1>4, <2>1, <2>2, <2>3, <2>4, <2>5 DEF RunStep
<1>5. ASSUME NEW e \in Exec, NEW p \in Proc, Sweep(e, p) PROVE Frees(f)
  <2>1. {e} \in SUBSET Exec
    OBVIOUS
  <2> QED BY <1>5, <2>1, ReapRowsFrees DEF Sweep
<1>6. ASSUME NEW p \in Proc, StartStep(p) \/ Crash(p) \/ Restart(p) PROVE Frees(f)
  <2>1. {e \in toReap[p] : row[e].status = "RUNNING"} \in SUBSET Exec
    BY DEF Typed, TypeOK
  <2> QED BY <1>1, <1>6, <2>1, ReapRowsFrees
          DEF StartStep, StartScan, StartReap, StartCleanupFails, Crash, Restart
<1>7. ASSUME NEW e \in Exec, Cancel(e) PROVE Frees(f) \/ Cancel(f)
  <2>1. CASE e = f
    BY <1>7, <2>1
  <2>2. CASE e # f
    <3>1. row'[f] = row[f]
      BY <1>7, <2>2, SetStatusEffect DEF Cancel
    <3> QED BY <1>1, <3>1
  <2> QED BY <2>1, <2>2
<1>8. ASSUME NEW t \in Task, Complete(t) PROVE Frees(f)
  BY <1>1, <1>8 DEF Complete
<1>9. ASSUME NEW e \in Exec, Pause(e) \/ Resume(e) PROVE Frees(f)
  <2>1. row'[f].status \in {row[f].status, "PAUSED", "RUNNING"}
    BY <1>9, SetStatusEffect DEF Pause, Resume
  <2> QED BY <1>1, <2>1
<1>10. CASE UNCHANGED vars
  BY <1>1, <1>10 DEF vars
<1> QED BY <1>2, <1>3, <1>4, <1>5, <1>6, <1>7, <1>8, <1>9, <1>10 DEF Next

(* Whoever ends an active row, the cancel route apart, leaves its task out  *)
(* of PENDING and RUNNING: that a reaper finds no other active row of the   *)
(* task, which would make it keep the column, is OneActive.                 *)
THEOREM EndedIsFreed == Spec => TerminalFreesTask
<1> DEFINE Freed == \A e \in Exec : Active(e) /\ row'[e].status \in {"SUCCESS", "FAILED"}
                     => \/ Cancel(e)
                        \/ execStatus'[row[e].task] \notin {"PENDING", "RUNNING"}
<1>1. RunInv /\ UniqueActive /\ [Next]_vars => [Freed]_vars
  BY NextFrees DEF Frees
<1> QED BY <1>1, Invariance, UniqueInvariance, PTL DEF Spec, TerminalFreesTask

-----------------------------------------------------------------------------
(* Without the stream route, whose claim writes a status it has computed    *)
(* from an earlier read, COMPLETED is terminal.                             *)
NoStreamClaim == \A c \in Client : req[c].step # "streamClaim"

LEMMA NextNoStreamClaim ==
    ASSUME "stream" \notin Entry, Typed, NoStreamClaim, [Next]_vars
    PROVE  NoStreamClaim'
<1>0. req \in [Client -> Request] /\ \A d \in Client : req[d] \in Request
  BY DEF Typed, TypeOK
<1>1. ASSUME NEW c \in Client, Answer(c) PROVE NoStreamClaim'
  BY <1>1, AnswerEffect DEF NoStreamClaim, NoRequest
<1>2. ASSUME NEW c \in Client, NEW s \in ReqSteps \ {"streamClaim"}, Step(c, s)
      PROVE  NoStreamClaim'
  <2>1. req'[c] = [req[c] EXCEPT !.step = s] /\ \A d \in Client \ {c} : req'[d] = req[d]
    BY <1>2, StepEffect
  <2>2. req'[c].step = s
    BY <1>0, <2>1 DEF Request
  <2> QED BY <1>2, <2>1, <2>2 DEF NoStreamClaim
<1>3. ASSUME UNCHANGED req PROVE NoStreamClaim'
  BY <1>3 DEF NoStreamClaim
<1>4. ASSUME NEW c \in Client, Begin(c) PROVE NoStreamClaim'
  <2> PICK p \in Proc, t \in Task :
         \/ \E kind \in {"execute", "rest"} : BeginExecute(c, kind, p, t)
         \/ BeginStream(c, p, t)
         \/ BeginReactor(c, p, t)
    BY <1>4 DEF Begin
  <2>1. ASSUME NEW kind, Arrive(c, kind, p, t, "create") PROVE NoStreamClaim'
    BY <1>0, <2>1 DEF Arrive, NoStreamClaim
  <2> QED BY <1>1, <2>1 DEF BeginExecute, BeginStream, BeginReactor
<1>5. ASSUME NEW c \in Client, Proceed(c) PROVE NoStreamClaim'
  <2>1. CASE \/ CheckActive(c) \/ CanNeverRun(c) \/ RequestThrows(c)
             \/ OpenToInProgress(c) \/ ClaimTask(c) \/ Cleanup(c)
    BY <1>1, <1>2, <2>1 DEF CheckActive, CanNeverRun, RequestThrows, OpenToInProgress,
                            ClaimTask, Cleanup, ReqSteps
  <2>2. ASSUME NEW e \in Exec, Insert(c, e) PROVE NoStreamClaim'
    <3>1. CASE req' = [req EXCEPT ![c].step = "opening", ![c].exec = e]
      <4>1. req'[c].step = "opening" /\ \A d \in Client \ {c} : req'[d] = req[d]
        BY <1>0, <3>1 DEF Request
      <4> QED BY <4>1 DEF NoStreamClaim
    <3> QED BY <1>1, <2>2, <3>1 DEF Insert
  <2>3. ~StreamClaim(c)
    BY DEF StreamClaim, NoStreamClaim
  <2> QED BY <1>5, <2>1, <2>2, <2>3 DEF Proceed
<1>6. ASSUME NEW e \in Exec, NEW p \in Proc,
             Claim(e, p) \/ ClaimThrows(e, p) \/ RunStep(e, p) \/ Sweep(e, p)
      PROVE  NoStreamClaim'
  BY <1>3, <1>6 DEF Claim, ClaimThrows, RunStep, MarkRunning, RunThrows, SuccessTx, Finish,
     PersistFailure, PersistFailureThrows, SafetyNet, SafetyNetThrows, Sweep
<1>7. ASSUME NEW p \in Proc, StartStep(p) \/ Restart(p) PROVE NoStreamClaim'
  BY <1>3, <1>7 DEF StartStep, StartScan, StartReap, StartCleanupFails, Restart
<1>8. ASSUME NEW p \in Proc, Crash(p) PROVE NoStreamClaim'
  BY <1>8 DEF Crash, NoStreamClaim, NoRequest
<1>9. CASE \/ \E e \in Exec : Cancel(e) \/ Pause(e) \/ Resume(e)
           \/ \E t \in Task : Complete(t)
           \/ UNCHANGED vars
  BY <1>3, <1>9 DEF Cancel, Pause, Resume, Complete, vars
<1> QED BY <1>4, <1>5, <1>6, <1>7, <1>8, <1>9 DEF Next

CompletedKept ==
    \A t \in Task : taskStatus[t] = "COMPLETED" => taskStatus'[t] = "COMPLETED"

LEMMA NextKeepsCompleted ==
    ASSUME Typed, NoStreamClaim, [Next]_vars
    PROVE  CompletedKept
<1>0. taskStatus \in [Task -> TaskStatuses]
  BY DEF Typed, TypeOK
<1>1. ASSUME UNCHANGED taskStatus PROVE CompletedKept
  BY <1>1 DEF CompletedKept
<1>2. ASSUME NEW t, taskStatus' = [taskStatus EXCEPT ![t] = "COMPLETED"] PROVE CompletedKept
  BY <1>0, <1>2 DEF CompletedKept
<1>3. ASSUME NEW c \in Client, Begin(c) PROVE CompletedKept
  BY <1>1, <1>3 DEF Begin, BeginExecute, BeginStream, BeginReactor
<1>4. ASSUME NEW c \in Client, Proceed(c) PROVE CompletedKept
  <2>1. CASE OpenToInProgress(c)
    BY <1>0, <2>1 DEF OpenToInProgress, Started, CompletedKept
  <2>2. ~StreamClaim(c)
    BY DEF StreamClaim, NoStreamClaim
  <2> QED BY <1>1, <1>4, <2>1, <2>2 DEF Proceed, CheckActive, CanNeverRun, RequestThrows,
                                      Insert, ClaimTask, Cleanup
<1>5. ASSUME NEW e \in Exec, NEW p \in Proc,
             Claim(e, p) \/ ClaimThrows(e, p) \/ RunStep(e, p) \/ Sweep(e, p)
      PROVE  CompletedKept
  BY <1>1, <1>2, <1>5 DEF Claim, ClaimThrows, RunStep, MarkRunning, RunThrows, SuccessTx,
     SucceedTask, Finish, PersistFailure, PersistFailureThrows, SafetyNet, SafetyNetThrows, Sweep
<1>6. ASSUME NEW p \in Proc, StartStep(p) \/ Crash(p) \/ Restart(p) PROVE CompletedKept
  BY <1>1, <1>6 DEF StartStep, StartScan, StartReap, StartCleanupFails, Crash, Restart
<1>7. CASE \/ \E e \in Exec : Cancel(e) \/ Pause(e) \/ Resume(e)
           \/ \E t \in Task : Complete(t)
           \/ UNCHANGED vars
  BY <1>1, <1>2, <1>7 DEF Cancel, Pause, Resume, Complete, vars
<1> QED BY <1>3, <1>4, <1>5, <1>6, <1>7 DEF Next

LEMMA NoStreamClaimInvariance ==
    ASSUME "stream" \notin Entry
    PROVE  Spec => []NoStreamClaim
<1>1. Init => NoStreamClaim
  BY DEF Init, NoStreamClaim, NoRequest
<1>2. RunInv /\ NoStreamClaim /\ [Next]_vars => NoStreamClaim'
  BY NextNoStreamClaim DEF RunInv
<1> QED BY <1>1, <1>2, Invariance, PTL DEF Spec

(* Without the stream route nothing reopens a COMPLETED task, whatever      *)
(* starts, fails or is reaped afterwards.                                   *)
THEOREM CompletedStays ==
    ASSUME "stream" \notin Entry
    PROVE  Spec => CompletedIsTerminal
<1>1. RunInv /\ NoStreamClaim /\ [Next]_vars => [CompletedKept]_vars
  BY NextKeepsCompleted DEF RunInv
<1> QED BY <1>1, Invariance, NoStreamClaimInvariance, PTL
        DEF Spec, CompletedIsTerminal, CompletedKept

(* Only the success persist, which completes the task in the same           *)
(* transaction, makes a row a SUCCESS.                                      *)
LEMMA SuccessIsNew ==
    ASSUME RunInv, [Next]_vars, NEW f \in Exec, row'[f].status = "SUCCESS"
    PROVE  /\ row'[f].task = row[f].task /\ row[f].status # "UNUSED"
           /\ row[f].status = "SUCCESS" \/ taskStatus'[row[f].task] = "COMPLETED"
<1> USE DEF RunInv
<1>1. CASE Benign
  BY <1>1 DEF Benign, OnlyEndsRows
<1>2. ASSUME NEW c \in Client, NEW e \in Exec, Insert(c, e)
      PROVE  row'[f] = row[f]
  BY <1>2 DEF Insert, Typed, TypeOK
<1>3. ASSUME NEW c \in Client, OpenToInProgress(c)
      PROVE  row'[f] = row[f]
  BY <1>3 DEF OpenToInProgress
<1>4. ASSUME NEW e \in Exec, NEW p \in Proc, Claim(e, p)
      PROVE  row'[f] = row[f]
  BY <1>4 DEF Claim, Typed, TypeOK, Row
<1>5. ASSUME NEW e \in Exec, NEW p \in Proc, MarkRunning(e, p)
      PROVE  row'[f] = row[f]
  BY <1>5, SetStatusEffect DEF MarkRunning
<1>6. ASSUME NEW e \in Exec, NEW p \in Proc, SuccessTx(e, p), row'[f] # row[f]
      PROVE  /\ row'[f].task = row[f].task /\ row[f].status # "UNUSED"
             /\ taskStatus'[row[f].task] = "COMPLETED"
  <2>1. SetStatus(e, "SUCCESS") /\ SucceedTask(row[e].task) /\ Running(e, p)
    BY <1>6 DEF SuccessTx, Running
  <2>2. f = e /\ row'[f].task = row[f].task
    BY <1>6, <2>1, SetStatusEffect
  <2>3. row[f].status # "UNUSED" /\ row[f].task \in Task
    BY <2>1, <2>2 DEF NotStarted, Running, TaskKnown
  <2> QED BY <2>1, <2>2, <2>3 DEF SucceedTask, Typed, TypeOK
<1>7. ASSUME row'[f] = row[f]
      PROVE  /\ row'[f].task = row[f].task /\ row[f].status # "UNUSED"
             /\ row[f].status = "SUCCESS"
  BY <1>7
<1>8. ASSUME NEW e \in Exec, Pause(e) \/ Resume(e)
      PROVE  row'[f] = row[f]
  BY <1>8, SetStatusEffect DEF Pause, Resume
<1> QED BY <1>1, <1>2, <1>3, <1>4, <1>5, <1>6, <1>7, <1>8, NextKinds DEF Unusual

(* ... and so the task of a row that succeeded is COMPLETED.                *)
THEOREM SucceededIsCompleted ==
    ASSUME "stream" \notin Entry
    PROVE  Spec => []SuccessMeansCompleted
<1>1. Init => SuccessMeansCompleted
  BY DEF Init, SuccessMeansCompleted
<1>2. RunInv /\ NoStreamClaim /\ SuccessMeansCompleted /\ [Next]_vars => SuccessMeansCompleted'
  <2> SUFFICES ASSUME RunInv, NoStreamClaim, SuccessMeansCompleted, [Next]_vars,
                      NEW f \in Exec, row'[f].status = "SUCCESS"
               PROVE  taskStatus'[row'[f].task] = "COMPLETED"
    BY DEF SuccessMeansCompleted
  <2>1. row'[f].task = row[f].task /\ row[f].task \in Task
    BY SuccessIsNew DEF RunInv, TaskKnown
  <2>2. CASE row[f].status = "SUCCESS"
    BY <2>1, <2>2, NextKeepsCompleted DEF RunInv, CompletedKept, SuccessMeansCompleted
  <2> QED BY <2>1, <2>2, SuccessIsNew
<1> QED BY <1>1, <1>2, Invariance, NoStreamClaimInvariance, PTL DEF Spec
=============================================================================
