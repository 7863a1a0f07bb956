------------------------ MODULE AgentExecutionProofs ------------------------
(***************************************************************************)
(* What holds of AgentExecution for every number of tasks, rows, processes *)
(* and requests, whichever entry points are used: types, exclusive runs,   *)
(* which writers undo a success, and that a start-up spares stamped live   *)
(* runs.                                                                   *)
(***************************************************************************)
EXTENDS AgentExecution, TLAPS

(* A process that is down may still be restarted: what Restart needs to     *)
(* keep its incarnation within the bound.                                   *)
Restartable == \A p \in Proc : boot[p] = "down" => life[p] < MaxRestart

Typed == TypeOK /\ Restartable

-----------------------------------------------------------------------------
(* Initially everything has its type and no process is down.                *)
LEMMA InitTyped == Init => Typed
BY ConstantsAssumption DEF Init, Typed, Restartable, TypeOK, Row, RowStatuses, Stamp, Request,
   ReqSteps, NoRequest, TaskStatuses, ExecutionStatuses, RunSteps

(* A run may be sent to any of its steps, and a row given any status: the   *)
(* types of both survive, also for an index outside of the domain.          *)
LEMMA GotoTyped ==
    ASSUME run \in [Exec -> [Proc -> RunSteps]],
           NEW e, NEW p, NEW s \in RunSteps, Goto(e, p, s)
    PROVE  run' \in [Exec -> [Proc -> RunSteps]]
<1>1. [run[e] EXCEPT ![p] = s] \in [Proc -> RunSteps] \/ e \notin Exec
  OBVIOUS
<1>2. run' = [run EXCEPT ![e] = [run[e] EXCEPT ![p] = s]]
  BY DEF Goto
<1> QED BY <1>1, <1>2

LEMMA SetStatusTyped ==
    ASSUME row \in [Exec -> Row], NEW e, NEW s \in RowStatuses, SetStatus(e, s)
    PROVE  row' \in [Exec -> Row]
<1>1. [row[e] EXCEPT !.status = s] \in Row \/ e \notin Exec
  BY DEF Row
<1>2. row' = [row EXCEPT ![e] = [row[e] EXCEPT !.status = s]]
  BY DEF SetStatus
<1> QED BY <1>1, <1>2

(* The steps of a request keep the types.                                   *)
LEMMA ProceedTyped ==
    ASSUME Typed, NEW c \in Client, Begin(c) \/ Proceed(c)
    PROVE  Typed'
<1> USE ConstantsAssumption DEF Typed, Restartable, TypeOK
<1>1. Answer(c) => req' \in [Client -> Request]
  BY DEF Answer, NoRequest, Request, ReqSteps
<1>2. ASSUME NEW s \in ReqSteps, Step(c, s)
      PROVE  req' \in [Client -> Request]
  <2>1. req[c] \in Request
    OBVIOUS
  <2>2. [req[c] EXCEPT !.step = s] \in Request
    BY <2>1 DEF Request
  <2>3. req' = [req EXCEPT ![c] = [req[c] EXCEPT !.step = s]]
    BY <1>2 DEF Step
  <2> QED BY <2>2, <2>3
<1>3. CASE Begin(c)
  <2> PICK p \in Proc, t \in Task :
         \/ \E kind \in {"execute", "rest"} : BeginExecute(c, kind, p, t)
         \/ BeginStream(c, p, t)
         \/ BeginReactor(c, p, t)
    BY <1>3 DEF Begin
  <2>1. \A kind \in Creators, s \in ReqSteps :
           Arrive(c, kind, p, t, s) => req' \in [Client -> Request]
    BY DEF Arrive, Request, Creators
  <2>2. UNCHANGED <<row, taskStatus, execStatus, run, boot, life, toReap>>
    BY DEF BeginExecute, BeginStream, BeginReactor
  <2>3. req' \in [Client -> Request]
    BY <1>1, <2>1 DEF BeginExecute, BeginStream, BeginReactor, Creators, ReqSteps
  <2> QED BY <2>2, <2>3
<1>4. CASE StreamClaim(c)
  <2>1. req' \in [Client -> Request]
    BY <1>1, <1>2, <1>4 DEF StreamClaim, ReqSteps
  <2> QED BY <1>4, <2>1 DEF StreamClaim, TaskStatuses, ExecutionStatuses
<1>5. CASE CheckActive(c)
  BY <1>1, <1>2, <1>5 DEF CheckActive, ReqSteps
<1>6. CASE CanNeverRun(c)
  BY <1>1, <1>6 DEF CanNeverRun, ExecutionStatuses
<1>7. CASE RequestThrows(c)
  BY <1>1, <1>7 DEF RequestThrows
<1>8. ASSUME NEW e \in Exec, Insert(c, e) PROVE Typed'
  <2>1. CASE IndexAdmits(e, req[c].task)
    <3>1. req' \in [Client -> Request]
      <4>1. req[c] \in Request
        OBVIOUS
      <4>2. [req[c] EXCEPT !.step = "opening", !.exec = e] \in Request
        BY <4>1 DEF Request, ReqSteps
      <4>3. req' = [req EXCEPT ![c] = [req[c] EXCEPT !.step = "opening", !.exec = e]]
        BY <1>8, <2>1 DEF Insert
      <4> QED BY <4>2, <4>3
    <3>2. row' \in [Exec -> Row]
      <4> DEFINE new == [status |-> IF req[c].kind = "stream" THEN "RUNNING" ELSE "PENDING",
                         task |-> req[c].task, stream |-> req[c].kind = "stream",
                         owner |-> Null]
      <4>1. req[c].task \in Task \cup {Null}
        BY DEF Request
      <4>2. new \in Row
        BY <4>1 DEF Row, RowStatuses
      <4>3. row' = [row EXCEPT ![e] = new]
        BY <1>8, <2>1 DEF Insert
      <4> QED BY <4>2, <4>3
    <3> QED BY <1>8, <3>1, <3>2 DEF Insert
  <2>2. CASE ~IndexAdmits(e, req[c].task)
    BY <1>1, <1>8, <2>2 DEF Insert
  <2> QED BY <2>1, <2>2
<1>9. CASE OpenToInProgress(c)
  <2>1. req' \in [Client -> Request]
    BY <1>1, <1>2, <1>9 DEF OpenToInProgress, ReqSteps
  <2>2. run' \in [Exec -> [Proc -> RunSteps]]
    BY <1>9, GotoTyped DEF OpenToInProgress, RunSteps
  <2> QED BY <1>9, <2>1, <2>2 DEF OpenToInProgress, Started, TaskStatuses
<1>10. CASE ClaimTask(c)
  BY <1>1, <1>2, <1>10 DEF ClaimTask, ReqSteps, ExecutionStatuses
<1>11. CASE Cleanup(c)
  BY <1>1, <1>11, SetStatusTyped DEF Cleanup, RowStatuses
<1> QED
  BY <1>3, <1>4, <1>5, <1>6, <1>7, <1>8, <1>9, <1>10, <1>11 DEF Proceed

(* Both ways to end a row leave rows and tasks well typed.                  *)
LEMMA FailRowTyped ==
    ASSUME Typed, NEW e \in Exec, FailRow(e)
    PROVE  /\ row' \in [Exec -> Row]
           /\ execStatus' \in [Task -> ExecutionStatuses]
<1> USE DEF Typed, TypeOK
<1>1. CASE Active(e)
  <2>1. row' \in [Exec -> Row]
    BY <1>1, SetStatusTyped DEF FailRow, RowStatuses
  <2>2. TerminatedStatus(row[e].task) \in ExecutionStatuses
    BY DEF TerminatedStatus, ExecutionStatuses
  <2> QED BY <1>1, <2>1, <2>2 DEF FailRow
<1>2. CASE ~Active(e)
  BY <1>2 DEF FailRow
<1> QED BY <1>1, <1>2

LEMMA ReapRowsTyped ==
    ASSUME Typed, NEW S \in SUBSET Exec, ReapRows(S)
    PROVE  /\ row' \in [Exec -> Row]
           /\ execStatus' \in [Task -> ExecutionStatuses]
<1> USE DEF Typed, TypeOK
<1>1. ASSUME NEW e \in Exec
      PROVE  [row[e] EXCEPT !.status = "FAILED"] \in Row
  <2>1. row[e] \in Row
    OBVIOUS
  <2> QED BY <2>1 DEF Row, RowStatuses
<1>2. ASSUME NEW t \in Task
      PROVE  ReapedStatus(t, S) \in ExecutionStatuses
  BY DEF ReapedStatus, ExecutionStatuses
<1> QED BY <1>1, <1>2 DEF ReapRows

(* The steps of the engine and of the sweep keep the types.                 *)
LEMMA RunTyped ==
    ASSUME Typed, NEW e \in Exec, NEW p \in Proc,
           Claim(e, p) \/ ClaimThrows(e, p) \/ RunStep(e, p) \/ Sweep(e, p)
    PROVE  Typed'
<1> USE ConstantsAssumption DEF Typed, Restartable, TypeOK
<1>1. CASE Claim(e, p)
  <2> DEFINE new == [row[e] EXCEPT !.status = "RUNNING", !.owner = <<p, life[p]>>]
  <2>1. row[e] \in Row /\ <<p, life[p]>> \in Stamp
    BY DEF Stamp
  <2>2. new \in Row
    BY <2>1 DEF Row, RowStatuses
  <2>3. row' = [row EXCEPT ![e] = new]
    BY <1>1 DEF Claim
  <2>4. row' \in [Exec -> Row]
    BY <2>2, <2>3
  <2>5. run' \in [Exec -> [Proc -> RunSteps]]
    BY <1>1, GotoTyped DEF Claim, RunSteps
  <2> QED BY <1>1, <2>4, <2>5 DEF Claim
<1>2. CASE ClaimThrows(e, p)
  BY <1>2, FailRowTyped DEF ClaimThrows
<1>3. CASE MarkRunning(e, p)
  BY <1>3, GotoTyped, SetStatusTyped DEF MarkRunning, RunSteps, RowStatuses
<1>4. CASE RunThrows(e, p)
  BY <1>4, GotoTyped DEF RunThrows, RunSteps
<1>5. CASE SuccessTx(e, p)
  <2>1. run' \in [Exec -> [Proc -> RunSteps]]
    BY <1>5, GotoTyped DEF SuccessTx, RunSteps
  <2>2. row' \in [Exec -> Row]
    BY <1>5, SetStatusTyped DEF SuccessTx, RowStatuses
  <2> QED BY <1>5, <2>1, <2>2 DEF SuccessTx, SucceedTask, TaskStatuses, ExecutionStatuses
<1>6. CASE Finish(e, p)
  BY <1>6, GotoTyped DEF Finish, RunSteps
<1>7. CASE PersistFailure(e, p) \/ PersistFailureThrows(e, p)
  <2>1. run' \in [Exec -> [Proc -> RunSteps]]
    BY <1>7, GotoTyped DEF PersistFailure, PersistFailureThrows, AfterFailure, RunSteps
  <2> QED BY <1>7, <2>1, FailRowTyped DEF PersistFailure, PersistFailureThrows
<1>8. CASE SafetyNet(e, p) \/ SafetyNetThrows(e, p)
  <2>1. run' \in [Exec -> [Proc -> RunSteps]]
    BY <1>8, GotoTyped DEF SafetyNet, SafetyNetThrows, RunSteps
  <2> QED BY <1>8, <2>1, FailRowTyped DEF SafetyNet, SafetyNetThrows
<1>9. CASE Sweep(e, p)
  <2>1. {e} \in SUBSET Exec
    OBVIOUS
  <2> QED BY <1>9, <2>1, ReapRowsTyped DEF Sweep
<1> QED
  BY <1>1, <1>2, <1>3, <1>4, <1>5, <1>6, <1>7, <1>8, <1>9 DEF RunStep

(* The steps of a starting, dying or restarted process keep the types.      *)
LEMMA ProcessTyped ==
    ASSUME Typed, NEW p \in Proc, StartStep(p) \/ Crash(p) \/ Restart(p)
    PROVE  Typed'
<1> USE ConstantsAssumption DEF Typed, Restartable, TypeOK
<1>1. CASE StartScan(p)
  <2> PICK old \in SUBSET Unstamped(p) :
         toReap' = [toReap EXCEPT ![p] = old \cup
              {e \in Exec : /\ row[e].status = "RUNNING"
                            /\ row[e].owner # Null
                            /\ Orphaned(row[e].owner)}]
    BY <1>1 DEF StartScan
  <2>1. Unstamped(p) \subseteq Exec
    BY DEF Unstamped
  <2> QED BY <1>1, <2>1 DEF StartScan
<1>2. CASE StartReap(p)
  <2>1. {e \in toReap[p] : row[e].status = "RUNNING"} \in SUBSET Exec
    OBVIOUS
  <2> QED BY <1>2, <2>1, ReapRowsTyped DEF StartReap
<1>3. CASE StartCleanupFails(p)
  BY <1>3 DEF StartCleanupFails
<1>4. CASE Crash(p)
  <2>1. \A e \in Exec : [run[e] EXCEPT ![p] = "none"] \in [Proc -> RunSteps]
    BY DEF RunSteps
  <2>2. NoRequest \in Request
    BY DEF NoRequest, Request, ReqSteps
  <2> QED BY <1>4, <2>1, <2>2 DEF Crash
<1>5. CASE Restart(p)
  BY <1>5 DEF Restart
<1> QED
  BY <1>1, <1>2, <1>3, <1>4, <1>5 DEF StartStep

LEMMA NextTyped == Typed /\ [Next]_vars => Typed'
<1> SUFFICES ASSUME Typed, [Next]_vars PROVE Typed'
  OBVIOUS
<1>1. ASSUME NEW e \in Exec, Cancel(e) \/ Pause(e) \/ Resume(e) PROVE Typed'
  BY <1>1, SetStatusTyped DEF Cancel, Pause, Resume, RowStatuses, Typed, Restartable, TypeOK
<1>2. ASSUME NEW t \in Task, Complete(t) PROVE Typed'
  BY <1>2 DEF Complete, TaskStatuses, Typed, Restartable, TypeOK
<1>3. CASE UNCHANGED vars
  BY <1>3 DEF vars, Typed, Restartable, TypeOK
<1> QED
  BY <1>1, <1>2, <1>3, ProceedTyped, RunTyped, ProcessTyped DEF Next

(* Rows, tasks, requests, runs and processes keep their types in every      *)
(* behaviour, whatever throws, crashes or is restarted.                     *)
THEOREM TypeCorrect == Spec => []TypeOK
<1>1. Spec => []Typed
  BY InitTyped, NextTyped, PTL DEF Spec
<1>2. Typed => TypeOK
  BY DEF Typed
<1> QED BY <1>1, <1>2, PTL

-----------------------------------------------------------------------------
(* Who runs a row.                                                          *)

(* A row that is not there yet, or still waits, is in nobody's hands ...    *)
NotStarted ==
    \A e \in Exec, p \in Proc :
        row[e].status \in {"UNUSED", "PENDING"} => run[e][p] = "none"

(* ... a row was inserted by one request ...                                *)
RequestOwnsRow ==
    /\ \A c, d \in Client : req[c].exec # Null /\ req[c].exec = req[d].exec => c = d
    /\ \A c \in Client, e \in Exec : req[c].exec = e => row[e].status # "UNUSED"

(* ... which, if it streams, alone starts the run and has not done so ...   *)
StreamNotStarted ==
    \A c \in Client, e \in Exec, p \in Proc :
        req[c].exec = e /\ req[c].kind = "stream"
            => row[e].status # "PENDING" /\ run[e][p] = "none"

(* ... and once the row holds SUCCESS, its claimer is past the claim.       *)
NoClaimAfterSuccess ==
    \A e \in Exec, p \in Proc : row[e].status = "SUCCESS" => run[e][p] # "claimed"

TaskKnown ==
    /\ \A e \in Exec : row[e].status # "UNUSED" => row[e].task \in Task
    /\ \A c \in Client : req[c].step # "idle" => req[c].task \in Task

RunInv ==
    /\ Typed
    /\ NotStarted
    /\ RequestOwnsRow
    /\ StreamNotStarted
    /\ NoClaimAfterSuccess
    /\ TaskKnown
    /\ SingleRunner

LEMMA InitRunInv == Init => RunInv
<1> SUFFICES ASSUME Init PROVE RunInv
  OBVIOUS
<1>1. Typed
  BY InitTyped
<1> QED
  BY <1>1, ConstantsAssumption
  DEF Init, RunInv, NotStarted, RequestOwnsRow, StreamNotStarted, NoClaimAfterSuccess,
      TaskKnown, SingleRunner, Running, NoRequest

(* Most steps only end rows, end runs, begin requests and move them on.     *)
OnlyEndsRows ==
    \A e \in Exec :
        /\ row'[e].task = row[e].task
        /\ \/ row'[e].status = row[e].status
           \/ row'[e].status = "FAILED" /\ Active(e)
           \/ row'[e].status = "DELETED" /\ row[e].status # "UNUSED"

OnlyEndsRuns ==
    \A e \in Exec, p \in Proc :
        \/ run'[e][p] \in {run[e][p], "none"}
        \/ run'[e][p] \in {"failing", "net"} /\ run[e][p] # "none"

OnlyMovesRequests ==
    \A c \in Client :
        \/ req'[c] \in {req[c], NoRequest}
        \/ req'[c].exec = Null /\ req'[c].task \in Task
        \/ /\ req[c].step # "idle"
           /\ \E s \in ReqSteps : req'[c] = [req[c] EXCEPT !.step = s]

Benign == OnlyEndsRows /\ OnlyEndsRuns /\ OnlyMovesRequests

LEMMA BenignStep ==
    ASSUME RunInv, Typed', Benign
    PROVE  RunInv'
<1> USE DEF RunInv, Benign
<1>1. req \in [Client -> Request] /\ req' \in [Client -> Request]
  BY DEF Typed, TypeOK
<1>2. \A c \in Client :
         \/ req'[c].exec = Null
         \/ req'[c].exec = req[c].exec /\ req'[c].kind = req[c].kind
  BY <1>1 DEF OnlyMovesRequests, NoRequest, Request
<1>3. \A c \in Client : req'[c].step # "idle" => req'[c].task \in Task
  BY <1>1 DEF OnlyMovesRequests, NoRequest, Request, TaskKnown
<1>4. \A e \in Exec, p \in Proc : run[e][p] = "none" => run'[e][p] = "none"
  BY DEF OnlyEndsRuns
<1>5. Null \notin Exec
  BY ConstantsAssumption
<1>6. NotStarted'
  BY <1>4 DEF NotStarted, OnlyEndsRows, Active, ActiveStatuses
<1>7. RequestOwnsRow'
  BY <1>2, <1>5 DEF RequestOwnsRow, OnlyEndsRows, Active, ActiveStatuses
<1>8. StreamNotStarted'
  BY <1>2, <1>4, <1>5 DEF StreamNotStarted, OnlyEndsRows
<1>9. NoClaimAfterSuccess'
  BY DEF NoClaimAfterSuccess, OnlyEndsRows, OnlyEndsRuns
<1>10. TaskKnown'
  BY <1>3 DEF TaskKnown, OnlyEndsRows, Active, ActiveStatuses
<1>11. SingleRunner'
  BY DEF SingleRunner, Running, OnlyEndsRuns
<1> QED BY <1>6, <1>7, <1>8, <1>9, <1>10, <1>11

LEMMA FailRowEndsRows ==
    ASSUME Typed, NEW e \in Exec, FailRow(e)
    PROVE  OnlyEndsRows
<1>1. \A f \in Exec : row[f] \in Row
  BY DEF Typed, TypeOK
<1>2. CASE Active(e)
  <2>1. row' = [row EXCEPT ![e] = [row[e] EXCEPT !.status = "FAILED"]]
    BY <1>2 DEF FailRow, SetStatus
  <2>2. row \in [Exec -> Row]
    BY DEF Typed, TypeOK
  <2> QED BY <1>1, <1>2, <2>1, <2>2 DEF OnlyEndsRows, Row, Active, ActiveStatuses
<1>3. CASE ~Active(e)
  BY <1>3 DEF FailRow, OnlyEndsRows
<1> QED BY <1>2, <1>3

LEMMA ReapRowsEndsRows ==
    ASSUME Typed, NEW S \in SUBSET Exec, \A e \in S : Active(e), ReapRows(S)
    PROVE  OnlyEndsRows
<1>1. \A e \in Exec : row[e] \in Row
  BY DEF Typed, TypeOK
<1> QED BY <1>1 DEF ReapRows, OnlyEndsRows, Row, Active, ActiveStatuses

LEMMA SameRows == UNCHANGED row => OnlyEndsRows
BY DEF OnlyEndsRows

LEMMA SameRuns == UNCHANGED run => OnlyEndsRuns
BY DEF OnlyEndsRuns

LEMMA SameRequests == UNCHANGED req => OnlyMovesRequests
BY DEF OnlyMovesRequests

(* What the helpers that write the state do to it, in terms of its parts.   *)
LEMMA SetStatusEffect ==
    ASSUME Typed, NEW e \in Exec, NEW s, SetStatus(e, s)
    PROVE  /\ row'[e].status = s /\ row'[e].task = row[e].task
           /\ \A f \in Exec \ {e} : row'[f] = row[f]
<1>1. row \in [Exec -> Row] /\ row[e] \in Row
  BY DEF Typed, TypeOK
<1>2. row' = [row EXCEPT ![e] = [row[e] EXCEPT !.status = s]]
  BY DEF SetStatus
<1> QED BY <1>1, <1>2 DEF Row

LEMMA GotoEffect ==
    ASSUME Typed, NEW e \in Exec, NEW p \in Proc, NEW s, Goto(e, p, s)
    PROVE  /\ run'[e][p] = s
           /\ \A f \in Exec, q \in Proc : f # e \/ q # p => run'[f][q] = run[f][q]
<1>1. run \in [Exec -> [Proc -> RunSteps]] /\ run[e] \in [Proc -> RunSteps]
  BY DEF Typed, TypeOK
<1>2. run' = [run EXCEPT ![e] = [run[e] EXCEPT ![p] = s]]
  BY DEF Goto
<1> QED BY <1>1, <1>2

LEMMA StepEffect ==
    ASSUME Typed, NEW c \in Client, NEW s \in ReqSteps, Step(c, s)
    PROVE  /\ req'[c] = [req[c] EXCEPT !.step = s]
           /\ \A d \in Client \ {c} : req'[d] = req[d]
BY DEF Typed, TypeOK, Step

LEMMA AnswerEffect ==
    ASSUME Typed, NEW c \in Client, Answer(c)
    PROVE  /\ req'[c] = NoRequest
           /\ \A d \in Client \ {c} : req'[d] = req[d]
BY DEF Typed, TypeOK, Answer

(* Answering a request, or moving it on, is a benign move.                  *)
LEMMA MovesRequests ==
    ASSUME Typed, NEW c \in Client,
           Answer(c) \/ (req[c].step # "idle" /\ \E s \in ReqSteps : Step(c, s))
    PROVE  OnlyMovesRequests
BY StepEffect, AnswerEffect DEF OnlyMovesRequests

(* Of the steps of a request all but the insert and the start of a streamed *)
(* run are benign.                                                          *)
LEMMA RequestBenign ==
    ASSUME RunInv, NEW c \in Client,
           \/ Begin(c) \/ StreamClaim(c) \/ CheckActive(c) \/ CanNeverRun(c)
           \/ RequestThrows(c) \/ ClaimTask(c) \/ Cleanup(c)
    PROVE  Benign
<1> USE DEF RunInv
<1>1. CASE Begin(c)
  <2> PICK p \in Proc, t \in Task :
         \/ \E kind \in {"execute", "rest"} : BeginExecute(c, kind, p, t)
         \/ BeginStream(c, p, t)
         \/ BeginReactor(c, p, t)
    BY <1>1 DEF Begin
  <2>1. ASSUME NEW kind, NEW s, Arrive(c, kind, p, t, s)
        PROVE  OnlyMovesRequests
    BY <2>1 DEF Arrive, OnlyMovesRequests, Typed, TypeOK
  <2>2. OnlyMovesRequests
    BY <2>1, MovesRequests DEF BeginExecute, BeginStream, BeginReactor
  <2> QED BY <2>2, SameRows, SameRuns DEF BeginExecute, BeginStream, BeginReactor, Benign
<1>2. CASE StreamClaim(c)
  <2>1. OnlyMovesRequests
    BY <1>2, MovesRequests DEF StreamClaim, ReqSteps
  <2> QED BY <1>2, <2>1, SameRows, SameRuns DEF StreamClaim, Benign
<1>3. CASE CheckActive(c)
  <2>1. OnlyMovesRequests
    BY <1>3, MovesRequests DEF CheckActive, ReqSteps
  <2> QED BY <1>3, <2>1, SameRows, SameRuns DEF CheckActive, Benign
<1>4. CASE CanNeverRun(c) \/ RequestThrows(c)
  <2>1. OnlyMovesRequests
    BY <1>4, MovesRequests DEF CanNeverRun, RequestThrows
  <2> QED BY <1>4, <2>1, SameRows, SameRuns DEF CanNeverRun, RequestThrows, Benign
<1>5. CASE ClaimTask(c)
  <2>1. OnlyMovesRequests
    BY <1>5, MovesRequests DEF ClaimTask, ReqSteps
  <2> QED BY <1>5, <2>1, SameRows, SameRuns DEF ClaimTask, Benign
<1>6. CASE Cleanup(c)
  <2>1. OnlyMovesRequests
    BY <1>6, MovesRequests DEF Cleanup
  <2>2. CASE UNCHANGED row
    BY <1>6, <2>1, <2>2, SameRows, SameRuns DEF Cleanup, Benign
  <2>3. CASE SetStatus(req[c].exec, "DELETED")
    <3>1. CASE req[c].exec \in Exec
      <4>1. row[req[c].exec].status # "UNUSED"
        BY <3>1 DEF RequestOwnsRow
      <4>2. OnlyEndsRows
        BY <2>3, <3>1, <4>1, SetStatusEffect DEF OnlyEndsRows
      <4> QED BY <1>6, <2>1, <4>2, SameRuns DEF Cleanup, Benign
    <3>2. CASE req[c].exec \notin Exec
      <4>1. UNCHANGED row
        BY <2>3, <3>2 DEF SetStatus, Typed, TypeOK
      <4> QED BY <1>6, <2>1, <4>1, SameRows, SameRuns DEF Cleanup, Benign
    <3> QED BY <3>1, <3>2
  <2> QED BY <1>6, <2>2, <2>3 DEF Cleanup
<1> QED BY <1>1, <1>2, <1>3, <1>4, <1>5, <1>6

(* So are the steps of the engine that follow the run itself, the failing   *)
(* claim and the sweep.                                                     *)
LEMMA EngineBenign ==
    ASSUME RunInv, NEW e \in Exec, NEW p \in Proc,
           \/ ClaimThrows(e, p) \/ RunThrows(e, p) \/ Finish(e, p)
           \/ PersistFailure(e, p) \/ PersistFailureThrows(e, p)
           \/ SafetyNet(e, p) \/ SafetyNetThrows(e, p) \/ Sweep(e, p)
    PROVE  Benign
<1> USE DEF RunInv
<1>1. OnlyMovesRequests
  BY SameRequests DEF ClaimThrows, RunThrows, Finish, PersistFailure, PersistFailureThrows,
     SafetyNet, SafetyNetThrows, Sweep
<1>2. OnlyEndsRows
  <2>1. CASE Sweep(e, p)
    BY <2>1, ReapRowsEndsRows DEF Sweep
  <2>2. CASE ClaimThrows(e, p) \/ PersistFailure(e, p) \/ SafetyNet(e, p)
    BY <2>2, FailRowEndsRows DEF ClaimThrows, PersistFailure, SafetyNet
  <2>3. CASE RunThrows(e, p) \/ Finish(e, p) \/ PersistFailureThrows(e, p) \/ SafetyNetThrows(e, p)
    BY <2>3, SameRows DEF RunThrows, Finish, PersistFailureThrows, SafetyNetThrows
  <2> QED BY <2>1, <2>2, <2>3
<1>3. OnlyEndsRuns
  <2>1. CASE ClaimThrows(e, p) \/ Sweep(e, p)
    BY <2>1, SameRuns DEF ClaimThrows, Sweep
  <2>2. CASE RunThrows(e, p)
    BY <2>2, GotoEffect DEF RunThrows, Running, OnlyEndsRuns
  <2>3. CASE Finish(e, p) \/ SafetyNet(e, p) \/ SafetyNetThrows(e, p)
    BY <2>3, GotoEffect DEF Finish, SafetyNet, SafetyNetThrows, OnlyEndsRuns
  <2>4. CASE PersistFailure(e, p) \/ PersistFailureThrows(e, p)
    BY <2>4, GotoEffect DEF PersistFailure, PersistFailureThrows, AfterFailure, OnlyEndsRuns
  <2> QED BY <2>1, <2>2, <2>3, <2>4
<1> QED BY <1>1, <1>2, <1>3 DEF Benign

(* So are start-up, crash, restart, the cancel route and a completion.      *)
LEMMA OtherBenign ==
    ASSUME RunInv,
           \/ \E p \in Proc : StartStep(p) \/ Crash(p) \/ Restart(p)
           \/ \E e \in Exec : Cancel(e)
           \/ \E t \in Task : Complete(t)
           \/ UNCHANGED vars
    PROVE  Benign
<1> USE DEF RunInv
<1>1. ASSUME NEW p \in Proc, StartReap(p) PROVE Benign
  <2> DEFINE S == {e \in toReap[p] : row[e].status = "RUNNING"}
  <2>1. S \in SUBSET Exec /\ \A e \in S : Active(e)
    BY DEF Typed, TypeOK, Active, ActiveStatuses
  <2>2. ReapRows(S)
    BY <1>1 DEF StartReap
  <2>3. OnlyEndsRows
    BY <2>1, <2>2, ReapRowsEndsRows
  <2> QED BY <1>1, <2>3, SameRuns, SameRequests DEF StartReap, Benign
<1>2. ASSUME NEW p \in Proc, Crash(p) PROVE Benign
  <2>1. OnlyEndsRuns
    BY <1>2 DEF Crash, OnlyEndsRuns, Typed, TypeOK
  <2>2. OnlyMovesRequests
    BY <1>2 DEF Crash, OnlyMovesRequests
  <2> QED BY <1>2, <2>1, <2>2, SameRows DEF Crash, Benign
<1>3. ASSUME NEW e \in Exec, Cancel(e) PROVE Benign
  <2>1. OnlyEndsRows
    BY <1>3, SetStatusEffect DEF Cancel, Active, ActiveStatuses, OnlyEndsRows
  <2> QED BY <1>3, <2>1, SameRuns, SameRequests DEF Cancel, Benign
<1>4. ASSUME NEW p \in Proc, StartScan(p) \/ StartCleanupFails(p) \/ Restart(p) PROVE Benign
  BY <1>4, SameRows, SameRuns, SameRequests DEF StartScan, StartCleanupFails, Restart, Benign
<1>5. ASSUME NEW t \in Task, Complete(t) PROVE Benign
  BY <1>5, SameRows, SameRuns, SameRequests DEF Complete, Benign
<1>6. CASE UNCHANGED vars
  BY <1>6, SameRows, SameRuns, SameRequests DEF vars, Benign
<1> QED BY <1>1, <1>2, <1>3, <1>4, <1>5, <1>6 DEF StartStep

(* The remaining steps, which start rows and runs or revive rows.           *)
Unusual ==
    \/ \E c \in Client : OpenToInProgress(c) \/ \E e \in Exec : Insert(c, e)
    \/ \E e \in Exec, p \in Proc :
          Claim(e, p) \/ MarkRunning(e, p) \/ SuccessTx(e, p)
    \/ \E e \in Exec : Pause(e) \/ Resume(e)

LEMMA NextKinds == RunInv /\ [Next]_vars => Benign \/ Unusual
<1> SUFFICES ASSUME RunInv, [Next]_vars PROVE Benign \/ Unusual
  OBVIOUS
<1>1. ASSUME NEW c \in Client, Begin(c) \/ Proceed(c) PROVE Benign \/ Unusual
  BY <1>1, RequestBenign DEF Proceed, Unusual
<1>2. ASSUME NEW e \in Exec, NEW p \in Proc,
             Claim(e, p) \/ ClaimThrows(e, p) \/ RunStep(e, p) \/ Sweep(e, p)
      PROVE  Benign \/ Unusual
  BY <1>2, EngineBenign DEF RunStep, Unusual
<1>3. CASE \/ \E p \in Proc : StartStep(p) \/ Crash(p) \/ Restart(p)
           \/ \E e \in Exec : Cancel(e)
           \/ \E t \in Task : Complete(t)
           \/ UNCHANGED vars
  BY <1>3, OtherBenign
<1> QED BY <1>1, <1>2, <1>3 DEF Next, Unusual

(* The insert gives a row that nobody runs to the request that made it.     *)
LEMMA InsertRunInv ==
    ASSUME RunInv, Typed', NEW c \in Client, NEW e \in Exec, Insert(c, e)
    PROVE  RunInv'
<1> USE DEF RunInv
<1> DEFINE t == req[c].task
           new == [status |-> IF req[c].kind = "stream" THEN "RUNNING" ELSE "PENDING",
                   task |-> t, stream |-> req[c].kind = "stream", owner |-> Null]
<1>1. CASE ~IndexAdmits(e, t)
  <2>1. UNCHANGED <<row, run>> /\ Answer(c)
    BY <1>1 DEF Insert
  <2> QED BY <2>1, MovesRequests, SameRows, SameRuns, BenignStep DEF Benign
<1>2. CASE IndexAdmits(e, t)
  <2> DEFINE opened == [req[c] EXCEPT !.step = "opening", !.exec = e]
  <2>1. req[c] \in Request /\ t \in Task
    BY DEF Typed, TypeOK, TaskKnown, Insert
  <2>2. /\ row'[e] = new /\ row[e].status = "UNUSED"
        /\ \A f \in Exec \ {e} : row'[f] = row[f]
    BY <1>2 DEF Insert, Typed, TypeOK
  <2>3. /\ opened.exec = e /\ opened.task = t /\ opened.kind = req[c].kind
        /\ req'[c] = opened
        /\ \A d \in Client \ {c} : req'[d] = req[d]
    <3>1. req' = [req EXCEPT ![c] = opened]
      BY <1>2 DEF Insert
    <3> QED BY <2>1, <3>1 DEF Typed, TypeOK, Request
  <2>4. UNCHANGED run
    BY DEF Insert
  <2>5. \A p \in Proc : run[e][p] = "none"
    BY <2>2 DEF NotStarted
  <2>6. \A d \in Client : req[d].exec # e
    BY <2>2 DEF RequestOwnsRow
  <2>7. /\ new.status \in {"PENDING", "RUNNING"} /\ new.task = t
        /\ req[c].kind = "stream" => new.status # "PENDING"
    OBVIOUS
  <2> HIDE DEF new, opened
  <2>8. NotStarted' /\ NoClaimAfterSuccess' /\ SingleRunner'
    BY <2>2, <2>4, <2>5, <2>7 DEF NotStarted, NoClaimAfterSuccess, SingleRunner, Running
  <2>9. RequestOwnsRow'
    BY <2>2, <2>3, <2>6, <2>7 DEF RequestOwnsRow
  <2>10. StreamNotStarted'
    BY <2>2, <2>3, <2>4, <2>5, <2>6, <2>7 DEF StreamNotStarted
  <2>11. TaskKnown'
    BY <2>1, <2>2, <2>3, <2>7 DEF TaskKnown
  <2> QED BY <2>8, <2>9, <2>10, <2>11
<1> QED BY <1>1, <1>2

(* A streamed run starts on a row that no process runs.                     *)
LEMMA OpeningRunInv ==
    ASSUME RunInv, Typed', NEW c \in Client, OpenToInProgress(c)
    PROVE  RunInv'
<1> USE DEF RunInv
<1> DEFINE e == req[c].exec
           p == req[c].proc
<1>1. UNCHANGED row
  BY DEF OpenToInProgress
<1>2. OnlyMovesRequests
  BY MovesRequests DEF OpenToInProgress, ReqSteps
<1>3. CASE UNCHANGED run
  BY <1>1, <1>2, <1>3, SameRows, SameRuns, BenignStep DEF Benign
<1>4. CASE req[c].kind = "stream" /\ e \in Exec /\ p \in Proc
  <2>1. /\ row[e].status \notin {"UNUSED", "PENDING"}
        /\ \A q \in Proc : run[e][q] = "none"
    BY <1>4 DEF RequestOwnsRow, StreamNotStarted
  <2>2. /\ run'[e][p] = "body"
        /\ \A f \in Exec, q \in Proc : f # e \/ q # p => run'[f][q] = run[f][q]
    BY <1>4, GotoEffect DEF OpenToInProgress
  <2>3. /\ req'[c] = NoRequest
        /\ \A d \in Client \ {c} : req'[d] = req[d]
    BY <1>4, AnswerEffect DEF OpenToInProgress
  <2>4. \A d \in Client : req'[d].exec # e
    BY <1>4, <2>3, ConstantsAssumption DEF NoRequest, RequestOwnsRow
  <2>5. NotStarted' /\ NoClaimAfterSuccess' /\ SingleRunner'
    BY <1>1, <2>1, <2>2 DEF NotStarted, NoClaimAfterSuccess, SingleRunner, Running
  <2>6. RequestOwnsRow' /\ TaskKnown'
    BY <1>1, <2>3, ConstantsAssumption DEF RequestOwnsRow, TaskKnown, NoRequest
  <2>7. StreamNotStarted'
    BY <1>1, <2>2, <2>3, <2>4, ConstantsAssumption DEF StreamNotStarted, NoRequest
  <2> QED BY <2>5, <2>6, <2>7
<1>5. UNCHANGED run \/ (req[c].kind = "stream" /\ e \in Exec /\ p \in Proc)
  <2>1. CASE req[c].kind # "stream"
    BY <2>1 DEF OpenToInProgress
  <2>2. CASE req[c].kind = "stream"
    <3>1. run' = [run EXCEPT ![e] = [run[e] EXCEPT ![p] = "body"]]
      BY <2>2 DEF OpenToInProgress, Goto
    <3>2. CASE e \notin Exec
      BY <3>1, <3>2 DEF Typed, TypeOK
    <3>3. CASE e \in Exec /\ p \notin Proc
      <4>1. run[e] \in [Proc -> RunSteps]
        BY <3>3 DEF Typed, TypeOK
      <4>2. [run[e] EXCEPT ![p] = "body"] = run[e]
        BY <3>3, <4>1
      <4> QED BY <3>1, <3>3, <4>2 DEF Typed, TypeOK
    <3> QED BY <2>2, <3>2, <3>3
  <2> QED BY <2>1, <2>2
<1> QED BY <1>3, <1>4, <1>5

(* The claim starts the only run of its row, and the writes that follow it  *)
(* only move that run on.                                                   *)
LEMMA ClaimRunInv ==
    ASSUME RunInv, Typed', NEW e \in Exec, NEW p \in Proc,
           Claim(e, p) \/ MarkRunning(e, p) \/ SuccessTx(e, p)
    PROVE  RunInv'
<1> USE DEF RunInv
<1>1. UNCHANGED req
  BY DEF Claim, MarkRunning, SuccessTx
<1>2. CASE Claim(e, p)
  <2> DEFINE new == [row[e] EXCEPT !.status = "RUNNING", !.owner = <<p, life[p]>>]
  <2>1. row[e] \in Row /\ row[e].status = "PENDING"
    BY <1>2 DEF Claim, Claimable, Typed, TypeOK
  <2>2. new.status = "RUNNING" /\ new.task = row[e].task
    BY <2>1 DEF Row
  <2>3. row'[e] = new /\ \A f \in Exec \ {e} : row'[f] = row[f]
    BY <1>2 DEF Claim, Typed, TypeOK
  <2>4. /\ run'[e][p] = "claimed"
        /\ \A f \in Exec, q \in Proc : f # e \/ q # p => run'[f][q] = run[f][q]
    BY <1>2, GotoEffect DEF Claim
  <2>5. \A q \in Proc : run[e][q] = "none"
    BY <2>1 DEF NotStarted
  <2> HIDE DEF new
  <2>6. NotStarted' /\ NoClaimAfterSuccess' /\ SingleRunner'
    BY <2>2, <2>3, <2>4, <2>5 DEF NotStarted, NoClaimAfterSuccess, SingleRunner, Running
  <2>7. RequestOwnsRow' /\ TaskKnown'
    BY <1>1, <2>1, <2>2, <2>3 DEF RequestOwnsRow, TaskKnown
  <2>8. StreamNotStarted'
    BY <1>1, <2>1, <2>2, <2>3, <2>4 DEF StreamNotStarted
  <2> QED BY <2>6, <2>7, <2>8
<1>3. CASE MarkRunning(e, p) \/ SuccessTx(e, p)
  <2>1. Running(e, p)
    BY <1>3 DEF MarkRunning, SuccessTx, Running
  <2>2. PICK s \in {"body", "tail", "failing"} : Goto(e, p, s)
    BY <1>3 DEF MarkRunning, SuccessTx
  <2>3. /\ run'[e][p] = s
        /\ \A f \in Exec, q \in Proc : f # e \/ q # p => run'[f][q] = run[f][q]
    BY <2>2, GotoEffect
  <2>4. /\ row'[e].status \in {row[e].status, "RUNNING", "SUCCESS"}
        /\ row'[e].task = row[e].task
        /\ \A f \in Exec \ {e} : row'[f] = row[f]
    <3>1. CASE UNCHANGED row
      BY <3>1
    <3>2. CASE SetStatus(e, "RUNNING")
      BY <3>2, SetStatusEffect
    <3>3. CASE SetStatus(e, "SUCCESS")
      BY <3>3, SetStatusEffect
    <3> QED BY <1>3, <3>1, <3>2, <3>3 DEF MarkRunning, SuccessTx
  <2>5. row[e].status \notin {"UNUSED", "PENDING"}
    BY <2>1 DEF NotStarted, Running
  <2>6. NotStarted'
    BY <2>3, <2>4, <2>5 DEF NotStarted
  <2>7. SingleRunner'
    BY <2>1, <2>3 DEF SingleRunner, Running
  <2>8. NoClaimAfterSuccess'
    BY <2>1, <2>3, <2>4 DEF NoClaimAfterSuccess, SingleRunner, Running
  <2>9. RequestOwnsRow' /\ TaskKnown'
    BY <1>1, <2>4, <2>5 DEF RequestOwnsRow, TaskKnown
  <2>10. StreamNotStarted'
    BY <1>1, <2>1, <2>3, <2>4, <2>5 DEF StreamNotStarted, Running
  <2> QED BY <2>6, <2>7, <2>8, <2>9, <2>10
<1> QED BY <1>2, <1>3

(* A row that is paused or resumed stays inserted, and is not claimable.    *)
LEMMA AutomationsRunInv ==
    ASSUME RunInv, Typed', NEW e \in Exec, Pause(e) \/ Resume(e)
    PROVE  RunInv'
<1> USE DEF RunInv
<1>1. PICK s \in {"PAUSED", "RUNNING"} : SetStatus(e, s)
  BY DEF Pause, Resume
<1>2. /\ row'[e].status = s /\ row'[e].task = row[e].task
      /\ \A f \in Exec \ {e} : row'[f] = row[f]
  BY <1>1, SetStatusEffect
<1>3. UNCHANGED <<req, run>> /\ row[e].status # "UNUSED"
  BY DEF Pause, Resume, Listed
<1>4. NotStarted' /\ NoClaimAfterSuccess' /\ SingleRunner'
  BY <1>2, <1>3 DEF NotStarted, NoClaimAfterSuccess, SingleRunner, Running
<1>5. RequestOwnsRow' /\ StreamNotStarted' /\ TaskKnown'
  BY <1>2, <1>3 DEF RequestOwnsRow, StreamNotStarted, TaskKnown
<1> QED BY <1>4, <1>5

LEMMA NextRunInv == RunInv /\ [Next]_vars => RunInv'
<1> SUFFICES ASSUME RunInv, [Next]_vars PROVE RunInv'
  OBVIOUS
<1>1. Typed'
  BY NextTyped DEF RunInv
<1> QED
  BY <1>1, NextKinds, BenignStep, InsertRunInv, OpeningRunInv, ClaimRunInv,
     AutomationsRunInv DEF Unusual

LEMMA Invariance == Spec => []RunInv
BY InitRunInv, NextRunInv, PTL DEF Spec

(* No two processes ever execute the same row, however many pollers and     *)
(* dispatches race for it and whatever the reapers did to it meanwhile.     *)
THEOREM RunsAreExclusive == Spec => []SingleRunner
<1>1. RunInv => SingleRunner
  BY DEF RunInv
<1> QED BY <1>1, Invariance, PTL

(* But for the pause and resume routes nothing overwrites a committed       *)
(* SUCCESS: by the invariant whoever still runs the row is past the claim,  *)
(* the only write of the engine that revives rows.                          *)
THEOREM EngineKeepsSuccess == Spec => OnlyAutomationsUndoSuccess
<1> DEFINE Kept == \A e \in Exec : row[e].status = "SUCCESS"
                        => \/ row'[e].status \in {"SUCCESS", "DELETED"}
                           \/ Pause(e) \/ Resume(e)
<1>1. ASSUME RunInv, [Next]_vars PROVE Kept
  <2> USE <1>1 DEF RunInv
  <2>1. CASE Benign
    BY <2>1 DEF Benign, OnlyEndsRows, Active, ActiveStatuses
  <2>2. ASSUME NEW c \in Client, NEW e \in Exec, Insert(c, e) PROVE Kept
    BY <2>2 DEF Insert, Typed, TypeOK
  <2>3. ASSUME NEW c \in Client, OpenToInProgress(c) PROVE Kept
    BY <2>3 DEF OpenToInProgress
  <2>4. ASSUME NEW e \in Exec, NEW p \in Proc, Claim(e, p) PROVE Kept
    BY <2>4 DEF Claim, Claimable, Typed, TypeOK
  <2>5. ASSUME NEW e \in Exec, NEW p \in Proc, MarkRunning(e, p) PROVE Kept
    <3>1. row[e].status # "SUCCESS"
      BY <2>5 DEF MarkRunning, NoClaimAfterSuccess
    <3>2. CASE UNCHANGED row
      BY <3>2
    <3>3. CASE SetStatus(e, "RUNNING")
      BY <3>1, <3>3, SetStatusEffect
    <3> QED BY <2>5, <3>2, <3>3 DEF MarkRunning
  <2>6. ASSUME NEW e \in Exec, NEW p \in Proc, SuccessTx(e, p) PROVE Kept
    <3>1. CASE UNCHANGED row
      BY <3>1
    <3>2. CASE SetStatus(e, "SUCCESS")
      BY <3>2, SetStatusEffect
    <3> QED BY <2>6, <3>1, <3>2 DEF SuccessTx
  <2>7. ASSUME NEW e \in Exec, Pause(e) \/ Resume(e) PROVE Kept
    BY <2>7, SetStatusEffect DEF Pause, Resume
  <2>8. Benign \/ Unusual
    BY NextKinds
  <2> QED BY <2>1, <2>2, <2>3, <2>4, <2>5, <2>6, <2>7, <2>8 DEF Unusual
<1>2. RunInv /\ [Next]_vars => [Kept]_vars
  BY <1>1
<1> QED BY <1>2, Invariance, PTL DEF Spec, OnlyAutomationsUndoSuccess

-----------------------------------------------------------------------------
(* What a stamp tells about the process that wrote it.                      *)

(* A stamp names an incarnation that has been reached ...                   *)
StampPast ==
    \A e \in Exec : row[e].owner # Null => row[e].owner[2] <= life[row[e].owner[1]]

(* ... and whoever runs a stamped row is the live process that stamped it.  *)
StampRuns ==
    \A e \in Exec, p \in Proc : Running(e, p) /\ row[e].owner # Null
        => row[e].owner = <<p, life[p]>> /\ Alive(p)

(* A stream row is never claimed, hence never stamped.                      *)
StreamUnstamped ==
    /\ \A e \in Exec : row[e].stream =>
          row[e].owner = Null /\ row[e].status \notin {"UNUSED", "PENDING"}
    /\ \A c \in Client, e \in Exec :
          req[c].exec = e /\ req[c].kind = "stream" => row[e].owner = Null

(* What a startup scan has listed cannot be claimed any more, and its       *)
(* incarnation, once orphaned, stays so.                                    *)
ListedOrphaned ==
    \A p \in Proc : \A e \in toReap[p] :
        /\ row[e].status \notin {"UNUSED", "PENDING"}
        /\ row[e].owner # Null => Orphaned(row[e].owner)

StampInv == StampPast /\ StampRuns /\ StreamUnstamped /\ ListedOrphaned

(* All but the insert and the claim leave the stamps alone.                 *)
StampsKept ==
    \A e \in Exec : row'[e].owner = row[e].owner /\ row'[e].stream = row[e].stream

LEMMA SetStatusStamps ==
    ASSUME Typed, NEW e, NEW s, SetStatus(e, s)
    PROVE  StampsKept
<1>1. row \in [Exec -> Row] /\ \A f \in Exec : row[f] \in Row
  BY DEF Typed, TypeOK
<1>2. row' = [row EXCEPT ![e] = [row[e] EXCEPT !.status = s]]
  BY DEF SetStatus
<1> QED BY <1>1, <1>2 DEF StampsKept, Row

LEMMA ReapRowsStamps ==
    ASSUME Typed, NEW S \in SUBSET Exec, ReapRows(S)
    PROVE  StampsKept
<1>1. \A f \in Exec : row[f] \in Row
  BY DEF Typed, TypeOK
<1> QED BY <1>1 DEF ReapRows, StampsKept, Row

LEMMA NextStamps ==
    ASSUME Typed, [Next]_vars
    PROVE  \/ StampsKept
           \/ \E c \in Client, e \in Exec : Insert(c, e)
           \/ \E e \in Exec, p \in Proc : Claim(e, p)
<1>1. ASSUME UNCHANGED row PROVE StampsKept
  BY <1>1 DEF StampsKept
<1>2. ASSUME NEW e \in Exec, FailRow(e) PROVE StampsKept
  BY <1>1, <1>2, SetStatusStamps DEF FailRow
<1>3. ASSUME NEW c \in Client, Begin(c) PROVE StampsKept
  BY <1>1, <1>3 DEF Begin, BeginExecute, BeginStream, BeginReactor
<1>4. ASSUME NEW c \in Client,
             \/ StreamClaim(c) \/ CheckActive(c) \/ CanNeverRun(c) \/ RequestThrows(c)
             \/ OpenToInProgress(c) \/ ClaimTask(c)
      PROVE  StampsKept
  BY <1>1, <1>4 DEF StreamClaim, CheckActive, CanNeverRun, RequestThrows, OpenToInProgress,
                    ClaimTask
<1>5. ASSUME NEW c \in Client, Cleanup(c) PROVE StampsKept
  BY <1>1, <1>5, SetStatusStamps DEF Cleanup
<1>6. ASSUME NEW e \in Exec, NEW p \in Proc, ClaimThrows(e, p) \/ RunStep(e, p)
      PROVE  StampsKept
  BY <1>1, <1>2, <1>6, SetStatusStamps
  DEF ClaimThrows, RunStep, MarkRunning, RunThrows, SuccessTx, Finish, PersistFailure,
      PersistFailureThrows, SafetyNet, SafetyNetThrows
<1>7. ASSUME NEW e \in Exec, NEW p \in Proc, Sweep(e, p) PROVE StampsKept
  <2>1. {e} \in SUBSET Exec
    OBVIOUS
  <2> QED BY <1>7, <2>1, ReapRowsStamps DEF Sweep
<1>8. ASSUME NEW p \in Proc, StartStep(p) \/ Crash(p) \/ Restart(p) PROVE StampsKept
  <2>1. {e \in toReap[p] : row[e].status = "RUNNING"} \in SUBSET Exec
    BY DEF Typed, TypeOK
  <2> QED BY <1>1, <1>8, <2>1, ReapRowsStamps
          DEF StartStep, StartScan, StartReap, StartCleanupFails, Crash, Restart
<1>9. ASSUME NEW e \in Exec, Cancel(e) \/ Pause(e) \/ Resume(e) PROVE StampsKept
  BY <1>9, SetStatusStamps DEF Cancel, Pause, Resume
<1>10. ASSUME NEW t \in Task, Complete(t) PROVE StampsKept
  BY <1>1, <1>10 DEF Complete
<1>11. CASE UNCHANGED vars
  BY <1>1, <1>11 DEF vars
<1> QED
  BY <1>3, <1>4, <1>5, <1>6, <1>7, <1>8, <1>9, <1>10, <1>11 DEF Next, Proceed

(* Processes change by their own steps alone.                               *)
LEMMA NextProcesses ==
    ASSUME [Next]_vars
    PROVE  \/ UNCHANGED <<boot, life, toReap>>
           \/ \E p \in Proc : StartStep(p) \/ Crash(p) \/ Restart(p)
<1> DEFINE Same == UNCHANGED <<boot, life, toReap>>
<1>1. ASSUME NEW c \in Client, Begin(c) PROVE Same
  BY <1>1 DEF Begin, BeginExecute, BeginStream, BeginReactor
<1>2. ASSUME NEW c \in Client, Proceed(c) PROVE Same
  BY <1>2 DEF Proceed, StreamClaim, CheckActive, CanNeverRun, RequestThrows, Insert,
              OpenToInProgress, ClaimTask, Cleanup
<1>3. ASSUME NEW e \in Exec, NEW p \in Proc, RunStep(e, p) PROVE Same
  BY <1>3 DEF RunStep, MarkRunning, RunThrows, SuccessTx, Finish, PersistFailure,
              PersistFailureThrows, SafetyNet, SafetyNetThrows
<1>4. ASSUME NEW e \in Exec, NEW p \in Proc, Claim(e, p) \/ ClaimThrows(e, p) \/ Sweep(e, p)
      PROVE  Same
  BY <1>4 DEF Claim, ClaimThrows, Sweep
<1>5. ASSUME NEW e \in Exec, Cancel(e) \/ Pause(e) \/ Resume(e) PROVE Same
  BY <1>5 DEF Cancel, Pause, Resume
<1>6. ASSUME NEW t \in Task, Complete(t) PROVE Same
  BY <1>6 DEF Complete
<1>7. CASE UNCHANGED vars
  BY <1>7 DEF vars
<1> QED BY <1>1, <1>2, <1>3, <1>4, <1>5, <1>6, <1>7 DEF Next

(* No step makes a row claimable that was inserted before, and the runs of  *)
(* a row that has its stamp only end or go on.                              *)
LEMMA NextRunsOn ==
    ASSUME RunInv, [Next]_vars, NEW e \in Exec
    PROVE  /\ row'[e].status \in {"UNUSED", "PENDING"} => row[e].status \in {"UNUSED", "PENDING"}
           /\ \A p \in Proc : Running(e, p)' =>
                 \/ Running(e, p) \/ Claim(e, p)
                 \/ \E c \in Client : req[c].exec = e /\ req[c].kind = "stream"
<1> USE DEF RunInv
<1>1. CASE Benign
  BY <1>1 DEF Benign, OnlyEndsRows, OnlyEndsRuns, Running
<1>2. ASSUME NEW c \in Client, NEW f \in Exec, Insert(c, f)
      PROVE  /\ run' = run
             /\ row'[e].status \in {"UNUSED", "PENDING"} => row[e].status \in {"UNUSED", "PENDING"}
  BY <1>2 DEF Insert, Typed, TypeOK
<1>3. ASSUME NEW c \in Client, OpenToInProgress(c)
      PROVE  /\ row' = row
             /\ \A p \in Proc : Running(e, p)' =>
                   Running(e, p) \/ (req[c].exec = e /\ req[c].kind = "stream")
  <2>1. CASE req[c].kind # "stream"
    BY <1>3, <2>1 DEF OpenToInProgress, Running
  <2>2. CASE req[c].exec # e
    <3>1. run'[e] = run[e]
      BY <1>3, <2>2 DEF OpenToInProgress, Goto, Typed, TypeOK
    <3> QED BY <1>3, <3>1 DEF OpenToInProgress, Running
  <2> QED BY <1>3, <2>1, <2>2 DEF OpenToInProgress
<1>4. ASSUME NEW f \in Exec, NEW q \in Proc, Claim(f, q)
      PROVE  /\ row'[e].status \in {"UNUSED", "PENDING"} => row[e].status \in {"UNUSED", "PENDING"}
             /\ \A p \in Proc : Running(e, p)' => Running(e, p) \/ Claim(e, p)
  <2>1. row'[e].status \in {"UNUSED", "PENDING"} => row[e].status \in {"UNUSED", "PENDING"}
    BY <1>4 DEF Claim, Claimable, Typed, TypeOK
  <2>2. \A g \in Exec, p \in Proc : g # f \/ p # q => run'[g][p] = run[g][p]
    BY <1>4, GotoEffect DEF Claim
  <2>3. ASSUME NEW p \in Proc, Running(e, p)' PROVE Running(e, p) \/ Claim(e, p)
    <3>1. CASE e = f /\ p = q
      BY <1>4, <3>1
    <3>2. CASE e # f \/ p # q
      BY <2>2, <2>3, <3>2 DEF Running
    <3> QED BY <3>1, <3>2
  <2> QED BY <2>1, <2>3
<1>5. ASSUME NEW f \in Exec, NEW q \in Proc, MarkRunning(f, q) \/ SuccessTx(f, q)
      PROVE  /\ row'[e].status \in {"UNUSED", "PENDING"} => row[e].status \in {"UNUSED", "PENDING"}
             /\ \A p \in Proc : Running(e, p)' => Running(e, p)
  <2>1. Running(f, q)
    BY <1>5 DEF MarkRunning, SuccessTx, Running
  <2>2. \A g \in Exec, p \in Proc : g # f \/ p # q => run'[g][p] = run[g][p]
    BY <1>5, GotoEffect DEF MarkRunning, SuccessTx
  <2>3. row'[e].status \in {row[e].status, "RUNNING", "SUCCESS"}
    BY <1>5, SetStatusEffect DEF MarkRunning, SuccessTx
  <2> QED BY <2>1, <2>2, <2>3 DEF Running
<1>6. ASSUME NEW f \in Exec, Pause(f) \/ Resume(f)
      PROVE  /\ run' = run
             /\ row'[e].status \in {"UNUSED", "PENDING"} => row[e].status \in {"UNUSED", "PENDING"}
  BY <1>6, SetStatusEffect DEF Pause, Resume
<1> QED BY <1>1, <1>2, <1>3, <1>4, <1>5, <1>6, NextKinds DEF Unusual, Running

(* A request keeps the row that it inserted.                                *)
LEMMA NextHolds ==
    ASSUME RunInv, [Next]_vars, NEW c \in Client, NEW e \in Exec,
           req'[c].exec = e, req'[c].kind = "stream"
    PROVE  \/ req[c].exec = e /\ req[c].kind = "stream"
           \/ Insert(c, e) /\ row[e].status = "UNUSED"
<1> USE DEF RunInv
<1>0. Null \notin Exec /\ req \in [Client -> Request] /\ req[c] \in Request
  BY ConstantsAssumption DEF Typed, TypeOK
<1>1. CASE OnlyMovesRequests
  <2>1. req'[c].exec = Null \/ (req'[c].exec = req[c].exec /\ req'[c].kind = req[c].kind)
    <3>1. \A s : LET r == [req[c] EXCEPT !.step = s] IN r.exec = req[c].exec /\ r.kind = req[c].kind
      BY <1>0 DEF Request
    <3>2. NoRequest.exec = Null
      BY DEF NoRequest
    <3> QED BY <1>1, <3>1, <3>2 DEF OnlyMovesRequests
  <2> QED BY <1>0, <2>1
<1>2. ASSUME NEW d \in Client, OpenToInProgress(d) PROVE OnlyMovesRequests
  BY <1>2, MovesRequests DEF OpenToInProgress, ReqSteps
<1>3. ASSUME NEW f \in Exec, NEW p \in Proc,
             Claim(f, p) \/ MarkRunning(f, p) \/ SuccessTx(f, p)
      PROVE  OnlyMovesRequests
  BY <1>3, SameRequests DEF Claim, MarkRunning, SuccessTx
<1>4. ASSUME NEW d \in Client, NEW f \in Exec, Insert(d, f), ~OnlyMovesRequests
      PROVE  \/ req[c].exec = e /\ req[c].kind = "stream"
             \/ Insert(c, e) /\ row[e].status = "UNUSED"
  <2>1. ~Answer(d)
    BY <1>4, MovesRequests
  <2>2. req' = [req EXCEPT ![d].step = "opening", ![d].exec = f] /\ row[f].status = "UNUSED"
    BY <1>4, <2>1 DEF Insert
  <2>3. CASE d = c
    <3>1. req'[c].exec = f
      BY <1>0, <2>2, <2>3 DEF Request
    <3> QED BY <1>4, <2>2, <2>3, <3>1
  <2>4. CASE d # c
    BY <1>0, <2>2, <2>4
  <2> QED BY <2>3, <2>4
<1>5. ASSUME NEW f \in Exec, Pause(f) \/ Resume(f) PROVE OnlyMovesRequests
  BY <1>5, SameRequests DEF Pause, Resume
<1> QED BY <1>1, <1>2, <1>3, <1>4, <1>5, NextKinds DEF Unusual, Benign

LEMMA InitStampInv == Init => StampInv
BY ConstantsAssumption
DEF Init, StampInv, StampPast, StampRuns, StreamUnstamped, ListedOrphaned, Running, NoRequest

(* While no process starts, dies or is restarted, stamps keep their meaning. *)
LEMMA StampsStep ==
    ASSUME RunInv, Typed', StampInv, [Next]_vars, UNCHANGED <<boot, life, toReap>>
    PROVE  StampInv'
<1> USE DEF RunInv, StampInv
<1>1. \A e \in Exec, p \in Proc : Alive(p)' = Alive(p) /\ life'[p] = life[p]
  BY DEF Alive
<1>2. \A e \in Exec :
         row'[e].status \in {"UNUSED", "PENDING"} => row[e].status \in {"UNUSED", "PENDING"}
  BY NextRunsOn
<1>3. CASE StampsKept
  <2>1. StampPast'
    BY <1>3 DEF StampsKept, StampPast
  <2>2. StampRuns'
    <3> SUFFICES ASSUME NEW e \in Exec, NEW p \in Proc, Running(e, p)', row'[e].owner # Null
                 PROVE  row'[e].owner = <<p, life'[p]>> /\ Alive(p)'
      BY DEF StampRuns
    <3>1. row'[e].owner = row[e].owner
      BY <1>3 DEF StampsKept
    <3>2. CASE Running(e, p)
      BY <1>1, <3>1, <3>2 DEF StampRuns
    <3>3. CASE Claim(e, p)
      <4>1. row[e] \in Row /\ row'[e] = [row[e] EXCEPT !.status = "RUNNING", !.owner = <<p, life[p]>>]
        BY <3>3 DEF Claim, Typed, TypeOK
      <4>2. row'[e].owner = <<p, life[p]>>
        BY <4>1 DEF Row
      <4> QED BY <1>1, <3>3, <4>2 DEF Claim
    <3>4. ASSUME NEW c \in Client, req[c].exec = e, req[c].kind = "stream" PROVE FALSE
      BY <3>1, <3>4 DEF StreamUnstamped
    <3> QED BY <3>2, <3>3, <3>4, NextRunsOn
  <2>3. StreamUnstamped'
    <3>1. \A c \in Client, e \in Exec :
             req'[c].exec = e /\ req'[c].kind = "stream" => row'[e].owner = Null
      <4> SUFFICES ASSUME NEW c \in Client, NEW e \in Exec,
                          req'[c].exec = e, req'[c].kind = "stream"
                   PROVE  row'[e].owner = Null
        OBVIOUS
      <4>1. CASE req[c].exec = e /\ req[c].kind = "stream"
        BY <1>3, <4>1 DEF StampsKept, StreamUnstamped
      <4>2. CASE Insert(c, e)
        <5>1. ~Answer(c)
          BY AnswerEffect, ConstantsAssumption DEF NoRequest
        <5>2. row' = [row EXCEPT ![e] =
                 [status |-> IF req[c].kind = "stream" THEN "RUNNING" ELSE "PENDING",
                  task |-> req[c].task, stream |-> req[c].kind = "stream", owner |-> Null]]
          BY <4>2, <5>1 DEF Insert
        <5> QED BY <5>2 DEF Typed, TypeOK
      <4> QED BY <4>1, <4>2, NextHolds
    <3> QED BY <1>2, <1>3, <3>1 DEF StampsKept, StreamUnstamped
  <2>4. ListedOrphaned'
    BY <1>2, <1>3 DEF StampsKept, ListedOrphaned, Orphaned, Alive, Typed, TypeOK
  <2> QED BY <2>1, <2>2, <2>3, <2>4
<1>4. ASSUME NEW c \in Client, NEW f \in Exec, Insert(c, f), ~StampsKept
      PROVE  StampInv'
  <2> DEFINE streaming == req[c].kind = "stream"
             new == [status |-> IF streaming THEN "RUNNING" ELSE "PENDING",
                     task |-> req[c].task, stream |-> streaming, owner |-> Null]
  <2>1. row' # row
    BY <1>4 DEF StampsKept
  <2>2. row' = [row EXCEPT ![f] = new] /\ row[f].status = "UNUSED" /\ run' = run
    BY <1>4, <2>1 DEF Insert
  <2>3. row'[f] = new /\ \A e \in Exec \ {f} : row'[e] = row[e]
    BY <2>2 DEF Typed, TypeOK
  <2>4. new.owner = Null /\ (new.stream => new.status \notin {"UNUSED", "PENDING"})
    OBVIOUS
  <2> HIDE DEF new
  <2>5. StampPast' /\ StampRuns'
    BY <1>1, <2>2, <2>3, <2>4 DEF StampPast, StampRuns, Running
  <2>6. \A d \in Client, e \in Exec :
           req'[d].exec = e /\ req'[d].kind = "stream" => row'[e].owner = Null
    <3> SUFFICES ASSUME NEW d \in Client, NEW e \in Exec, e # f,
                        req'[d].exec = e, req'[d].kind = "stream"
                 PROVE  row[e].owner = Null
      BY <2>3, <2>4
    <3>1. CASE d = c
      <4>1. req'[c] = NoRequest \/ req' = [req EXCEPT ![c].step = "opening", ![c].exec = f]
        BY <1>4, AnswerEffect DEF Insert
      <4>2. req \in [Client -> Request] /\ req[c] \in Request
        BY DEF Typed, TypeOK
      <4>3. req'[c].exec \in {Null, f}
        BY <4>1, <4>2 DEF NoRequest, Request
      <4> QED BY <3>1, <4>3, ConstantsAssumption
    <3>2. CASE d # c
      <4>1. req'[d] = req[d]
        BY <1>4, <3>2, AnswerEffect DEF Insert, Typed, TypeOK
      <4> QED BY <4>1 DEF StreamUnstamped
    <3> QED BY <3>1, <3>2
  <2>7. StreamUnstamped'
    BY <2>3, <2>4, <2>6 DEF StreamUnstamped
  <2>8. ListedOrphaned'
    BY <1>1, <2>2, <2>3 DEF ListedOrphaned, Orphaned, Alive, Typed, TypeOK
  <2> QED BY <2>5, <2>7, <2>8
<1>5. ASSUME NEW f \in Exec, NEW q \in Proc, Claim(f, q)
      PROVE  StampInv'
  <2> DEFINE new == [row[f] EXCEPT !.status = "RUNNING", !.owner = <<q, life[q]>>]
  <2>1. row[f] \in Row /\ row[f].status = "PENDING" /\ Alive(q) /\ life[q] \in Nat
    BY <1>5 DEF Claim, Claimable, Typed, TypeOK
  <2>2. row'[f] = new /\ \A e \in Exec \ {f} : row'[e] = row[e]
    BY <1>5 DEF Claim, Typed, TypeOK
  <2>3. /\ new.owner = <<q, life[q]>> /\ new.stream = row[f].stream
        /\ new.status = "RUNNING"
    BY <2>1 DEF Row
  <2>4. /\ \A e \in Exec, p \in Proc : e # f \/ p # q => run'[e][p] = run[e][p]
        /\ \A p \in Proc : run[f][p] = "none"
        /\ req' = req
    BY <1>5, <2>1, GotoEffect DEF Claim, NotStarted
  <2> HIDE DEF new
  <2>5. StampPast'
    <3>1. new.owner[1] = q /\ new.owner[2] = life[q]
      BY <2>3
    <3> QED BY <2>1, <2>2, <3>1 DEF StampPast
  <2>6. StampRuns'
    <3> SUFFICES ASSUME NEW e \in Exec, NEW p \in Proc, Running(e, p)', row'[e].owner # Null
                 PROVE  row'[e].owner = <<p, life'[p]>> /\ Alive(p)'
      BY DEF StampRuns
    <3>1. CASE e = f
      <4>1. p = q
        BY <2>4, <3>1 DEF Running
      <4> QED BY <1>1, <2>1, <2>2, <2>3, <3>1, <4>1
    <3>2. CASE e # f
      BY <1>1, <2>2, <2>4, <3>2 DEF StampRuns, Running
    <3> QED BY <3>1, <3>2
  <2>7. StreamUnstamped'
    <3>1. ~row[f].stream /\ \A c \in Client : ~(req[c].exec = f /\ req[c].kind = "stream")
      BY <2>1 DEF StreamUnstamped, StreamNotStarted
    <3> QED BY <2>2, <2>3, <2>4, <3>1 DEF StreamUnstamped
  <2>8. ListedOrphaned'
    BY <1>1, <2>1, <2>2 DEF ListedOrphaned, Orphaned, Alive, Typed, TypeOK
  <2> QED BY <2>5, <2>6, <2>7, <2>8
<1> QED BY <1>3, <1>4, <1>5, NextStamps

(* A process that starts, dies or is restarted only ages the stamps.        *)
LEMMA ProcessStampInv ==
    ASSUME RunInv, Typed', StampInv, NEW p \in Proc, StartStep(p) \/ Crash(p) \/ Restart(p)
    PROVE  StampInv'
<1> USE DEF RunInv, StampInv
<1>1. [Next]_vars
  BY DEF Next
<1>2. Benign
  BY OtherBenign
<1>3. StampsKept
  <2>1. row \in [Exec -> Row] /\ {e \in toReap[p] : row[e].status = "RUNNING"} \in SUBSET Exec
    BY DEF Typed, TypeOK
  <2>2. UNCHANGED row \/ \E S \in SUBSET Exec : ReapRows(S)
    BY <2>1 DEF StartStep, StartScan, StartReap, StartCleanupFails, Crash, Restart
  <2> QED BY <2>2, ReapRowsStamps DEF StampsKept
<1>4. /\ \A q \in Proc \ {p} : boot'[q] = boot[q] /\ life'[q] = life[q] /\ toReap'[q] = toReap[q]
      /\ life'[p] \in {life[p], life[p] + 1}
      /\ Alive(p)' /\ life'[p] = life[p] => Alive(p)
      /\ Alive(p) /\ ~Alive(p)' => \A e \in Exec : run'[e][p] = "none"
      /\ Alive(p) => life'[p] = life[p]
  BY DEF StartStep, StartScan, StartReap, StartCleanupFails, Crash, Restart, Alive, Typed, TypeOK
<1>5. \A q \in Proc : life[q] \in Nat /\ life'[q] \in Nat
  BY DEF Typed, TypeOK
<1>6. \A e \in Exec : row'[e].owner = row[e].owner /\ row'[e].stream = row[e].stream
  BY <1>3 DEF StampsKept
<1>7. \A e \in Exec : row[e].owner # Null =>
         /\ row[e].owner \in Proc \X Nat
         /\ row[e].owner[1] \in Proc /\ row[e].owner[2] \in Nat
  BY DEF Typed, TypeOK, Row, Stamp
<1>8. StampPast'
  BY <1>4, <1>5, <1>6, <1>7 DEF StampPast
<1>9. \A e \in Exec, q \in Proc : Running(e, q)' => Running(e, q)
  BY <1>2 DEF Benign, OnlyEndsRuns, Running
<1>10. StampRuns'
  <2> SUFFICES ASSUME NEW e \in Exec, NEW q \in Proc, Running(e, q)', row'[e].owner # Null
               PROVE  row'[e].owner = <<q, life'[q]>> /\ Alive(q)'
    BY DEF StampRuns
  <2>1. Running(e, q) /\ row[e].owner = <<q, life[q]>> /\ Alive(q)
    BY <1>6, <1>9 DEF StampRuns
  <2>2. life'[q] = life[q] /\ Alive(q)'
    <3>1. CASE q = p
      BY <1>4, <2>1, <3>1 DEF Running
    <3>2. CASE q # p
      BY <1>4, <2>1, <3>2 DEF Alive
    <3> QED BY <3>1, <3>2
  <2> QED BY <1>6, <2>1, <2>2
<1>11. StreamUnstamped'
  <2>1. \A e \in Exec : row'[e].status \in {"UNUSED", "PENDING"}
                            => row[e].status \in {"UNUSED", "PENDING"}
    BY <1>1, NextRunsOn
  <2>2. \A c \in Client : req'[c] = req[c] \/ req'[c].exec = Null
    BY DEF StartStep, StartScan, StartReap, StartCleanupFails, Crash, Restart, NoRequest
  <2> QED BY <1>6, <2>1, <2>2, ConstantsAssumption DEF StreamUnstamped
<1>12. ListedOrphaned'
  <2> SUFFICES ASSUME NEW q \in Proc, NEW e \in toReap'[q]
               PROVE  /\ row'[e].status \notin {"UNUSED", "PENDING"}
                      /\ row'[e].owner # Null =>
                            \/ boot'[row'[e].owner[1]] = "down"
                            \/ life'[row'[e].owner[1]] # row'[e].owner[2]
    BY DEF ListedOrphaned, Orphaned, Alive
  <2>1. e \in Exec
    BY DEF Typed, TypeOK
  <2>2. /\ row[e].status \notin {"UNUSED", "PENDING"}
        /\ row[e].owner # Null => Orphaned(row[e].owner)
    <3>1. CASE e \in toReap[q]
      BY <3>1 DEF ListedOrphaned
    <3>2. CASE e \notin toReap[q]
      <4>1. StartScan(p) /\ q = p
        BY <3>2 DEF StartStep, StartScan, StartReap, StartCleanupFails, Crash, Restart,
                    Typed, TypeOK
      <4>2. PICK old \in SUBSET Unstamped(p) :
               toReap' = [toReap EXCEPT ![p] = old \cup
                  {f \in Exec : /\ row[f].status = "RUNNING"
                                /\ row[f].owner # Null
                                /\ Orphaned(row[f].owner)}]
        BY <4>1 DEF StartScan
      <4>3. toReap'[p] = old \cup {f \in Exec : /\ row[f].status = "RUNNING"
                                               /\ row[f].owner # Null
                                               /\ Orphaned(row[f].owner)}
        BY <4>2 DEF Typed, TypeOK
      <4> QED BY <4>1, <4>2, <4>3 DEF Unstamped
    <3> QED BY <3>1, <3>2
  <2>3. row'[e].status \notin {"UNUSED", "PENDING"}
    BY <1>1, <2>1, <2>2, NextRunsOn
  <2>4. ASSUME row'[e].owner # Null
        PROVE  \/ boot'[row'[e].owner[1]] = "down"
               \/ life'[row'[e].owner[1]] # row'[e].owner[2]
    <3> DEFINE q1 == row[e].owner[1]
               n == row[e].owner[2]
    <3>1. /\ row'[e].owner = row[e].owner /\ q1 \in Proc /\ n \in Nat /\ n <= life[q1]
          /\ ~Alive(q1) \/ life[q1] # n
      BY <1>6, <1>7, <2>1, <2>2, <2>4 DEF StampPast, Orphaned
    <3>2. boot'[q1] = "down" \/ life'[q1] # n
      <4>1. CASE q1 = p
        BY <1>4, <1>5, <3>1, <4>1 DEF Alive
      <4>2. CASE q1 # p
        BY <1>4, <3>1, <4>2 DEF Alive
      <4> QED BY <4>1, <4>2
    <3> QED BY <3>1, <3>2
  <2> QED BY <2>3, <2>4
<1> QED BY <1>8, <1>10, <1>11, <1>12

LEMMA StampInvariance == Spec => []StampInv
<1>1. RunInv /\ RunInv' /\ StampInv /\ [Next]_vars => StampInv'
  BY StampsStep, ProcessStampInv, NextProcesses DEF RunInv
<1> QED BY <1>1, InitStampInv, Invariance, PTL DEF Spec

(* A startup cleanup fails no stamped row that a live process executes,     *)
(* whatever was claimed, revived, restarted or inserted since its scan.     *)
THEOREM StartupSparesLive == Spec => StartupSparesStamped
<1> DEFINE Spared == \A p \in Proc, e \in Exec :
              StartReap(p) /\ Active(e) /\ ~Active(e)' /\ row[e].owner # Null => ~Live(e)
<1>1. ASSUME RunInv, StampInv, NEW p \in Proc, NEW e \in Exec,
             StartReap(p), Active(e), ~Active(e)', row[e].owner # Null
      PROVE  ~Live(e)
  <2>1. e \in toReap[p]
    BY <1>1 DEF StartReap, ReapRows, Active
  <2>2. Orphaned(row[e].owner)
    BY <1>1, <2>1 DEF StampInv, ListedOrphaned
  <2>3. \A q \in Proc : ~Running(e, q)
    BY <1>1, <2>2 DEF StampInv, StampRuns, Orphaned
  <2>4. ~row[e].stream
    BY <1>1 DEF StampInv, StreamUnstamped
  <2> QED BY <2>3, <2>4 DEF Live
<1>2. RunInv /\ StampInv /\ [Next]_vars => [Spared]_vars
  BY <1>1
<1> QED BY <1>2, Invariance, StampInvariance, PTL DEF Spec, StartupSparesStamped
=============================================================================
