--------------------------- MODULE AgentExecution ---------------------------
(***************************************************************************)
(* The life of an agent execution: the row in agent_executions, the two    *)
(* status columns of its task, the requests that create rows, the engine   *)
(* (hosted by several processes) that claims and runs them, the terminal   *)
(* persists, the safety nets, the two reapers, the cancel route and the    *)
(* automations routes that pause and resume a row.                         *)
(*                                                                         *)
(* Every database statement or transaction is one step; whatever the code  *)
(* reads in one statement and uses in a later one is kept in a variable    *)
(* of the request, the run or the starting process that read it.  Tasks    *)
(* here are leaf tasks (type other than PIPELINE).                         *)
(***************************************************************************)
EXTENDS Naturals, FiniteSets

CONSTANTS
    Task,       \* the leaf tasks
    Owned,      \* those that live in the child stage of a pipeline harness
    Exec,       \* ids for rows of agent_executions: bounds how many are created
    Proc,       \* processes that host the engine (paichart-web, paichart-mcp)
    Client,     \* slots for requests in flight: bounds their concurrency
    Entry,      \* the entry points this instance exercises
    MaxRestart, \* bounds how often each process is restarted
    Null        \* the NULL of a column, and "none"

EntryPoints == {"execute", "rest", "stream", "reactor", "cancel", "complete",
                "automations"}

ASSUME ConstantsAssumption ==
    /\ Owned \subseteq Task
    /\ Entry \subseteq EntryPoints
    /\ MaxRestart \in Nat
    /\ Null \notin Exec \cup Proc \cup Task
    /\ Null \notin {"PENDING", "RUNNING", "SUCCESS", "FAILED"}

VARIABLES
    row,        \* agent_executions: status, taskId and the context._owner stamp
    taskStatus, \* tasks.status
    execStatus, \* tasks.executionStatus
    req,        \* requests in flight, with what they read
    run,        \* run[e][p]: where process p stands in executing e
    boot,       \* where each process stands in its engine's start()
    life,       \* the incarnation of each process
    toReap      \* rows the startup scan of a process took for orphaned

vars == <<row, taskStatus, execStatus, req, run, boot, life, toReap>>

-----------------------------------------------------------------------------
(* Types *)

RowStatuses == {"UNUSED", "PENDING", "RUNNING", "PAUSED", "SUCCESS", "FAILED", "DELETED"}
ActiveStatuses == {"PENDING", "RUNNING"}
TaskStatuses == {"OPEN", "IN_PROGRESS", "COMPLETED"}
ExecutionStatuses == {Null, "PENDING", "RUNNING", "SUCCESS", "FAILED"}
Creators == {"execute", "rest", "stream", "reactor"}

ReqSteps == {"idle", "streamClaim", "create", "prepare",
             "opening", "claim", "cleanup"}

(* claimed: won the PENDING -> RUNNING compare-and-swap; body: running the   *)
(* agent; tail: SUCCESS committed, post-commit work left; failing: an error  *)
(* is about to be persisted; net: rethrown, the caller's catch is next.      *)
RunSteps == {"none", "claimed", "body", "tail", "failing", "net"}

Stamp == Proc \X (0..MaxRestart)

Row == [status: RowStatuses, task: Task \cup {Null}, stream: BOOLEAN,
        owner: Stamp \cup {Null}]

Request == [step: ReqSteps, kind: Creators \cup {Null}, proc: Proc \cup {Null},
            task: Task \cup {Null}, exec: Exec \cup {Null},
            seen: TaskStatuses \cup {Null}]

(* Rows, requests, runs and start-up phases keep their types. *)
TypeOK ==
    /\ row \in [Exec -> Row]
    /\ taskStatus \in [Task -> TaskStatuses]
    /\ execStatus \in [Task -> ExecutionStatuses]
    /\ req \in [Client -> Request]
    /\ run \in [Exec -> [Proc -> RunSteps]]
    /\ boot \in [Proc -> {"down", "scan", "reap", "up"}]
    /\ life \in [Proc -> 0..MaxRestart]
    /\ toReap \in [Proc -> SUBSET Exec]

NoRequest == [step |-> "idle", kind |-> Null, proc |-> Null, task |-> Null,
              exec |-> Null, seen |-> Null]

-----------------------------------------------------------------------------
(* Reading the rows *)

Active(e) == row[e].status \in ActiveStatuses

ActiveOf(t) == {e \in Exec : Active(e) /\ row[e].task = t}

(* Variant: the database has lost the partial index.                         *)
NoIndex(e, t) == TRUE

(* The partial UNIQUE index idx_agent_executions_active_per_task: may e      *)
(* become active for t?                                                      *)
IndexAdmits(e, t) == ActiveOf(t) \subseteq {e}

Alive(p) == boot[p] # "down"

(* Variant: start() takes every RUNNING row for abandoned.                   *)
OrphanedAlways(stamp) == TRUE

(* The verdict of classifyOwner on a stamp; ExecutionOwnership derives it    *)
(* from pids, boot ids and clocks.                                           *)
Orphaned(stamp) == ~Alive(stamp[1]) \/ life[stamp[1]] # stamp[2]

Running(e, p) == run[e][p] \in {"claimed", "body", "tail"}

(* Is e executed, or about to be, by a live process?  A stream request runs  *)
(* its row itself from the moment it has inserted it.                        *)
Live(e) == \/ \E p \in Proc : Running(e, p)
           \/ row[e].stream /\ \E c \in Client : req[c].exec = e

-----------------------------------------------------------------------------
(* Writing the rows *)

SetStatus(e, s) == row' = [row EXCEPT ![e].status = s]

Goto(e, p, s) == run' = [run EXCEPT ![e][p] = s]

Step(c, s) == req' = [req EXCEPT ![c].step = s]

Answer(c) == req' = [req EXCEPT ![c] = NoRequest]

(* Variants: FAILED whatever the task's status; a value the enum lacks.      *)
TerminatedAlways(t) == "FAILED"
TerminatedAsCanceled(t) == IF taskStatus[t] = "COMPLETED" THEN Null ELSE "CANCELED"

(* writeTerminatedExecutionTaskStatus: never FAILED on a COMPLETED task      *)
TerminatedStatus(t) == IF taskStatus[t] = "COMPLETED" THEN Null ELSE "FAILED"

(* writeReapedTaskStatuses, with the rows in S already flipped to FAILED     *)
ReapedStatus(t, S) ==
    IF ActiveOf(t) \ S # {} THEN execStatus[t]
    ELSE IF taskStatus[t] = "COMPLETED" \/ t \notin Owned THEN Null
    ELSE "FAILED"

(* Variant: the reaper writes the executions and forgets their tasks.        *)
ReapRowsOnly(S) ==
    /\ row' = [e \in Exec |-> IF e \in S THEN [row[e] EXCEPT !.status = "FAILED"]
                              ELSE row[e]]
    /\ UNCHANGED execStatus

(* One transaction of a reaper: flip S and settle its tasks                  *)
ReapRows(S) ==
    /\ row' = [e \in Exec |-> IF e \in S THEN [row[e] EXCEPT !.status = "FAILED"]
                              ELSE row[e]]
    /\ execStatus' = [t \in Task |-> IF \E e \in S : row[e].task = t
                                     THEN ReapedStatus(t, S) ELSE execStatus[t]]

(* Variant: the failure persist without its compare-and-swap.                *)
FailRowAlways(e) ==
    /\ SetStatus(e, "FAILED")
    /\ execStatus' = [execStatus EXCEPT ![row[e].task] = TerminatedStatus(row[e].task)]

(* runTerminalFailureTx, and the poller's safety net: the same two writes    *)
FailRow(e) ==
    IF Active(e)
    THEN /\ SetStatus(e, "FAILED")
         /\ execStatus' = [execStatus EXCEPT ![row[e].task] =
                                TerminatedStatus(row[e].task)]
    ELSE UNCHANGED <<row, execStatus>>

-----------------------------------------------------------------------------
(* Requests: agent.execute, the REST and stream routes, the ready reactors   *)

Idle(c) == req[c].step = "idle"

Arrive(c, kind, p, t, s) ==
    req' = [req EXCEPT ![c] = [step |-> s, kind |-> kind, proc |-> p,
                               task |-> t, exec |-> Null,
                               seen |-> IF kind = "stream" THEN taskStatus[t] ELSE Null]]

(* executeAgentOnTask and the REST route: refuse a task that reads RUNNING   *)
(* or PENDING.                                                               *)
BeginExecute(c, kind, p, t) ==
    /\ Idle(c) /\ Alive(p) /\ kind \in Entry \cap {"execute", "rest"}
    /\ IF execStatus[t] \in {"RUNNING", "PENDING"}
       THEN Answer(c)
       ELSE Arrive(c, kind, p, t, "create")
    /\ UNCHANGED <<row, taskStatus, execStatus, run, boot, life, toReap>>

(* The stream route hydrates the task; what it reads of its status is used   *)
(* by the claim that follows.                                                *)
BeginStream(c, p, t) ==
    /\ Idle(c) /\ Alive(p) /\ "stream" \in Entry
    /\ Arrive(c, "stream", p, t, "streamClaim")
    /\ UNCHANGED <<row, taskStatus, execStatus, run, boot, life, toReap>>

(* The ready reactors queue OPEN tasks that have no active execution.        *)
BeginReactor(c, p, t) ==
    /\ Idle(c) /\ Alive(p) /\ "reactor" \in Entry
    /\ taskStatus[t] = "OPEN" /\ ActiveOf(t) = {}
    /\ Arrive(c, "reactor", p, t, "create")
    /\ UNCHANGED <<row, taskStatus, execStatus, run, boot, life, toReap>>

StreamMayClaim(t) == execStatus[t] \notin {"RUNNING", "PENDING"}

(* The stream route's compare-and-swap on the task; the status it writes     *)
(* comes from the earlier read.                                              *)
StreamClaim(c) ==
    LET t == req[c].task IN
    /\ req[c].step = "streamClaim"
    /\ IF StreamMayClaim(t)
       THEN /\ execStatus' = [execStatus EXCEPT ![t] = "RUNNING"]
            /\ taskStatus' = [taskStatus EXCEPT ![t] =
                   IF req[c].seen = "OPEN" THEN "IN_PROGRESS" ELSE @]
            /\ Step(c, "create")
       ELSE Answer(c) /\ UNCHANGED <<execStatus, taskStatus>>
    /\ UNCHANGED <<row, run, boot, life, toReap>>

(* createAgentExecution, up to the re-execution rules: refuse when an active *)
(* execution exists.                                                         *)
CheckActive(c) ==
    /\ req[c].step = "create"
    /\ IF ActiveOf(req[c].task) # {} THEN Answer(c) ELSE Step(c, "prepare")
    /\ UNCHANGED <<row, taskStatus, execStatus, run, boot, life, toReap>>

(* prepareTaskForExecution finds that the task can never run; its FAILED     *)
(* mark is a compare-and-swap of its own.                                    *)
CanNeverRun(c) ==
    LET t == req[c].task IN
    /\ req[c].step = "prepare"
    /\ IF execStatus[t] \notin {"FAILED", "SUCCESS"} /\ taskStatus[t] # "COMPLETED"
       THEN execStatus' = [execStatus EXCEPT ![t] = "FAILED"]
       ELSE UNCHANGED execStatus
    /\ Answer(c)
    /\ UNCHANGED <<row, taskStatus, run, boot, life, toReap>>

(* Any other statement of a request may throw, which answers it with an      *)
(* error and rolls nothing back.                                             *)
RequestThrows(c) ==
    /\ req[c].step \in {"streamClaim", "create", "prepare", "opening", "claim"}
    /\ Answer(c)
    /\ UNCHANGED <<row, taskStatus, execStatus, run, boot, life, toReap>>

(* The insert; the index rejects it when an active row exists, and the       *)
(* request then is answered: duplicate, or an error when the winner is gone  *)
(* by the time it is looked up.                                              *)
Insert(c, e) ==
    LET t == req[c].task
        streaming == req[c].kind = "stream" IN
    /\ req[c].step = "prepare"
    /\ row[e].status = "UNUSED"
    /\ IF IndexAdmits(e, t)
       THEN /\ row' = [row EXCEPT ![e] =
                   [status |-> IF streaming THEN "RUNNING" ELSE "PENDING",
                    task |-> t, stream |-> streaming, owner |-> Null]]
            /\ req' = [req EXCEPT ![c].step = "opening", ![c].exec = e]
       ELSE Answer(c) /\ UNCHANGED row
    /\ UNCHANGED <<taskStatus, execStatus, run, boot, life, toReap>>

(* Variant: the write of IN_PROGRESS is not conditioned on OPEN.             *)
StartedAlways(t) == "IN_PROGRESS"

Started(t) == IF taskStatus[t] = "OPEN" THEN "IN_PROGRESS" ELSE taskStatus[t]

(* The last statement of createAgentExecution, OPEN -> IN_PROGRESS; then the *)
(* stream route starts its run, execute and rest claim the task, and a       *)
(* reactor is done.                                                          *)
OpenToInProgress(c) ==
    LET t == req[c].task IN
    /\ req[c].step = "opening"
    /\ taskStatus' = [taskStatus EXCEPT ![t] = Started(t)]
    /\ IF req[c].kind \in {"execute", "rest"} THEN Step(c, "claim") ELSE Answer(c)
    /\ IF req[c].kind = "stream"
       THEN Goto(req[c].exec, req[c].proc, "body")
       ELSE UNCHANGED run
    /\ UNCHANGED <<row, execStatus, boot, life, toReap>>

(* The claim of executeAgentOnTask spells out the NULL case; in the REST     *)
(* route's NOT IN a NULL never matches.                                      *)
MayClaim(kind, t) ==
    \/ execStatus[t] \in {"SUCCESS", "FAILED"}
    \/ kind = "execute" /\ execStatus[t] = Null

(* The compare-and-swap on the task that follows the insert.  The dispatch   *)
(* that agent.execute adds is a Claim of the new row.                        *)
ClaimTask(c) ==
    LET t == req[c].task IN
    /\ req[c].step = "claim"
    /\ IF MayClaim(req[c].kind, t)
       THEN execStatus' = [execStatus EXCEPT ![t] = "PENDING"] /\ Answer(c)
       ELSE Step(c, "cleanup") /\ UNCHANGED execStatus
    /\ UNCHANGED <<row, taskStatus, run, boot, life, toReap>>

(* Race lost: delete the row, whatever has become of it, and answer          *)
(* duplicate.  A delete that fails is ignored.                               *)
Cleanup(c) ==
    /\ req[c].step = "cleanup"
    /\ SetStatus(req[c].exec, "DELETED") \/ UNCHANGED row
    /\ Answer(c)
    /\ UNCHANGED <<taskStatus, execStatus, run, boot, life, toReap>>

-----------------------------------------------------------------------------
(* The engine: executeAgent and its callers *)

(* Variant: the claim also takes a row that is RUNNING.                      *)
ClaimableActive(e) == row[e].status \in {"PENDING", "RUNNING"}

Claimable(e) == row[e].status = "PENDING"

(* The compare-and-swap PENDING -> RUNNING with the ownership stamp, by the  *)
(* poller or by executeById, which a dispatch may call while start() is      *)
(* still cleaning up.                                                        *)
Claim(e, p) ==
    /\ Alive(p) /\ Claimable(e)
    /\ row' = [row EXCEPT ![e].status = "RUNNING", ![e].owner = <<p, life[p]>>]
    /\ Goto(e, p, "claimed")
    /\ UNCHANGED <<taskStatus, execStatus, req, boot, life, toReap>>

(* The claim statement itself throws in a process that had read the row as   *)
(* PENDING, and executeAgent's catch fails the row, which another process    *)
(* may own by now.                                                           *)
ClaimThrows(e, p) ==
    /\ Alive(p) /\ Active(e) /\ ~row[e].stream
    /\ FailRow(e)
    /\ UNCHANGED <<taskStatus, req, run, boot, life, toReap>>

(* updateExecutionStatus(id, 'RUNNING') carries no status condition: it      *)
(* throws on a deleted row and on the index, and otherwise revives the row.  *)
MarkRunning(e, p) ==
    /\ run[e][p] = "claimed"
    /\ IF row[e].status # "DELETED" /\ IndexAdmits(e, row[e].task)
       THEN SetStatus(e, "RUNNING") /\ Goto(e, p, "body")
       ELSE Goto(e, p, "failing") /\ UNCHANGED row
    /\ UNCHANGED <<taskStatus, execStatus, req, boot, life, toReap>>

(* A guard, the model call, a tool or the post-commit tail throws.           *)
RunThrows(e, p) ==
    /\ Running(e, p)
    /\ Goto(e, p, "failing")
    /\ UNCHANGED <<row, taskStatus, execStatus, req, boot, life, toReap>>

(* Variant: the task's status is left to an explicit completion, as it is    *)
(* for PIPELINE tasks.                                                       *)
SucceedColumnOnly(t) ==
    execStatus' = [execStatus EXCEPT ![t] = "SUCCESS"] /\ UNCHANGED taskStatus

SucceedTask(t) ==
    /\ taskStatus' = [taskStatus EXCEPT ![t] = "COMPLETED"]
    /\ execStatus' = [execStatus EXCEPT ![t] = "SUCCESS"]

(* runTerminalSuccessTx on a leaf task.  The update of the row is            *)
(* unconditional; only a deleted row makes it throw.                         *)
SuccessTx(e, p) ==
    LET t == row[e].task IN
    /\ run[e][p] = "body"
    /\ IF row[e].status = "DELETED"
       THEN Goto(e, p, "failing") /\ UNCHANGED <<row, taskStatus, execStatus>>
       ELSE /\ SetStatus(e, "SUCCESS")
            /\ SucceedTask(t)
            /\ Goto(e, p, "tail")
    /\ UNCHANGED <<req, boot, life, toReap>>

Finish(e, p) ==
    /\ run[e][p] = "tail"
    /\ Goto(e, p, "none")
    /\ UNCHANGED <<row, taskStatus, execStatus, req, boot, life, toReap>>

(* Where an error goes once the run's own catch is done: executeAgent        *)
(* rethrows to its caller's safety net, the stream route has none.           *)
AfterFailure(e) == IF row[e].stream THEN "none" ELSE "net"

(* persistTerminalFailure in the run's catch                                 *)
PersistFailure(e, p) ==
    /\ run[e][p] = "failing"
    /\ FailRow(e)
    /\ Goto(e, p, AfterFailure(e))
    /\ UNCHANGED <<taskStatus, req, boot, life, toReap>>

(* ... which may itself throw                                                *)
PersistFailureThrows(e, p) ==
    /\ run[e][p] = "failing"
    /\ Goto(e, p, AfterFailure(e))
    /\ UNCHANGED <<row, taskStatus, execStatus, req, boot, life, toReap>>

(* The poller's catch, or the .catch of the dispatch: crash-only backstop    *)
SafetyNet(e, p) ==
    /\ run[e][p] = "net"
    /\ FailRow(e)
    /\ Goto(e, p, "none")
    /\ UNCHANGED <<taskStatus, req, boot, life, toReap>>

SafetyNetThrows(e, p) ==
    /\ run[e][p] = "net"
    /\ Goto(e, p, "none")
    /\ UNCHANGED <<row, taskStatus, execStatus, req, boot, life, toReap>>

-----------------------------------------------------------------------------
(* Reapers, the cancel route, completion, crashes *)

(* Variant: the sweep lost its RUNNING tier.                                 *)
SweepPending(e, p) ==
    /\ boot[p] = "up" /\ row[e].status = "PENDING"
    /\ ReapRows({e})
    /\ UNCHANGED <<taskStatus, req, run, boot, life, toReap>>

(* The stale sweep of a polling process.  Age is data here (ReaperTiming     *)
(* has the clock): any active row may turn out to be old, and the            *)
(* compare-and-swap takes it whichever active status it has by then.         *)
Sweep(e, p) ==
    /\ boot[p] = "up" /\ Active(e)
    /\ ReapRows({e})
    /\ UNCHANGED <<taskStatus, req, run, boot, life, toReap>>

(* RUNNING rows without a stamp that may be more than two minutes old when p *)
(* scans: those p itself started since its own start are younger.            *)
Unstamped(p) ==
    {e \in Exec : /\ row[e].status = "RUNNING" /\ row[e].owner = Null
                  /\ ~Running(e, p)
                  /\ \A c \in Client : req[c].exec = e => req[c].proc # p}

(* start() lists the RUNNING rows and judges them: orphaned by the stamp, or *)
(* by age (any of them may be old) when there is no stamp.                   *)
StartScan(p) ==
    /\ boot[p] = "scan"
    /\ \E old \in SUBSET Unstamped(p) :
          toReap' = [toReap EXCEPT ![p] = old \cup
              {e \in Exec : /\ row[e].status = "RUNNING"
                            /\ row[e].owner # Null
                            /\ Orphaned(row[e].owner)}]
    /\ boot' = [boot EXCEPT ![p] = "reap"]
    /\ UNCHANGED <<row, taskStatus, execStatus, req, run, life>>

(* The transaction that reaps what the scan listed and is still RUNNING      *)
StartReap(p) ==
    /\ boot[p] = "reap"
    /\ ReapRows({e \in toReap[p] : row[e].status = "RUNNING"})
    /\ boot' = [boot EXCEPT ![p] = "up"]
    /\ toReap' = [toReap EXCEPT ![p] = {}]
    /\ UNCHANGED <<taskStatus, req, run, life>>

(* A failing cleanup is not fatal: the engine starts polling without it.     *)
StartCleanupFails(p) ==
    /\ boot[p] \in {"scan", "reap"}
    /\ boot' = [boot EXCEPT ![p] = "up"]
    /\ toReap' = [toReap EXCEPT ![p] = {}]
    /\ UNCHANGED <<row, taskStatus, execStatus, req, run, life>>

(* The cancel route: a compare-and-swap on the row and nothing else          *)
Cancel(e) ==
    /\ "cancel" \in Entry /\ Active(e)
    /\ SetStatus(e, "FAILED")
    /\ UNCHANGED <<taskStatus, execStatus, req, run, boot, life, toReap>>

(* The automations routes take the id of any agent execution, as their list  *)
(* offers it: to pause or resume one updates its row, whatever status it has *)
(* by then, and neither its task nor its run.                                *)
Listed(e) == "automations" \in Entry /\ row[e].status \notin {"UNUSED", "DELETED"}

Pause(e) ==
    /\ Listed(e)
    /\ SetStatus(e, "PAUSED")
    /\ UNCHANGED <<taskStatus, execStatus, req, run, boot, life, toReap>>

(* A resume that the index rejects throws and changes nothing.               *)
Resume(e) ==
    /\ Listed(e) /\ IndexAdmits(e, row[e].task)
    /\ SetStatus(e, "RUNNING")
    /\ UNCHANGED <<taskStatus, execStatus, req, run, boot, life, toReap>>

(* runTaskCompletionTx, by a person or by the agent itself                   *)
Complete(t) ==
    /\ "complete" \in Entry /\ taskStatus[t] = "IN_PROGRESS"
    /\ taskStatus' = [taskStatus EXCEPT ![t] = "COMPLETED"]
    /\ UNCHANGED <<row, execStatus, req, run, boot, life, toReap>>

(* A process dies with its requests, its runs and its start-up.              *)
Crash(p) ==
    /\ Alive(p) /\ life[p] < MaxRestart
    /\ boot' = [boot EXCEPT ![p] = "down"]
    /\ toReap' = [toReap EXCEPT ![p] = {}]
    /\ run' = [e \in Exec |-> [run[e] EXCEPT ![p] = "none"]]
    /\ req' = [c \in Client |-> IF req[c].proc = p THEN NoRequest ELSE req[c]]
    /\ UNCHANGED <<row, taskStatus, execStatus, life>>

Restart(p) ==
    /\ boot[p] = "down"
    /\ boot' = [boot EXCEPT ![p] = "scan"]
    /\ life' = [life EXCEPT ![p] = @ + 1]
    /\ UNCHANGED <<row, taskStatus, execStatus, req, run, toReap>>

-----------------------------------------------------------------------------
Init ==
    /\ row = [e \in Exec |-> [status |-> "UNUSED", task |-> Null,
                              stream |-> FALSE, owner |-> Null]]
    /\ taskStatus = [t \in Task |-> "OPEN"]
    /\ execStatus = [t \in Task |-> Null]
    /\ req = [c \in Client |-> NoRequest]
    /\ run = [e \in Exec |-> [p \in Proc |-> "none"]]
    /\ boot = [p \in Proc |-> "scan"]
    /\ life = [p \in Proc |-> 0]
    /\ toReap = [p \in Proc |-> {}]

Begin(c) ==
    \E p \in Proc, t \in Task :
        \/ \E kind \in {"execute", "rest"} : BeginExecute(c, kind, p, t)
        \/ BeginStream(c, p, t)
        \/ BeginReactor(c, p, t)

Proceed(c) ==
    \/ StreamClaim(c)
    \/ CheckActive(c)
    \/ CanNeverRun(c)
    \/ RequestThrows(c)
    \/ \E e \in Exec : Insert(c, e)
    \/ OpenToInProgress(c)
    \/ ClaimTask(c)
    \/ Cleanup(c)

RunStep(e, p) ==
    \/ MarkRunning(e, p)
    \/ RunThrows(e, p)
    \/ SuccessTx(e, p)
    \/ Finish(e, p)
    \/ PersistFailure(e, p)
    \/ PersistFailureThrows(e, p)
    \/ SafetyNet(e, p)
    \/ SafetyNetThrows(e, p)

StartStep(p) == StartScan(p) \/ StartReap(p) \/ StartCleanupFails(p)

Next ==
    \/ \E c \in Client : Begin(c) \/ Proceed(c)
    \/ \E e \in Exec, p \in Proc : Claim(e, p) \/ ClaimThrows(e, p) \/ RunStep(e, p)
    \/ \E e \in Exec, p \in Proc : Sweep(e, p)
    \/ \E p \in Proc : StartStep(p) \/ Crash(p) \/ Restart(p)
    \/ \E e \in Exec : Cancel(e) \/ Pause(e) \/ Resume(e)
    \/ \E t \in Task : Complete(t)

Spec == Init /\ [][Next]_vars

(* What the code's scheduling guarantees: requests and runs proceed (the    *)
(* watchdog bounds a run), pm2 restarts a dead process, a started engine    *)
(* polls every ten seconds and so sweeps a row once it is old.  Nobody need *)
(* make a request, cancel, pause, resume, complete or crash.                *)
Fairness ==
    /\ \A c \in Client : WF_vars(Proceed(c))
    /\ \A e \in Exec, p \in Proc :
          /\ WF_vars(Claim(e, p))
          /\ WF_vars(RunStep(e, p))
          /\ WF_vars(Sweep(e, p))
    /\ \A p \in Proc : WF_vars(StartStep(p)) /\ WF_vars(Restart(p))

FairSpec == Spec /\ Fairness

-----------------------------------------------------------------------------
(* Safety *)

(* At most one PENDING or RUNNING row per task, although three routes and   *)
(* the reactors check and insert in separate statements and a slow claimer  *)
(* may revive a row that was reaped under it.                               *)
OneActivePerTask == \A t \in Task : Cardinality(ActiveOf(t)) <= 1

(* No row is executed by two processes, although the poller of each and     *)
(* executeById race for it.                                                 *)
SingleRunner ==
    \A e \in Exec, p, q \in Proc : Running(e, p) /\ Running(e, q) => p = q

(* Nothing the engine does overwrites a committed SUCCESS: neither a        *)
(* post-commit throw, a safety net, a reaper that read the row earlier, a   *)
(* late cancel nor a slow claimer.  The clean-up of a request that lost the *)
(* claim of its task may still delete the row, and the pause and resume     *)
(* routes, whose update has no condition, overwrite it.                     *)
OnlyAutomationsUndoSuccess ==
    [][\A e \in Exec : row[e].status = "SUCCESS"
          => \/ row'[e].status \in {"SUCCESS", "DELETED"}
             \/ Pause(e) \/ Resume(e)]_vars

(* No step writes FAILED on a task that is COMPLETED by then, whoever       *)
(* completed it and however its execution ended (COMPLETE-THEN-FAIL O4).    *)
NoFailedOnCompleted ==
    [][\A t \in Task : execStatus'[t] = "FAILED" /\ execStatus[t] # "FAILED"
          => taskStatus'[t] # "COMPLETED"]_vars

(* Whoever ends an active row with SUCCESS or FAILED, the cancel route      *)
(* apart, also takes its task out of PENDING and RUNNING, so that the task  *)
(* can be executed again.  (A paused row has not ended: it keeps its task   *)
(* until it is resumed.)                                                    *)
TerminalFreesTask ==
    [][\A e \in Exec : Active(e) /\ row'[e].status \in {"SUCCESS", "FAILED"}
          => \/ Cancel(e)
             \/ execStatus'[row[e].task] \notin {"PENDING", "RUNNING"}]_vars

(* The startup cleanup of one process never fails a stamped row that a live *)
(* process is executing, whatever happened since its scan.                  *)
StartupSparesStamped ==
    [][\A p \in Proc, e \in Exec :
          StartReap(p) /\ Active(e) /\ ~Active(e)' /\ row[e].owner # Null
              => ~Live(e)]_vars

(* The same of every row: "a restart of one must not reap the other's       *)
(* in-flight work" (agentExecutionEngine start()).  Stream rows break it.   *)
StartupSparesLiveRuns ==
    [][\A p \in Proc, e \in Exec :
          StartReap(p) /\ Active(e) /\ ~Active(e)' => ~Live(e)]_vars

(* COMPLETED is terminal: no execution that starts, fails or is reaped      *)
(* reopens the task (status-transitions.ts).  The stream route breaks it.   *)
CompletedIsTerminal ==
    [][\A t \in Task : taskStatus[t] = "COMPLETED" => taskStatus'[t] = "COMPLETED"]_vars

(* Once an execution of a leaf task succeeded the task is COMPLETED.        *)
SuccessMeansCompleted ==
    \A e \in Exec : row[e].status = "SUCCESS" => taskStatus[row[e].task] = "COMPLETED"

(* A lost claim means that the task is being executed: "Agent is already    *)
(* executing for this task" is the answer of both routes.  The REST route   *)
(* breaks it on a task that was never executed.                             *)
ClaimLostOnlyToExecution ==
    [][\A c \in Client : req[c].step = "claim" /\ req'[c].step = "cleanup"
          => execStatus[req[c].task] \in {"PENDING", "RUNNING"}]_vars

-----------------------------------------------------------------------------
(* Refinement *)

Holder(S) == CHOOSE e \in S : TRUE

Leases == [t \in Task |-> IF ActiveOf(t) = {} THEN Null ELSE Holder(ActiveOf(t))]

Lease == INSTANCE TaskLease WITH lease <- Leases

(* The active row is a lease on its task: no step hands a task from one     *)
(* active row to another, not even a claimer that revives a reaped row.     *)
ImplementsTaskLease == Lease!Spec

-----------------------------------------------------------------------------
(* Liveness *)

(* Every active row ends, whichever process dies and whatever throws.       *)
ActiveEnds == \A e \in Exec : Active(e) ~> ~Active(e)

=============================================================================
