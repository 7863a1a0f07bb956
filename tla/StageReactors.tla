---------------------------- MODULE StageReactors ----------------------------
(***************************************************************************)
(* A stage of dependent tasks inside a harness and the two task-ready      *)
(* reactors that start them: the scan for the dependents of a completed    *)
(* task and the check of a task that just got its agent, with the manual   *)
(* agent.execute, the terminal persists and the reaper that fire them, and *)
(* the walk that blocks the forward cone of a leg that failed for good.    *)
(*                                                                         *)
(* A reactor call is one step per database statement; its found keeps what *)
(* the scan returned.  Rows and claims obey AgentExecution; an insert and  *)
(* the OPEN -> IN_PROGRESS that follows it are one step here.              *)
(***************************************************************************)
EXTENDS Naturals, FiniteSets

CONSTANTS
    Task,     \* the tasks the stage may come to hold
    Kind,     \* Kind[t]: LEAF, PIPELINE (a leg) or GATE (APPROVAL, no agent)
    Dep,      \* Dep[t]: the tasks that t depends on, wired when it is created
    Slot,     \* slots for calls in flight: bounds their concurrency
    MaxDepth, \* MAX_CONE_DEPTH
    MaxHuman, \* bounds how often people re-execute
    Env       \* what this instance is exposed to

Exposures == {"crash",   \* processes die, with their runs and calls
              "fail",    \* runs fail in the ordinary way
              "quick"}   \* a run may be over before the calls that were in
                         \* flight when it was queued

ASSUME StageAssumption ==
    /\ Kind \in [Task -> {"LEAF", "PIPELINE", "GATE"}]
    /\ Dep \in [Task -> SUBSET Task]
    /\ MaxDepth \in Nat \ {0} /\ MaxHuman \in Nat
    /\ Env \subseteq Exposures

VARIABLES
    task,      \* the tasks
    call,      \* calls in flight
    humans,    \* how often people re-executed a task
    delivered, \* history: tasks that were COMPLETED with no active execution
    lost       \* history: a call died, or failed to queue what it had found

vars == <<task, call, humans, delivered, lost>>

-----------------------------------------------------------------------------
(* Types *)

(* exec ACTIVE stands for PENDING and RUNNING; agent: it has a template;    *)
(* success: it has a SUCCESS row.                                           *)
TaskRow == [status: {"ABSENT", "OPEN", "IN_PROGRESS", "COMPLETED"},
            exec: {"NULL", "ACTIVE", "SUCCESS", "FAILED"},
            row: {"NONE", "PENDING", "RUNNING"},
            agent: BOOLEAN, success: BOOLEAN]

CallSteps == {"idle", "defer", "completed", "scan", "queue",  \* dependents
              "born", "satisfied", "existing",                \* dependency-free
              "statuses", "settled", "execute"}               \* agent.execute

Call == [step: CallSteps, about: SUBSET Task, found: SUBSET Task]

(* The tasks and the calls keep their types.                                *)
TypeOK ==
    /\ task \in [Task -> TaskRow]
    /\ call \in [Slot -> Call]
    /\ humans \in 0..MaxHuman
    /\ delivered \subseteq Task
    /\ lost \in BOOLEAN

-----------------------------------------------------------------------------
(* Reading the tables *)

(* Variant: settledness is not asked for, as before F18 and H-5.            *)
UnsatisfiedByStatus(u) == task[u].status # "COMPLETED"

(* Variant: only activity is asked for.                                     *)
UnsatisfiedByRow(u) == task[u].row # "NONE"

(* upstreamUnsatisfiedCondSql: not COMPLETED, or its execution is active    *)
UnsatisfiedUpstream(u) == task[u].status # "COMPLETED" \/ task[u].row # "NONE"

Unsatisfied(t) == \E u \in Dep[t] : UnsatisfiedUpstream(u)

(* Variant: the scan does not ask whether the dependent is still OPEN.      *)
StatelessDependents(u) ==
    {t \in Task : /\ u \in Dep[t] /\ task[t].agent
                  /\ task[t].exec # "FAILED" /\ task[t].row = "NONE"
                  /\ ~Unsatisfied(t)}

(* What the scan returns for a completed task                               *)
ReadyDependents(u) ==
    {t \in Task : /\ u \in Dep[t]
                  /\ task[t].status = "OPEN" /\ task[t].agent
                  /\ task[t].exec # "FAILED"
                  /\ ~Unsatisfied(t)
                  /\ task[t].row = "NONE"}

(* The walk over the dependencies, depth by depth                           *)
Dependents(u) == {t \in Task : u \in Dep[t]}

Cone(u) ==
    LET Reach[i \in Nat] ==
          IF i = 0 THEN Dependents(u)
          ELSE UNION {{t} \cup Dependents(t) : t \in Reach[i - 1]}
    IN  Reach[MaxDepth - 1]

(* markForwardConeBlocked marks what may not run any more.                  *)
Blockable(t) ==
    /\ task[t].status \in {"OPEN", "IN_PROGRESS"}
    /\ task[t].exec \notin {"FAILED", "SUCCESS"}
    /\ task[t].row = "NONE" /\ ~task[t].success

Blocked(u) == {t \in Cone(u) : Blockable(t)}

-----------------------------------------------------------------------------
(* Calls *)

NoCall == [step |-> "idle", about |-> {}, found |-> {}]

IdleCall(s) == call[s].step = "idle"

CallOf(step, t) == [step |-> step, about |-> {t}, found |-> {}]

Fire(s, c) == IdleCall(s) /\ call' = [call EXCEPT ![s] = c]

Return(s) == call' = [call EXCEPT ![s] = NoCall]

(* Proceed to the next statement if the guard of this one holds.            *)
Guard(s, here, holds, next) ==
    /\ call[s].step = here
    /\ IF holds THEN call' = [call EXCEPT ![s].step = next] ELSE Return(s)
    /\ UNCHANGED <<task, humans, lost>>

The(s) == CHOOSE t \in call[s].about : TRUE

(* A leg that completed itself mid-run leaves its dependents to its         *)
(* terminal persist (finding 9).                                            *)
Defer(s) == Guard(s, "defer", task[The(s)].row = "NONE", "completed")

CheckCompleted(s) ==
    Guard(s, "completed", task[The(s)].status = "COMPLETED", "scan")

Scan(s) ==
    /\ call[s].step = "scan"
    /\ call' = [call EXCEPT ![s] =
         [step |-> "queue", about |-> {}, found |-> ReadyDependents(The(s))]]
    /\ UNCHANGED <<task, humans, lost>>

(* maybeQueueIfDepFree: the task as it is read first ...                    *)
CheckBorn(s) ==
    LET t == The(s) IN
    Guard(s, "born",
          /\ task[t].status = "OPEN" /\ task[t].agent /\ task[t].exec # "ACTIVE"
          /\ Dep[t] # {} => Kind[t] # "PIPELINE",
          "satisfied")

(* ... then its dependencies ...                                            *)
CheckSatisfied(s) == Guard(s, "satisfied", ~Unsatisfied(The(s)), "existing")

(* ... then its executions.                                                 *)
CheckExisting(s) ==
    LET t == The(s) IN
    /\ call[s].step = "existing"
    /\ call' = [call EXCEPT ![s] =
         IF task[t].row # "NONE" \/ task[t].success THEN NoCall
         ELSE [step |-> "queue", about |-> {}, found |-> {t}]]
    /\ UNCHANGED <<task, humans, lost>>

Inserted(t, exec) ==
    [task EXCEPT ![t].row = "PENDING", ![t].exec = exec,
                 ![t].status = IF @ = "OPEN" THEN "IN_PROGRESS" ELSE @]

(* A leg that cannot run, and with it its cone, is marked FAILED.           *)
LegFailed(t) ==
    [x \in Task |-> IF x = t \/ x \in Blocked(t)
                    THEN [task[x] EXCEPT !.exec = "FAILED"] ELSE task[x]]

(* createAgentExecution, for one task that was found                        *)
Queue(s, t) ==
    /\ call[s].step = "queue" /\ t \in call[s].found
    /\ task' = IF task[t].row = "NONE" THEN Inserted(t, task[t].exec) ELSE task
    /\ call' = [call EXCEPT ![s].found = @ \ {t}]
    /\ UNCHANGED <<humans, lost>>

(* ... refused for good: persistCanNeverRun                                 *)
Refuse(s, t) ==
    /\ call[s].step = "queue" /\ t \in call[s].found
    /\ Kind[t] = "PIPELINE" /\ task[t].row = "NONE"
    /\ task' = IF task[t].exec \notin {"FAILED", "SUCCESS"} /\ task[t].status # "COMPLETED"
               THEN LegFailed(t) ELSE task
    /\ call' = [call EXCEPT ![s].found = @ \ {t}]
    /\ UNCHANGED <<humans, lost>>

(* ... or an error that is logged and passed over                           *)
QueueThrows(s, t) ==
    /\ "crash" \in Env
    /\ call[s].step = "queue" /\ t \in call[s].found
    /\ call' = [call EXCEPT ![s].found = @ \ {t}]
    /\ lost' = TRUE
    /\ UNCHANGED <<task, humans>>

QueueEnds(s) ==
    /\ call[s].step = "queue" /\ call[s].found = {}
    /\ Return(s)
    /\ UNCHANGED <<task, humans, lost>>

(* agent.execute reads the statuses of the dependencies ...                 *)
Blocker(u) ==
    /\ task[u].status # "COMPLETED"
    /\ Kind[u] = "PIPELINE" \/ task[u].exec # "SUCCESS"

CheckStatuses(s) ==
    Guard(s, "statuses", \A u \in Dep[The(s)] : ~Blocker(u), "settled")

(* ... then their active executions ...                                     *)
CheckSettled(s) ==
    Guard(s, "settled", \A u \in Dep[The(s)] : task[u].row = "NONE", "execute")

(* ... and inserts the row and claims the task.                             *)
Execute(s) ==
    LET t == The(s) IN
    /\ call[s].step = "execute"
    /\ task' = IF task[t].row = "NONE" /\ task[t].agent
               THEN Inserted(t, "ACTIVE") ELSE task
    /\ Return(s)
    /\ UNCHANGED <<humans, lost>>

CallStep(s) ==
    \/ Defer(s) \/ CheckCompleted(s) \/ Scan(s)
    \/ CheckBorn(s) \/ CheckSatisfied(s) \/ CheckExisting(s)
    \/ \E t \in Task : Queue(s, t) \/ Refuse(s, t)
    \/ QueueEnds(s)
    \/ CheckStatuses(s) \/ CheckSettled(s) \/ Execute(s)

(* A process dies with a call in flight.                                    *)
CallDies(s) ==
    /\ "crash" \in Env /\ ~IdleCall(s)
    /\ Return(s)
    /\ lost' = TRUE
    /\ UNCHANGED <<task, humans>>

-----------------------------------------------------------------------------
(* The harness's agent and people *)

(* A gate is born IN_PROGRESS, everything else OPEN and without an agent.   *)
Create(t) ==
    /\ task[t].status = "ABSENT"
    /\ \A u \in Dep[t] : task[u].status # "ABSENT"
    /\ task' = [task EXCEPT ![t].status = IF Kind[t] = "GATE" THEN "IN_PROGRESS" ELSE "OPEN"]
    /\ UNCHANGED <<call, humans, lost>>

(* agent.assign; only a leaf is looked at.                                  *)
Assign(t, s) ==
    /\ Kind[t] # "GATE" /\ task[t].status # "ABSENT" /\ ~task[t].agent
    /\ task' = [task EXCEPT ![t].agent = TRUE]
    /\ IF Kind[t] = "LEAF" THEN Fire(s, CallOf("born", t)) ELSE UNCHANGED call
    /\ UNCHANGED <<humans, lost>>

(* agent.execute, for the first time or again                               *)
BeginExecute(t, s) ==
    /\ task[t].agent /\ task[t].row = "NONE"
    /\ task[t].status # "OPEN" => humans < MaxHuman
    /\ humans' = IF task[t].status = "OPEN" THEN humans ELSE humans + 1
    /\ Fire(s, CallOf("statuses", t))
    /\ UNCHANGED <<task, lost>>

(* assertCompletionDependenciesSatisfied                                    *)
Releasable(t) == ~Unsatisfied(t)

(* Variant: the reactor is fired for legs only.                             *)
FiredOnCompletion(t, s) ==
    IF Kind[t] = "PIPELINE" THEN Fire(s, CallOf("defer", t)) ELSE UNCHANGED call

(* fireCompletionReactors                                                   *)
FireCompletion(t, s) ==
    Fire(s, CallOf(IF Kind[t] = "PIPELINE" THEN "defer" ELSE "completed", t))

(* A person releases a gate.                                                *)
ReleaseGate(t, s) ==
    /\ Kind[t] = "GATE" /\ task[t].status = "IN_PROGRESS"
    /\ Releasable(t)
    /\ task' = [task EXCEPT ![t].status = "COMPLETED"]
    /\ FireCompletion(t, s)
    /\ UNCHANGED <<humans, lost>>

(* A run completes its own task and goes on, or a person completes it.      *)
Complete(t, s) ==
    /\ Kind[t] # "GATE" /\ task[t].status = "IN_PROGRESS"
    /\ task' = [task EXCEPT ![t].status = "COMPLETED"]
    /\ FireCompletion(t, s)
    /\ UNCHANGED <<humans, lost>>

(* The retrigger reactor re-enters a leg (PipelineHarness).                 *)
Reenter(t) ==
    /\ Kind[t] = "PIPELINE" /\ task[t].status = "IN_PROGRESS" /\ task[t].row = "NONE"
    /\ task' = [task EXCEPT ![t].row = "PENDING"]
    /\ UNCHANGED <<call, humans, lost>>

-----------------------------------------------------------------------------
(* Runs *)

StartRun(t) ==
    /\ task[t].row = "PENDING"
    /\ task' = [task EXCEPT ![t].row = "RUNNING", ![t].exec = "ACTIVE"]
    /\ UNCHANGED <<call, humans, lost>>

(* A run outlasts the reactor calls that were about to queue its task.      *)
MayEnd(t) ==
    \/ "quick" \in Env
    \/ \A s \in Slot :
          /\ t \notin call[s].found
          /\ call[s].step \in {"born", "satisfied", "existing"} => t \notin call[s].about

(* Every terminal persist fires the reactor, also after a failure.          *)
RunSucceeds(t, s) ==
    /\ task[t].row = "RUNNING" /\ MayEnd(t)
    /\ task' = [task EXCEPT ![t].row = "NONE", ![t].exec = "SUCCESS", ![t].success = TRUE,
         ![t].status = IF Kind[t] = "LEAF" THEN "COMPLETED" ELSE @]
    /\ Fire(s, CallOf("completed", t))
    /\ UNCHANGED <<humans, lost>>

(* The success persist of a leg that stalled, bailed or was a duplicate     *)
RunTerminalized(t, s) ==
    /\ Kind[t] = "PIPELINE" /\ task[t].row = "RUNNING" /\ MayEnd(t)
    /\ task[t].status # "COMPLETED"
    /\ task' = [LegFailed(t) EXCEPT ![t].row = "NONE", ![t].success = TRUE]
    /\ Fire(s, CallOf("completed", t))
    /\ UNCHANGED <<humans, lost>>

(* Variant: the task takes over the row's own status.                       *)
TerminatedByRow(t) == "TERMINATED"

(* writeTerminatedExecutionTaskStatus: never FAILED on a COMPLETED task     *)
Terminated(t) == IF task[t].status = "COMPLETED" THEN "NULL" ELSE "FAILED"

RunFails(t, s) ==
    /\ "fail" \in Env
    /\ task[t].row = "RUNNING" /\ MayEnd(t)
    /\ task' = [task EXCEPT ![t].row = "NONE", ![t].exec = Terminated(t)]
    /\ Fire(s, CallOf("completed", t))
    /\ UNCHANGED <<humans, lost>>

(* A reaper ends the row of a dead run: a leg takes its cone with it, unless *)
(* its own children will wake it.                                           *)
Reap(t, s, awaited) ==
    /\ "crash" \in Env /\ task[t].row # "NONE" /\ MayEnd(t)
    /\ awaited => Kind[t] = "PIPELINE"
    /\ task' = IF awaited \/ task[t].status = "COMPLETED"
               THEN [task EXCEPT ![t].row = "NONE", ![t].exec = "NULL"]
               ELSE IF Kind[t] = "PIPELINE" THEN [LegFailed(t) EXCEPT ![t].row = "NONE"]
               ELSE [task EXCEPT ![t].row = "NONE", ![t].exec = "FAILED"]
    /\ Fire(s, CallOf("completed", t))
    /\ UNCHANGED <<humans, lost>>

EndRun(t) == \E s \in Slot : RunSucceeds(t, s) \/ RunTerminalized(t, s) \/ RunFails(t, s)

-----------------------------------------------------------------------------
Init ==
    /\ task = [t \in Task |-> [status |-> "ABSENT", exec |-> "NULL", row |-> "NONE",
                               agent |-> FALSE, success |-> FALSE]]
    /\ call = [s \in Slot |-> NoCall]
    /\ humans = 0
    /\ delivered = {}
    /\ lost = FALSE

Step ==
    \/ \E s \in Slot : CallStep(s) \/ CallDies(s)
    \/ \E s \in Slot, t \in Task : QueueThrows(s, t)
    \/ \E t \in Task : Create(t) \/ Reenter(t) \/ StartRun(t) \/ EndRun(t)
    \/ \E t \in Task, s \in Slot :
          \/ Assign(t, s) \/ BeginExecute(t, s)
          \/ ReleaseGate(t, s) \/ Complete(t, s)
          \/ \E awaited \in BOOLEAN : Reap(t, s, awaited)

(* History: what has been COMPLETED with no active execution                *)
Delivered == {t \in Task : task[t].status = "COMPLETED" /\ task[t].row = "NONE"}

Next == Step /\ delivered' = delivered \cup Delivered'

Spec == Init /\ [][Next]_vars

(* Calls proceed, PENDING rows are claimed and runs end (AgentExecution     *)
(* shows that they do).  Nobody need create, assign, execute, complete or   *)
(* release anything, and nothing need crash.                                *)
Fairness ==
    /\ \A s \in Slot : WF_vars(CallStep(s) /\ delivered' = delivered \cup Delivered')
    /\ \A t \in Task :
          WF_vars((StartRun(t) \/ EndRun(t)) /\ delivered' = delivered \cup Delivered')

FairSpec == Spec /\ Fairness

-----------------------------------------------------------------------------
(* Properties *)

(* In motion: claimed at some time; a gate, released                        *)
Begun == {t \in Task : \/ task[t].status = "COMPLETED"
                       \/ task[t].status = "IN_PROGRESS" /\ Kind[t] # "GATE"}

Order == INSTANCE StageOrder WITH begun <- Begun, delivered <- delivered

(* The stage keeps the order of its dependencies: whoever starts a task, be *)
(* it either reactor, a person or the release of a gate, each upstream's    *)
(* deliverable is in by then (F18, H-5: no consumer chains an empty input). *)
ImplementsStageOrder == Order!Spec

(* A leaf nobody needs to wait for: what a reactor must start               *)
Waiting(t) ==
    /\ Kind[t] = "LEAF" /\ task[t].status = "OPEN" /\ task[t].agent
    /\ task[t].exec # "FAILED" /\ task[t].row = "NONE"
    /\ ~Unsatisfied(t)

(* Nobody forgets a ready leaf: once all calls have returned, none is left  *)
(* OPEN, whatever the order of creation, assignment, completion and persist *)
(* (gap (e), finding 9), unless a call died or failed.                      *)
NothingForgotten ==
    (\A s \in Slot : IdleCall(s)) /\ ~lost => \A t \in Task : ~Waiting(t)

(* No reactor call holds a task that a cone walk could reach: every task it *)
(* depends on, directly or not, is COMPLETED (the sole-writer argument of   *)
(* mark-forward-cone.ts, which no lock enforces).                           *)
ConeNeverHeld ==
    \A u \in Task : task[u].status # "COMPLETED" =>
        \A s \in Slot : Cone(u) \cap call[s].found = {}

(* A reactor never runs a task a second time: what it found is still to be  *)
(* started, or active, when it gets to it.                                  *)
NeverRequeued ==
    [][\A s \in Slot, t \in Task :
         Queue(s, t) /\ task[t].row = "NONE" => task[t].status = "OPEN"]_vars

(* A ready leaf is eventually started, failed or no longer ready.           *)
WaitingStarts == \A t \in Task : Waiting(t) ~> (~Waiting(t) \/ lost)

=============================================================================
