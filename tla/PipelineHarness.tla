--------------------------- MODULE PipelineHarness ---------------------------
(***************************************************************************)
(* A PIPELINE task (the harness) and the child stage it links: the runs of *)
(* the harness, the children it creates and dispatches, the retrigger      *)
(* reactor that re-enters the harness once every child has settled, the    *)
(* self-check against lost wake-ups, the re-entry budget and the reaper.   *)
(*                                                                         *)
(* A reactor call is one step per database statement; what it read in one  *)
(* statement and uses in a later one is kept in its slot.  The execution   *)
(* rows obey AgentExecution (at most one active row per task); what a      *)
(* child does between its rows is left to StageReactors.                   *)
(***************************************************************************)
EXTENDS Naturals, FiniteSets

CONSTANTS
    Child,    \* the tasks the child stage may come to hold
    Slot,     \* slots for reactor calls in flight: bounds their concurrency
    Owned,    \* the harness is itself a child of another harness: a program leg
    Budget,   \* MAX_HARNESS_REACTOR_GENERATIONS
    MaxHuman, \* bounds what people do
    Env       \* what this instance is exposed to

Exposures == {"crash",      \* the process of a run or of calls dies
              "human",      \* people re-execute and complete harness and children
              "close",      \* ... and complete the harness even between the read
                            \* and the write of a success persist
              "meddle",     \* ... and children even while a SYNTHESIZE works
              "spawn"}      \* PLAN-SPAWN: a SYNTHESIZE that creates children

ASSUME HarnessAssumption ==
    /\ Owned \in BOOLEAN
    /\ Budget \in Nat /\ MaxHuman \in Nat
    /\ Env \subseteq Exposures

VARIABLES
    task,    \* the harness task: status, executionStatus = FAILED, linked stage
    run,     \* its newest execution, and where the process running it stands
    child,   \* the children: status, executionStatus = FAILED, active execution
    retried, \* children re-executed by the harness since a person started it
    call,    \* reactor calls in flight
    humans,  \* how often people acted
    owed,    \* history: a child settled since the last SYNTHESIZE was resolved
    lost     \* history: the wake-up of a settled stage was lost, and nothing has
             \* woken the harness since

vars == <<task, run, child, retried, call, humans, owed, lost>>

-----------------------------------------------------------------------------
(* Types *)

Task == [status: {"IN_PROGRESS", "COMPLETED"}, failed: BOOLEAN, linked: BOOLEAN]

(* The resolver failed, or met a stage of another POV.                       *)
Unresolved == {"UNKNOWN", "CROSS_TENANT_DETECTED"}

Modes == {"CREATE", "ORCHESTRATE", "SYNTHESIZE"} \cup Unresolved

(* waiting: the row is PENDING; orphan: RUNNING, but its process is gone.    *)
RunSteps == {"ended", "waiting", "resolve", "working",
             "succeed", "terminalize", "orphan"}

(* generation: reactorGeneration, 0 for a run that a person started; recent: *)
(* created less than 30 s ago; sent: children this run dispatched.           *)
Run == [step: RunSteps, mode: Modes, sent: SUBSET Child,
        generation: 0..Budget, recent: BOOLEAN]

ChildTask == [status: {"ABSENT", "OPEN", "IN_PROGRESS", "COMPLETED"},
              failed: BOOLEAN, row: {"NONE", "PENDING", "RUNNING"}]

CallSteps == {"idle", "sent", "stage", "harness", "settled", "active",
              "debounce", "prior", "create", "premise", "flip"}

(* mode, dispatched: what the self-check goes by; bypass: bypassDebounce;    *)
(* generation: what Guard 8 read; stale: since then the harness got a newer  *)
(* execution.                                                                *)
Call == [step: CallSteps, mode: Modes, dispatched: BOOLEAN, bypass: BOOLEAN,
         generation: 0..Budget, stale: BOOLEAN]

(* The harness, its run, its children and the calls keep their types.        *)
TypeOK ==
    /\ task \in Task
    /\ run \in Run
    /\ child \in [Child -> ChildTask]
    /\ retried \subseteq Child
    /\ call \in [Slot -> Call]
    /\ humans \in 0..MaxHuman
    /\ owed \in BOOLEAN
    /\ lost \in BOOLEAN

-----------------------------------------------------------------------------
(* Reading the tables *)

Present == {c \in Child : child[c].status # "ABSENT"}

(* Variant: without the in-flight arm, as before RWF 1.1.                    *)
UnsettledByStatus(c) == child[c].status # "COMPLETED" /\ ~child[c].failed

(* unsettledChildWhere: not terminal, or with an active execution            *)
UnsettledChild(c) ==
    \/ child[c].status # "COMPLETED" /\ ~child[c].failed
    \/ child[c].row # "NONE"

Unsettled == {c \in Present : UnsettledChild(c)}

AllSettled == Present # {} /\ Unsettled = {}

(* The harness has a PENDING or RUNNING execution.                           *)
RunActive == run.step # "ended"

(* A live process is executing the harness.                                  *)
Executing == run.step \in {"resolve", "working", "succeed", "terminalize"}

Synthesizing ==
    run.mode = "SYNTHESIZE" /\ run.step \in {"working", "succeed", "terminalize"}

(* What resolveHarnessMode makes of both counts, in one snapshot             *)
ResolvedMode ==
    IF ~task.linked \/ Present = {} THEN "CREATE"
    ELSE IF Unsettled = {} THEN "SYNTHESIZE" ELSE "ORCHESTRATE"

(* ... unless it throws, or the linked stage is another POV's.               *)
ResolvedModes ==
    {ResolvedMode, "UNKNOWN"}
      \cup (IF task.linked THEN {"CROSS_TENANT_DETECTED"} ELSE {})

-----------------------------------------------------------------------------
(* Reactor calls *)

NoCall == [step |-> "idle", mode |-> "CREATE", dispatched |-> FALSE,
           bypass |-> FALSE, generation |-> 0, stale |-> FALSE]

IdleCall(s) == call[s].step = "idle"

(* maybeRetriggerPipelineHarness, fired by the end of a child                *)
RetriggerCall == [NoCall EXCEPT !.step = "harness"]

(* maybeSelfCheckLostWakeup: the mode is known on the success tail only.     *)
SelfCheckCall(mode) ==
    [NoCall EXCEPT !.step = "sent", !.mode = mode, !.dispatched = run.sent # {}]

StageCall == [NoCall EXCEPT !.step = "stage"]

BypassingCall == [NoCall EXCEPT !.step = "harness", !.bypass = TRUE]

Fire(s, c) == IdleCall(s) /\ call' = [call EXCEPT ![s] = c]

Return(s) == call' = [call EXCEPT ![s] = NoCall]

(* A call that will still create a run, or give up on a good premise         *)
Carrying(c) ==
    \/ c.step \in {"harness", "settled", "active", "debounce", "prior",
                   "create", "flip", "stage"}
    \/ c.step = "premise" /\ ~c.stale
    \/ c.step = "sent" /\ (c.dispatched \/ c.mode # "SYNTHESIZE")

(* The stage has settled, and no SYNTHESIZE has seen it.                     *)
Due == task.linked /\ AllSettled /\ owed /\ task.status = "IN_PROGRESS"

Owing == Due /\ ~task.failed

(* Its wake-up rests on the calls S alone.                                   *)
LastHope(S) ==
    Owing /\ ~RunActive /\ \A s \in Slot \ S : ~Carrying(call[s])

(* Proceed to the next statement if the guard of this one holds.             *)
Guard(s, here, holds, next) ==
    /\ call[s].step = here
    /\ IF holds THEN call' = [call EXCEPT ![s].step = next] ELSE Return(s)
    /\ UNCHANGED <<task, run, child, retried, humans, owed, lost>>

(* A run without a mode that dispatched nothing looks at nothing.            *)
Forgone(s, dispatched) ==
    lost' = (lost \/ (call[s].mode \in Unresolved /\ ~dispatched /\ LastHope({s})))

LooksAtStage(s) == call[s].mode \in {"CREATE", "ORCHESTRATE"}

(* Variant: the self-check has no dispatch fact.                             *)
CheckSentByMode(s) ==
    /\ call[s].step = "sent"
    /\ call' = [call EXCEPT ![s] =
         IF task.linked /\ LooksAtStage(s) THEN StageCall ELSE NoCall]
    /\ Forgone(s, FALSE)
    /\ UNCHANGED <<task, run, child, retried, humans, owed>>

(* The self-check: a child dispatched by this run fires; otherwise a run     *)
(* that was a CREATE or an ORCHESTRATE looks at the stage.                   *)
CheckSent(s) ==
    /\ call[s].step = "sent"
    /\ call' = [call EXCEPT ![s] =
         IF task.linked /\ call[s].dispatched THEN BypassingCall
         ELSE IF task.linked /\ LooksAtStage(s) THEN StageCall
         ELSE NoCall]
    /\ Forgone(s, call[s].dispatched)
    /\ UNCHANGED <<task, run, child, retried, humans, owed>>

CheckStage(s) ==
    /\ call[s].step = "stage"
    /\ call' = [call EXCEPT ![s] = IF AllSettled THEN BypassingCall ELSE NoCall]
    /\ UNCHANGED <<task, run, child, retried, humans, owed, lost>>

(* Guards 3 and 3b: a harness links this stage and is IN_PROGRESS.           *)
FindHarness(s) ==
    Guard(s, "harness", task.linked /\ task.status = "IN_PROGRESS", "settled")

(* Guards 4 and 5                                                            *)
CheckSettled(s) == Guard(s, "settled", AllSettled, "active")

(* Guard 6                                                                   *)
CheckActive(s) == Guard(s, "active", ~RunActive, "debounce")

(* Guard 7: within 30 s of the newest row's creation a call returns, even if *)
(* that run has ended or been reaped by now and no other call will follow.   *)
Debounce(s) ==
    /\ call[s].step = "debounce"
    /\ IF call[s].bypass \/ ~run.recent
       THEN call' = [call EXCEPT ![s].step = "prior"] /\ UNCHANGED lost
       ELSE Return(s) /\ lost' = (lost \/ LastHope({s}))
    /\ UNCHANGED <<task, run, child, retried, humans, owed>>

(* Variant: the budget is compared one too high.                             *)
ReadPriorOneHigh(s) ==
    /\ call[s].step = "prior"
    /\ call' = [call EXCEPT ![s] =
         IF run.generation > Budget
         THEN [NoCall EXCEPT !.step = "premise"]
         ELSE [NoCall EXCEPT !.step = "create", !.generation = run.generation]]
    /\ UNCHANGED <<task, run, child, retried, humans, owed, lost>>

(* Guard 8 reads the newest execution for its generation.                    *)
ReadPrior(s) ==
    /\ call[s].step = "prior"
    /\ call' = [call EXCEPT ![s] =
         IF run.generation >= Budget
         THEN [NoCall EXCEPT !.step = "premise"]
         ELSE [NoCall EXCEPT !.step = "create", !.generation = run.generation]]
    /\ UNCHANGED <<task, run, child, retried, humans, owed, lost>>

(* A new PENDING row of the harness: whatever calls have read of the newest  *)
(* execution is stale from now on.                                           *)
NewRun(generation) ==
    /\ run' = [step |-> "waiting", mode |-> "CREATE", sent |-> {},
               generation |-> generation, recent |-> TRUE]
    /\ lost' = FALSE

MadeStale == [s \in Slot |-> [call[s] EXCEPT !.stale = call[s].step = "premise"]]

(* createAgentExecution; the partial index rejects a second active row.      *)
CreateRun(s) ==
    /\ call[s].step = "create"
    /\ IF RunActive
       THEN Return(s) /\ UNCHANGED <<run, lost>>
       ELSE /\ NewRun(call[s].generation + 1)
            /\ call' = [MadeStale EXCEPT ![s] = NoCall]
    /\ UNCHANGED <<task, child, retried, humans, owed>>

(* handleReactorBudgetExhausted, first premise: no newer execution           *)
CheckPremise(s) == Guard(s, "premise", ~call[s].stale, "flip")

(* Variant: the mark without its compare-and-swap.                           *)
ExhaustAlways(s) ==
    /\ call[s].step = "flip"
    /\ task' = [task EXCEPT !.failed = TRUE]
    /\ Return(s)
    /\ UNCHANGED <<run, child, retried, humans, owed, lost>>

(* ... then the compare-and-swap: not COMPLETED, not FAILED, no active row   *)
Exhaust(s) ==
    /\ call[s].step = "flip"
    /\ task' = [task EXCEPT
         !.failed = @ \/ (task.status # "COMPLETED" /\ ~RunActive)]
    /\ Return(s)
    /\ UNCHANGED <<run, child, retried, humans, owed, lost>>

CallStep(s) ==
    \/ CheckSent(s) \/ CheckStage(s) \/ FindHarness(s) \/ CheckSettled(s)
    \/ CheckActive(s) \/ Debounce(s) \/ ReadPrior(s) \/ CreateRun(s)
    \/ CheckPremise(s) \/ Exhaust(s)

-----------------------------------------------------------------------------
(* Children *)

(* Whoever ends a child, or finishes it early, fires a reactor call.         *)
Settle(c, s, new) ==
    /\ child' = [child EXCEPT ![c] = new]
    /\ Fire(s, RetriggerCall)
    /\ owed' = (owed \/ (UnsettledChild(c) /\ new.row = "NONE"))
    /\ lost' = FALSE

Inserted(c) == [child EXCEPT ![c].row = "PENDING",
                             ![c].status = IF @ = "OPEN" THEN "IN_PROGRESS" ELSE @]

(* The ready reactors queue an OPEN child that has not failed.               *)
QueueChild(c) ==
    /\ child[c].status = "OPEN" /\ child[c].row = "NONE" /\ ~child[c].failed
    /\ child' = Inserted(c)
    /\ UNCHANGED <<task, run, retried, call, humans, owed, lost>>

(* The engine runs a PENDING child; the claim of agent.execute has by then   *)
(* taken it out of FAILED.                                                   *)
StartChild(c) ==
    /\ child[c].row = "PENDING"
    /\ child' = [child EXCEPT ![c].row = "RUNNING", ![c].failed = FALSE]
    /\ UNCHANGED <<task, run, retried, call, humans, owed, lost>>

(* The child completes itself with task.complete and goes on running.        *)
ChildCompletesItself(c, s) ==
    /\ child[c].row = "RUNNING" /\ child[c].status = "IN_PROGRESS"
    /\ Settle(c, s, [child[c] EXCEPT !.status = "COMPLETED"])
    /\ UNCHANGED <<task, run, retried, humans>>

ChildSucceeds(c, s) ==
    /\ child[c].row = "RUNNING"
    /\ Settle(c, s, [status |-> "COMPLETED", failed |-> FALSE, row |-> "NONE"])
    /\ UNCHANGED <<task, run, retried, humans>>

(* The child's execution fails or is reaped: never FAILED on a COMPLETED one *)
ChildFails(c, s) ==
    /\ child[c].row # "NONE"
    /\ Settle(c, s, [child[c] EXCEPT !.row = "NONE",
                                     !.failed = child[c].status # "COMPLETED"])
    /\ UNCHANGED <<task, run, retried, humans>>

(* persistCanNeverRun, on a child that was not started                       *)
ChildCanNeverRun(c, s) ==
    /\ child[c].status = "OPEN" /\ child[c].row = "NONE" /\ ~child[c].failed
    /\ Settle(c, s, [child[c] EXCEPT !.failed = TRUE])
    /\ UNCHANGED <<task, run, retried, humans>>

(* A person completes a child that is not running.                           *)
PersonCompletesChild(c, s) ==
    /\ "human" \in Env /\ humans < MaxHuman
    /\ child[c].status = "IN_PROGRESS" /\ child[c].row = "NONE"
    /\ Settle(c, s, [child[c] EXCEPT !.status = "COMPLETED"])
    /\ humans' = humans + 1
    /\ UNCHANGED <<task, run, retried>>

(* A person re-executes a child.                                             *)
PersonRunsChild(c) ==
    /\ "human" \in Env /\ humans < MaxHuman
    /\ Synthesizing => "meddle" \in Env
    /\ c \in Present /\ child[c].row = "NONE"
    /\ child' = Inserted(c)
    /\ humans' = humans + 1
    /\ UNCHANGED <<task, run, retried, call, owed, lost>>

ChildStep(c) ==
    \/ QueueChild(c) \/ StartChild(c)
    \/ \E s \in Slot : ChildSucceeds(c, s) \/ ChildFails(c, s)

-----------------------------------------------------------------------------
(* Runs of the harness *)

(* The engine claims the row.                                                *)
ClaimRun ==
    /\ run.step = "waiting"
    /\ run' = [run EXCEPT !.step = "resolve"]
    /\ UNCHANGED <<task, child, retried, call, humans, owed, lost>>

ResolveMode ==
    /\ run.step = "resolve"
    /\ \E mode \in ResolvedModes :
          /\ run' = [run EXCEPT !.step = "working", !.mode = mode]
          /\ owed' = (owed /\ mode # "SYNTHESIZE")
    /\ UNCHANGED <<task, child, retried, call, humans, lost>>

(* The agent records metadata.pipelineStageId; once set it is kept.          *)
LinkStage ==
    /\ run.step = "working" /\ ~task.linked
    /\ task' = [task EXCEPT !.linked = TRUE]
    /\ UNCHANGED <<run, child, retried, call, humans, owed, lost>>

CreateChild(c) ==
    /\ run.step = "working"
    /\ run.mode # "SYNTHESIZE" \/ "spawn" \in Env
    /\ child[c].status = "ABSENT"
    /\ child' = [child EXCEPT ![c].status = "OPEN"]
    /\ UNCHANGED <<task, run, retried, call, humans, owed, lost>>

(* Has the child had an execution before?                                    *)
Rerun(c) == child[c].status # "OPEN"

(* The agent dispatches a child with agent.execute; a child that ran before  *)
(* is re-executed once since a person started the pipeline.                  *)
Dispatch(c) ==
    /\ run.step = "working" /\ task.linked
    /\ c \in Present /\ child[c].row = "NONE"
    /\ Rerun(c) => c \notin retried
    /\ retried' = IF Rerun(c) THEN retried \cup {c} ELSE retried
    /\ child' = Inserted(c)
    /\ run' = [run EXCEPT !.sent = @ \cup {c}]
    /\ UNCHANGED <<task, call, humans, owed, lost>>

(* assertPipelineCompletionInvariant, then the task is COMPLETED.            *)
CompleteHarness ==
    /\ run.step = "working" /\ task.status = "IN_PROGRESS"
    /\ task.linked /\ AllSettled
    /\ task' = [task EXCEPT !.status = "COMPLETED"]
    /\ UNCHANGED <<run, child, retried, call, humans, owed, lost>>

Deciding == run.step \in {"succeed", "terminalize"}

(* A person completes the harness, under the same invariant.                 *)
PersonCompletesHarness ==
    /\ "human" \in Env /\ humans < MaxHuman
    /\ Deciding => "close" \in Env
    /\ task.status = "IN_PROGRESS" /\ task.linked /\ AllSettled
    /\ task' = [task EXCEPT !.status = "COMPLETED"]
    /\ humans' = humans + 1
    /\ UNCHANGED <<run, child, retried, call, owed, lost>>

(* The row is terminal; its generation and its age remain to be read.        *)
EndedRun == run' = [run EXCEPT !.step = "ended", !.mode = "CREATE", !.sent = {}]

(* The dead-end exemption: a child is unsettled, or was dispatched by this   *)
(* run.                                                                      *)
DeadEndExempt == Unsettled # {} \/ run.sent # {}

(* A run without output is a dead end when it never linked a stage or was a  *)
(* SYNTHESIZE that is not exempt.                                            *)
DeadEnd == ~task.linked \/ (run.mode = "SYNTHESIZE" /\ ~DeadEndExempt)

(* The success persist reads the task without locking it and decides...      *)
DecideOutcome(output) ==
    /\ run.step = "working"
    /\ run' = [run EXCEPT !.step =
         IF ~output /\ task.status # "COMPLETED" /\ DeadEnd
         THEN "terminalize" ELSE "succeed"]
    /\ UNCHANGED <<task, child, retried, call, humans, owed, lost>>

(* ... then writes the row and the task, never COMPLETED; the self-check     *)
(* follows the commit.                                                       *)
PersistSuccess(s) ==
    /\ Deciding
    /\ task' = [task EXCEPT !.failed = run.step = "terminalize"]
    /\ EndedRun
    /\ Fire(s, SelfCheckCall(run.mode))
    /\ UNCHANGED <<child, retried, humans, owed, lost>>

(* Variant: FAILED whatever the task's status.                               *)
FailedAlways == TRUE

(* writeTerminatedExecutionTaskStatus                                        *)
TerminatedFailed == task.status # "COMPLETED"

(* The failure persist; its self-check knows no mode, so that like that of a *)
(* SYNTHESIZE it goes by the dispatch fact alone.                            *)
PersistFailure(s) ==
    /\ run.step \in {"resolve", "working"}
    /\ task' = [task EXCEPT !.failed = TerminatedFailed]
    /\ EndedRun
    /\ Fire(s, SelfCheckCall("SYNTHESIZE"))
    /\ UNCHANGED <<child, retried, humans, owed, lost>>

(* A process dies, with the calls it is making, the harness run it is        *)
(* executing, or both.                                                       *)
Crash ==
    /\ "crash" \in Env
    /\ \E S \in SUBSET {s \in Slot : ~IdleCall(s)}, executor \in BOOLEAN :
          /\ S # {} \/ executor
          /\ executor => Executing
          /\ run' = IF executor
                    THEN [run EXCEPT !.step = "orphan", !.mode = "CREATE", !.sent = {}]
                    ELSE run
          /\ call' = [s \in Slot |-> IF s \in S THEN NoCall ELSE call[s]]
          /\ lost' = (lost \/ LastHope(S))
    /\ UNCHANGED <<task, child, retried, humans, owed>>

(* Variant: FAILED is not written for a reaped harness.                      *)
ReapedNever == FALSE

(* writeReapedTaskStatuses on a harness: FAILED only inside another harness, *)
(* and only when its own children cannot wake it.                            *)
ReapedFailed ==
    /\ task.status # "COMPLETED" /\ Owned
    /\ ~task.linked \/ Unsettled = {}

(* A reaper, or the cleanup at startup, flips the orphaned row at any age.   *)
(* It runs no self-check: a standalone harness whose stage has settled is    *)
(* left to a person, unless a call is still on its way.                      *)
Reap ==
    /\ run.step = "orphan"
    /\ EndedRun
    /\ task' = [task EXCEPT !.failed = ReapedFailed]
    /\ lost' = (lost \/ (~Owned /\ Due /\ \A s \in Slot : ~Carrying(call[s])))
    /\ UNCHANGED <<child, retried, call, humans, owed>>

(* A person re-executes the harness.                                         *)
PersonRunsHarness ==
    /\ "human" \in Env /\ humans < MaxHuman
    /\ ~RunActive
    /\ NewRun(0)
    /\ call' = MadeStale
    /\ task' = [task EXCEPT !.failed = FALSE]
    /\ retried' = {}
    /\ humans' = humans + 1
    /\ UNCHANGED <<child, owed>>

(* 30 seconds pass since the newest row was created.                         *)
Age ==
    /\ run.recent
    /\ run' = [run EXCEPT !.recent = FALSE]
    /\ UNCHANGED <<task, child, retried, call, humans, owed, lost>>

EndRun == \E s \in Slot : PersistSuccess(s) \/ PersistFailure(s)

RunStep ==
    \/ ClaimRun \/ ResolveMode \/ EndRun
    \/ \E output \in BOOLEAN : DecideOutcome(output)

-----------------------------------------------------------------------------
(* A person has created the harness and started it.                          *)
Init ==
    /\ task = [status |-> "IN_PROGRESS", failed |-> FALSE, linked |-> FALSE]
    /\ run = [step |-> "waiting", mode |-> "CREATE", sent |-> {},
              generation |-> 0, recent |-> TRUE]
    /\ child = [c \in Child |-> [status |-> "ABSENT", failed |-> FALSE, row |-> "NONE"]]
    /\ retried = {}
    /\ call = [s \in Slot |-> NoCall]
    /\ humans = 0
    /\ owed = FALSE
    /\ lost = FALSE

Next ==
    \/ \E s \in Slot : CallStep(s)
    \/ \E c \in Child : QueueChild(c) \/ StartChild(c) \/ PersonRunsChild(c)
    \/ \E c \in Child, s \in Slot :
          \/ ChildCompletesItself(c, s) \/ ChildSucceeds(c, s) \/ ChildFails(c, s)
          \/ ChildCanNeverRun(c, s) \/ PersonCompletesChild(c, s)
    \/ RunStep \/ LinkStage \/ CompleteHarness
    \/ \E c \in Child : CreateChild(c) \/ Dispatch(c)
    \/ Crash \/ Reap \/ PersonRunsHarness \/ PersonCompletesHarness \/ Age

Spec == Init /\ [][Next]_vars

(* Reactor calls proceed; rows are claimed, run and persisted (AgentExecution *)
(* shows that every active row ends); a stale RUNNING row is reaped; time     *)
(* passes.  The agent need not link, create, dispatch or complete anything,   *)
(* nobody need act, and nothing need crash.                                   *)
Fairness ==
    /\ \A s \in Slot : WF_vars(CallStep(s))
    /\ \A c \in Child : WF_vars(ChildStep(c))
    /\ WF_vars(RunStep) /\ WF_vars(Reap) /\ WF_vars(Age)

FairSpec == Spec /\ Fairness

-----------------------------------------------------------------------------
(* Properties *)

Quiet == ~RunActive /\ \A s \in Slot : IdleCall(s)

(* Nobody forgets the harness: when nothing of it is running or in flight,   *)
(* all its children have settled and it is neither COMPLETED nor FAILED,     *)
(* a SYNTHESIZE has seen the last of them settle.  "It never hangs" (program *)
(* harness user guide, 7), and the reason for the lost-wakeup self-check.    *)
(* The code leaves four ways to lose the last wake-up, and no other: it dies *)
(* with a process; a standalone harness is reaped over a settled stage; the  *)
(* 30 s debounce returns it although the young run has ended or been reaped; *)
(* or the run that should have looked had no mode (UNKNOWN, CROSS_TENANT).   *)
NoLostWakeup == Quiet /\ Owing => lost

AtWork == {c \in Present : child[c].row # "NONE"}

(* A SYNTHESIZE works on settled children: what is in flight meanwhile is    *)
(* only what the run itself dispatched (child-stage-settled.ts, E1 and E2).  *)
SynthesisOverSettled == Synthesizing => AtWork \subseteq run.sent

(* No writer of the harness's status, be it a persist, a reaper or the       *)
(* exhausted budget, marks a COMPLETED harness FAILED (O4): not even when a  *)
(* person completes it, unless between the read and the write of a success   *)
(* persist, which locks nothing ("close").                                   *)
NoFailedOnCompleted ==
    [][task'.failed /\ ~task.failed => task'.status # "COMPLETED"]_vars

(* The exhausted budget never fails a harness that is being executed.        *)
ExhaustionSparesRuns ==
    [][\A s \in Slot : Exhaust(s) /\ ~task.failed /\ task'.failed => ~RunActive]_vars

(* A settled stage is synthesised, or the harness is COMPLETED or FAILED,    *)
(* unless a child goes back to work or the wake-up is lost in one of the     *)
(* four ways of NoLostWakeup.                                                *)
SettledIsHandled == Owing ~> ~Owing \/ lost

=============================================================================
