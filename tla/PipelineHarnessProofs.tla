----------------------- MODULE PipelineHarnessProofs -----------------------
(***************************************************************************)
(* What holds of PipelineHarness for every number of children, calls and   *)
(* re-entries.  Types and the outcome marks hold for every exposure; that  *)
(* no wake-up is lost, but in the ways the model counts, needs the         *)
(* exposures "meddle" and "spawn" absent, and fails with them.             *)
(***************************************************************************)
EXTENDS PipelineHarness, TLAPS

(* Guard 8 let a call pass only below the budget.                            *)
BelowBudget == \A s \in Slot : call[s].step = "create" => call[s].generation < Budget

Typed == TypeOK /\ BelowBudget

(* A dead end is declared only of a task that is not COMPLETED, and nothing  *)
(* completes it between the decision and the write ("close" is excluded).    *)
DeadEndOpen == run.step = "terminalize" => task.status = "IN_PROGRESS"

(* An absent child has neither a row nor an outcome.                         *)
AbsentIdle == \A c \in Child :
    child[c].status = "ABSENT" => child[c].row = "NONE" /\ ~child[c].failed

(* A SYNTHESIZE works on a linked stage whose only unsettled children are    *)
(* those it dispatched.                                                      *)
SynthesisInv ==
    Synthesizing => task.linked /\ Present # {} /\ Unsettled \subseteq run.sent

(* As long as it dispatched nothing, nothing has settled since it resolved.  *)
SynthesisOwesNothing == Synthesizing /\ run.sent = {} => ~owed

(* A settled stage that no SYNTHESIZE has seen is in the hands of a run or   *)
(* of a call, or its wake-up is known to be lost.                            *)
WakeupPending == Owing => lost \/ RunActive \/ \E s \in Slot : Carrying(call[s])

WakeupInv ==
    /\ AbsentIdle /\ SynthesisInv
    /\ SynthesisOwesNothing /\ WakeupPending

(* People keep their hands off, and synthesis creates no children.           *)
Undisturbed == Env \cap {"meddle", "spawn"} = {}

-----------------------------------------------------------------------------
(* Types *)

(* Initially everything has its type.                                       *)
LEMMA InitTyped == Init => Typed
<1> SUFFICES ASSUME Init PROVE Typed
  OBVIOUS
<1> USE DEF Init
<1>1. task \in Task
  BY DEF Task
<1>2. run \in Run
  BY HarnessAssumption DEF Run, RunSteps, Modes
<1>3. child \in [Child -> ChildTask]
  BY DEF ChildTask
<1>4. call \in [Slot -> Call] /\ BelowBudget
  <2>1. NoCall \in Call /\ NoCall.step # "create"
    BY HarnessAssumption DEF NoCall, Call, CallSteps, Modes
  <2> QED BY <2>1 DEF BelowBudget
<1>5. retried \subseteq Child /\ owed \in BOOLEAN /\ lost \in BOOLEAN
  OBVIOUS
<1>6. humans \in 0..MaxHuman
  BY HarnessAssumption
<1> QED BY <1>1, <1>2, <1>3, <1>4, <1>5, <1>6 DEF Typed, TypeOK

(* What a call is sent on with, or reset to, is a call.                     *)
LEMMA CallsTyped ==
    /\ NoCall \in Call /\ RetriggerCall \in Call
    /\ StageCall \in Call /\ BypassingCall \in Call
    /\ [NoCall EXCEPT !.step = "premise"] \in Call
    /\ \A mode \in Modes : SelfCheckCall(mode) \in Call
<1>1. NoCall \in Call
  BY HarnessAssumption DEF NoCall, Call, CallSteps, Modes
<1>2. /\ RetriggerCall \in Call /\ StageCall \in Call /\ BypassingCall \in Call
      /\ [NoCall EXCEPT !.step = "premise"] \in Call
  BY <1>1 DEF Call, CallSteps, RetriggerCall, StageCall, BypassingCall
<1>3. ASSUME NEW mode \in Modes PROVE SelfCheckCall(mode) \in Call
  BY <1>1 DEF Call, CallSteps, SelfCheckCall
<1> QED BY <1>1, <1>2, <1>3

(* Replacing one call by another that does not stand at "create".            *)
LEMMA CallReplaced ==
    ASSUME Typed, NEW s, NEW c \in Call, c.step # "create",
           call' = [call EXCEPT ![s] = c]
    PROVE  call' \in [Slot -> Call] /\ BelowBudget'
BY DEF Typed, TypeOK, BelowBudget

LEMMA NoCallIsIdle ==
    /\ NoCall.step = "idle" /\ RetriggerCall.step = "harness"
    /\ StageCall.step = "stage" /\ BypassingCall.step = "harness"
    /\ [NoCall EXCEPT !.step = "premise"].step = "premise"
    /\ \A mode \in Modes : SelfCheckCall(mode).step = "sent"
BY DEF NoCall, RetriggerCall, StageCall, BypassingCall, SelfCheckCall

LEMMA ReturnTyped ==
    ASSUME Typed, NEW s, Return(s)
    PROVE  call' \in [Slot -> Call] /\ BelowBudget'
BY CallsTyped, NoCallIsIdle, CallReplaced DEF Return

LEMMA GuardTyped ==
    ASSUME Typed, NEW s \in Slot, NEW here, NEW holds \in BOOLEAN,
           NEW next \in CallSteps \ {"create"}, Guard(s, here, holds, next)
    PROVE  Typed'
<1>1. call' \in [Slot -> Call] /\ BelowBudget'
  <2>1. CASE holds
    <3>1. call[s] \in Call
      BY DEF Typed, TypeOK
    <3>2. [call[s] EXCEPT !.step = next] \in Call
      BY <3>1 DEF Call
    <3>3. [call[s] EXCEPT !.step = next].step # "create"
      BY <3>1 DEF Call
    <3>4. call' = [call EXCEPT ![s] = [call[s] EXCEPT !.step = next]]
      BY <2>1 DEF Guard
    <3> QED BY <3>2, <3>3, <3>4, CallReplaced
  <2>2. CASE ~holds
    BY <2>2, ReturnTyped DEF Guard
  <2> QED BY <2>1, <2>2
<1>2. UNCHANGED <<task, run, child, retried, humans, owed, lost>>
  BY DEF Guard
<1> QED BY <1>1, <1>2 DEF Typed, TypeOK

(* Every statement of a reactor call keeps the types.                       *)
LEMMA CallStepTyped ==
    ASSUME Typed, NEW s \in Slot, CallStep(s)
    PROVE  Typed'
<1>1. CASE CheckSent(s)
  <2>1. call' \in [Slot -> Call] /\ BelowBudget'
    BY <1>1, CallsTyped, NoCallIsIdle, CallReplaced DEF CheckSent
  <2>2. lost' \in BOOLEAN
    BY <1>1 DEF CheckSent, Forgone
  <2> QED BY <1>1, <2>1, <2>2 DEF CheckSent, Typed, TypeOK
<1>2. CASE CheckStage(s)
  <2>1. call' \in [Slot -> Call] /\ BelowBudget'
    BY <1>2, CallsTyped, NoCallIsIdle, CallReplaced DEF CheckStage
  <2> QED BY <1>2, <2>1 DEF CheckStage, Typed, TypeOK
<1>3. CASE FindHarness(s)
  <2>1. (task.linked /\ task.status = "IN_PROGRESS") \in BOOLEAN
    BY DEF Typed, TypeOK, Task
  <2> QED BY <1>3, <2>1, GuardTyped DEF FindHarness, CallSteps
<1>4. CASE CheckSettled(s)
  <2>1. AllSettled \in BOOLEAN
    BY DEF AllSettled
  <2> QED BY <1>4, <2>1, GuardTyped DEF CheckSettled, CallSteps
<1>5. CASE CheckActive(s)
  <2>1. (~RunActive) \in BOOLEAN
    BY DEF RunActive
  <2> QED BY <1>5, <2>1, GuardTyped DEF CheckActive, CallSteps
<1>6. CASE Debounce(s)
  <2>1. call' \in [Slot -> Call] /\ BelowBudget'
    <3>1. CASE call[s].bypass \/ ~run.recent
      <4>1. call[s] \in Call
        BY DEF Typed, TypeOK
      <4>2. [call[s] EXCEPT !.step = "prior"] \in Call
        BY <4>1 DEF Call, CallSteps
      <4>3. [call[s] EXCEPT !.step = "prior"].step # "create"
        BY <4>1 DEF Call
      <4>4. call' = [call EXCEPT ![s] = [call[s] EXCEPT !.step = "prior"]]
        BY <1>6, <3>1 DEF Debounce
      <4> QED BY <4>2, <4>3, <4>4, CallReplaced
    <3>2. CASE ~(call[s].bypass \/ ~run.recent)
      BY <1>6, <3>2, ReturnTyped DEF Debounce
    <3> QED BY <3>1, <3>2
  <2>2. lost' \in BOOLEAN
    BY <1>6 DEF Debounce, Typed, TypeOK
  <2> QED BY <1>6, <2>1, <2>2 DEF Debounce, Typed, TypeOK
<1>7. CASE ReadPrior(s)
  <2>1. run.generation \in 0..Budget
    BY DEF Typed, TypeOK, Run
  <2>2. CASE run.generation >= Budget
    <3>1. call' \in [Slot -> Call] /\ BelowBudget'
      BY <1>7, <2>2, CallsTyped, NoCallIsIdle, CallReplaced DEF ReadPrior
    <3> QED BY <1>7, <3>1 DEF ReadPrior, Typed, TypeOK
  <2>3. CASE ~(run.generation >= Budget)
    <3> DEFINE C == [NoCall EXCEPT !.step = "create", !.generation = run.generation]
    <3>1. C \in Call /\ C.generation < Budget
      <4>1. NoCall \in Call
        BY CallsTyped
      <4>2. run.generation < Budget
        BY <2>1, <2>3, HarnessAssumption
      <4> QED BY <2>1, <4>1, <4>2 DEF Call, CallSteps
    <3>2. call' = [call EXCEPT ![s] = C]
      BY <1>7, <2>3 DEF ReadPrior
    <3> HIDE DEF C
    <3>3. call' \in [Slot -> Call] /\ BelowBudget'
      BY <3>1, <3>2 DEF Typed, TypeOK, BelowBudget
    <3> QED BY <1>7, <3>3 DEF ReadPrior, Typed, TypeOK
  <2> QED BY <2>2, <2>3
<1>8. CASE CreateRun(s)
  <2>1. CASE RunActive
    BY <1>8, <2>1, ReturnTyped DEF CreateRun, Typed, TypeOK
  <2>2. CASE ~RunActive
    <3>1. call[s] \in Call /\ call[s].generation < Budget
      BY <1>8 DEF CreateRun, Typed, TypeOK, BelowBudget
    <3>2. run' \in Run
      <4>1. call[s].generation + 1 \in 0..Budget
        BY <3>1, HarnessAssumption DEF Call
      <4>2. NewRun(call[s].generation + 1)
        BY <1>8, <2>2 DEF CreateRun
      <4> QED BY <4>1, <4>2 DEF NewRun, Run, RunSteps, Modes
    <3>3. \A t \in Slot : MadeStale[t] \in Call /\ MadeStale[t].step = call[t].step
                          /\ MadeStale[t].generation = call[t].generation
      BY DEF MadeStale, Typed, TypeOK, Call
    <3>4. MadeStale \in [Slot -> Call]
      BY <3>3 DEF MadeStale
    <3>5. call' = [MadeStale EXCEPT ![s] = NoCall]
      BY <1>8, <2>2 DEF CreateRun
    <3>6. call' \in [Slot -> Call] /\ BelowBudget'
      BY <3>3, <3>4, <3>5, CallsTyped, NoCallIsIdle DEF Typed, BelowBudget
    <3>7. lost' \in BOOLEAN
      BY <1>8, <2>2 DEF CreateRun, NewRun
    <3> QED BY <1>8, <2>2, <3>2, <3>6, <3>7 DEF CreateRun, Typed, TypeOK
  <2> QED BY <2>1, <2>2
<1>9. CASE CheckPremise(s)
  <2>1. (~call[s].stale) \in BOOLEAN
    BY DEF Typed, TypeOK, Call
  <2> QED BY <1>9, <2>1, GuardTyped DEF CheckPremise, CallSteps
<1>10. CASE Exhaust(s)
  <2>1. task' \in Task
    BY <1>10 DEF Exhaust, Typed, TypeOK, Task
  <2> QED BY <1>10, <2>1, ReturnTyped DEF Exhaust, Typed, TypeOK
<1> QED BY <1>1, <1>2, <1>3, <1>4, <1>5, <1>6, <1>7, <1>8, <1>9, <1>10 DEF CallStep

(* Whoever fires a call keeps the types of the calls.                       *)
LEMMA FireTyped ==
    ASSUME Typed, NEW s, NEW c \in Call, c.step # "create", Fire(s, c)
    PROVE  call' \in [Slot -> Call] /\ BelowBudget'
BY CallReplaced DEF Fire

LEMMA SettleTyped ==
    ASSUME Typed, NEW c \in Child, NEW s, NEW new \in ChildTask, Settle(c, s, new),
           UNCHANGED <<task, run, retried>>, humans' \in 0..MaxHuman
    PROVE  Typed'
<1>1. call' \in [Slot -> Call] /\ BelowBudget'
  BY CallsTyped, NoCallIsIdle, FireTyped DEF Settle
<1>2. child' \in [Child -> ChildTask]
  BY DEF Settle, Typed, TypeOK
<1>3. owed' \in BOOLEAN /\ lost' \in BOOLEAN
  BY DEF Settle
<1> QED BY <1>1, <1>2, <1>3 DEF Typed, TypeOK

LEMMA InsertedTyped ==
    ASSUME Typed, NEW c \in Child, child[c].status # "ABSENT"
    PROVE  Inserted(c) \in [Child -> ChildTask]
<1>1. child[c] \in ChildTask
  BY DEF Typed, TypeOK
<1>2. [child[c] EXCEPT !.row = "PENDING",
                       !.status = IF @ = "OPEN" THEN "IN_PROGRESS" ELSE @] \in ChildTask
  BY <1>1 DEF ChildTask
<1> QED BY <1>2 DEF Inserted, Typed, TypeOK

(* What children and the people at them do keeps the types.                 *)
LEMMA ChildTyped ==
    ASSUME Typed, NEW c \in Child, NEW s,
           \/ QueueChild(c) \/ StartChild(c) \/ PersonRunsChild(c)
           \/ ChildCompletesItself(c, s) \/ ChildSucceeds(c, s) \/ ChildFails(c, s)
           \/ ChildCanNeverRun(c, s) \/ PersonCompletesChild(c, s)
    PROVE  Typed'
<1>1. child[c] \in ChildTask
  BY DEF Typed, TypeOK
<1>2. \A status \in {"OPEN", "IN_PROGRESS", "COMPLETED"}, failed \in BOOLEAN,
         row \in {"NONE", "PENDING", "RUNNING"} :
           [status |-> status, failed |-> failed, row |-> row] \in ChildTask
  BY DEF ChildTask
<1>3. humans \in 0..MaxHuman
  BY DEF Typed, TypeOK
<1>4. humans < MaxHuman => humans + 1 \in 0..MaxHuman
  BY <1>3, HarnessAssumption
<1>5. UNCHANGED call => UNCHANGED BelowBudget
  BY DEF BelowBudget
<1>6. CASE QueueChild(c)
  <2>1. child' \in [Child -> ChildTask]
    BY <1>6, InsertedTyped DEF QueueChild
  <2> QED BY <1>5, <1>6, <2>1 DEF QueueChild, Typed, TypeOK
<1>7. CASE StartChild(c)
  <2>1. [child[c] EXCEPT !.row = "RUNNING", !.failed = FALSE] \in ChildTask
    BY <1>1 DEF ChildTask
  <2>2. child' = [child EXCEPT ![c] = [child[c] EXCEPT !.row = "RUNNING", !.failed = FALSE]]
    BY <1>7 DEF StartChild
  <2>3. child' \in [Child -> ChildTask]
    BY <2>1, <2>2 DEF Typed, TypeOK
  <2> QED BY <1>5, <1>7, <2>3 DEF StartChild, Typed, TypeOK
<1>8. CASE PersonRunsChild(c)
  <2>1. child' \in [Child -> ChildTask]
    BY <1>8, InsertedTyped DEF PersonRunsChild, Present
  <2> QED BY <1>4, <1>5, <1>8, <2>1 DEF PersonRunsChild, Typed, TypeOK
<1>9. CASE ChildCompletesItself(c, s)
  <2>1. [child[c] EXCEPT !.status = "COMPLETED"] \in ChildTask
    BY <1>1 DEF ChildTask
  <2> QED BY <1>3, <1>9, <2>1, SettleTyped DEF ChildCompletesItself
<1>10. CASE ChildSucceeds(c, s)
  BY <1>2, <1>3, <1>10, SettleTyped DEF ChildSucceeds
<1>11. CASE ChildFails(c, s)
  <2>1. [child[c] EXCEPT !.row = "NONE", !.failed = child[c].status # "COMPLETED"] \in ChildTask
    BY <1>1 DEF ChildTask
  <2> QED BY <1>3, <1>11, <2>1, SettleTyped DEF ChildFails
<1>12. CASE ChildCanNeverRun(c, s)
  <2>1. [child[c] EXCEPT !.failed = TRUE] \in ChildTask
    BY <1>1 DEF ChildTask
  <2> QED BY <1>3, <1>12, <2>1, SettleTyped DEF ChildCanNeverRun
<1>13. CASE PersonCompletesChild(c, s)
  <2>1. [child[c] EXCEPT !.status = "COMPLETED"] \in ChildTask
    BY <1>1 DEF ChildTask
  <2> QED BY <1>4, <1>13, <2>1, SettleTyped DEF PersonCompletesChild
<1> QED BY <1>6, <1>7, <1>8, <1>9, <1>10, <1>11, <1>12, <1>13

(* What a run and its agent do keeps the types.                             *)
LEMMA RunTyped ==
    ASSUME Typed,
           \/ RunStep \/ LinkStage \/ CompleteHarness
           \/ \E c \in Child : CreateChild(c) \/ Dispatch(c)
    PROVE  Typed'
<1> USE DEF Typed, TypeOK
<1>1. UNCHANGED call => UNCHANGED BelowBudget
  BY DEF BelowBudget
<1>2. \A step \in RunSteps : [run EXCEPT !.step = step] \in Run
  BY DEF Run
<1>3. ASSUME EndedRun PROVE run' \in Run
  BY <1>3 DEF EndedRun, Run, RunSteps, Modes
<1>4. CASE ClaimRun
  BY <1>1, <1>2, <1>4 DEF ClaimRun, RunSteps
<1>5. CASE ResolveMode
  <2>1. PICK mode \in ResolvedModes :
           /\ run' = [run EXCEPT !.step = "working", !.mode = mode]
           /\ owed' = (owed /\ mode # "SYNTHESIZE")
    BY <1>5 DEF ResolveMode
  <2>2. mode \in Modes
    BY DEF ResolvedModes, ResolvedMode, Modes, Unresolved
  <2>3. run' \in Run /\ owed' \in BOOLEAN
    BY <2>1, <2>2 DEF Run, RunSteps
  <2> QED BY <1>1, <1>5, <2>3 DEF ResolveMode
<1>6. CASE \E s \in Slot : PersistSuccess(s)
  <2> PICK s \in Slot : PersistSuccess(s)
    BY <1>6
  <2>1. task' \in Task /\ run' \in Run
    BY <1>3 DEF PersistSuccess, Task
  <2>2. SelfCheckCall(run.mode) \in Call /\ SelfCheckCall(run.mode).step # "create"
    BY CallsTyped, NoCallIsIdle DEF Run
  <2>3. call' \in [Slot -> Call] /\ BelowBudget'
    BY <2>2, FireTyped DEF PersistSuccess
  <2> QED BY <2>1, <2>3 DEF PersistSuccess
<1>7. CASE \E s \in Slot : PersistFailure(s)
  <2> PICK s \in Slot : PersistFailure(s)
    BY <1>7
  <2>1. task' \in Task /\ run' \in Run
    BY <1>3 DEF PersistFailure, Task, TerminatedFailed
  <2>2. SelfCheckCall("SYNTHESIZE") \in Call /\ SelfCheckCall("SYNTHESIZE").step # "create"
    BY CallsTyped, NoCallIsIdle DEF Modes
  <2>3. call' \in [Slot -> Call] /\ BelowBudget'
    BY <2>2, FireTyped DEF PersistFailure
  <2> QED BY <2>1, <2>3 DEF PersistFailure
<1>8. ASSUME NEW output \in BOOLEAN, DecideOutcome(output) PROVE Typed'
  BY <1>1, <1>2, <1>8 DEF DecideOutcome, RunSteps
<1>9. CASE LinkStage
  BY <1>1, <1>9 DEF LinkStage, Task
<1>10. CASE CompleteHarness
  BY <1>1, <1>10 DEF CompleteHarness, Task
<1>11. ASSUME NEW c \in Child, CreateChild(c) PROVE Typed'
  <2>1. child[c] \in ChildTask
    OBVIOUS
  <2>2. [child[c] EXCEPT !.status = "OPEN"] \in ChildTask
    BY <2>1 DEF ChildTask
  <2>3. child' = [child EXCEPT ![c] = [child[c] EXCEPT !.status = "OPEN"]]
    BY <1>11 DEF CreateChild
  <2> QED BY <1>1, <1>11, <2>2, <2>3 DEF CreateChild
<1>12. ASSUME NEW c \in Child, Dispatch(c) PROVE Typed'
  <2>1. child' \in [Child -> ChildTask]
    BY <1>12, InsertedTyped DEF Dispatch, Present
  <2>2. run' \in Run
    BY <1>12 DEF Dispatch, Run
  <2>3. retried' \subseteq Child
    BY <1>12 DEF Dispatch
  <2> QED BY <1>1, <1>12, <2>1, <2>2, <2>3 DEF Dispatch
<1> QED BY <1>4, <1>5, <1>6, <1>7, <1>8, <1>9, <1>10, <1>11, <1>12 DEF RunStep, EndRun

(* Crashes, the reaper, people and time keep the types.                     *)
LEMMA OutsideTyped ==
    ASSUME Typed, Crash \/ Reap \/ PersonRunsHarness \/ PersonCompletesHarness \/ Age
    PROVE  Typed'
<1> USE DEF Typed, TypeOK
<1>1. UNCHANGED call => UNCHANGED BelowBudget
  BY DEF BelowBudget
<1>2. CASE Crash
  <2>1. PICK S \in SUBSET Slot, executor \in BOOLEAN :
           /\ run' = IF executor
                     THEN [run EXCEPT !.step = "orphan", !.mode = "CREATE", !.sent = {}]
                     ELSE run
           /\ call' = [s \in Slot |-> IF s \in S THEN NoCall ELSE call[s]]
           /\ lost' = (lost \/ LastHope(S))
    BY <1>2 DEF Crash
  <2>2. run' \in Run
    BY <2>1 DEF Run, RunSteps, Modes
  <2>3. call' \in [Slot -> Call] /\ BelowBudget'
    BY <2>1, CallsTyped, NoCallIsIdle DEF BelowBudget
  <2>4. lost' \in BOOLEAN
    BY <2>1
  <2> QED BY <1>2, <2>2, <2>3, <2>4 DEF Crash
<1>3. CASE Reap
  <2>1. run' \in Run
    BY <1>3 DEF Reap, EndedRun, Run, RunSteps, Modes
  <2>2. ReapedFailed \in BOOLEAN
    BY HarnessAssumption DEF ReapedFailed
  <2>3. task' \in Task
    BY <1>3, <2>2 DEF Reap, Task
  <2>4. lost' \in BOOLEAN
    BY <1>3 DEF Reap
  <2> QED BY <1>1, <1>3, <2>1, <2>3, <2>4 DEF Reap
<1>4. CASE PersonRunsHarness
  <2>1. run' \in Run
    BY <1>4, HarnessAssumption DEF PersonRunsHarness, NewRun, Run, RunSteps, Modes
  <2>2. \A t \in Slot : MadeStale[t] \in Call /\ MadeStale[t].step = call[t].step
                        /\ MadeStale[t].generation = call[t].generation
    BY DEF MadeStale, Call
  <2>3. MadeStale \in [Slot -> Call]
    BY <2>2 DEF MadeStale
  <2>4. call' \in [Slot -> Call] /\ BelowBudget'
    BY <1>4, <2>2, <2>3 DEF PersonRunsHarness, BelowBudget
  <2>5. task' \in Task
    BY <1>4 DEF PersonRunsHarness, Task
  <2>6. humans' \in 0..MaxHuman
    BY <1>4, HarnessAssumption DEF PersonRunsHarness
  <2>7. lost' \in BOOLEAN
    BY <1>4 DEF PersonRunsHarness, NewRun
  <2> QED BY <1>4, <2>1, <2>4, <2>5, <2>6, <2>7 DEF PersonRunsHarness
<1>5. CASE Age
  BY <1>1, <1>5 DEF Age, Run
<1>6. CASE PersonCompletesHarness
  <2>1. humans' \in 0..MaxHuman
    BY <1>6, HarnessAssumption DEF PersonCompletesHarness
  <2> QED BY <1>1, <1>6, <2>1 DEF PersonCompletesHarness, Task
<1> QED BY <1>2, <1>3, <1>4, <1>5, <1>6

LEMMA StutterTyped == Typed /\ UNCHANGED vars => Typed'
BY DEF Typed, TypeOK, BelowBudget, vars

LEMMA NextTyped ==
    ASSUME Typed, [Next]_vars
    PROVE  Typed'
<1> HIDE DEF Typed
<1>1. CASE \E s \in Slot : CallStep(s)
  BY <1>1, CallStepTyped
<1>2. ASSUME NEW c \in Child, QueueChild(c) \/ StartChild(c) \/ PersonRunsChild(c)
      PROVE  Typed'
  BY <1>2, ChildTyped
<1>3. ASSUME NEW c \in Child, NEW s \in Slot,
             \/ ChildCompletesItself(c, s) \/ ChildSucceeds(c, s) \/ ChildFails(c, s)
             \/ ChildCanNeverRun(c, s) \/ PersonCompletesChild(c, s)
      PROVE  Typed'
  BY <1>3, ChildTyped
<1>4. CASE \/ RunStep \/ LinkStage \/ CompleteHarness
           \/ \E c \in Child : CreateChild(c) \/ Dispatch(c)
  BY <1>4, RunTyped
<1>5. CASE Crash \/ Reap \/ PersonRunsHarness \/ PersonCompletesHarness \/ Age
  BY <1>5, OutsideTyped
<1>6. CASE UNCHANGED vars
  BY <1>6, StutterTyped
<1> QED BY <1>1, <1>2, <1>3, <1>4, <1>5, <1>6 DEF Next

(* The harness, its run, its children and the calls keep their types,       *)
(* whatever the instance is exposed to (TypeOK).                            *)
THEOREM TypeCorrect == Spec => []TypeOK
<1>1. Typed => TypeOK
  BY DEF Typed
<1> QED BY <1>1, InitTyped, NextTyped, PTL DEF Spec

-----------------------------------------------------------------------------
(* Wake-ups *)

LEMMA InitWakeup == Init => WakeupInv
BY DEF Init, WakeupInv, AbsentIdle, SynthesisInv, SynthesisOwesNothing,
   WakeupPending, Synthesizing, RunActive

(* What is read of the children depends on the children only.               *)
LEMMA SameChildren ==
    ASSUME UNCHANGED child
    PROVE  UNCHANGED <<Present, Unsettled, AllSettled, AbsentIdle>>
BY DEF Present, Unsettled, UnsettledChild, AllSettled, AbsentIdle

(* As long as nothing but the calls changes, the call that moves passes on   *)
(* the wake-up, or it is its last hope and counted as lost.                  *)
LEMMA PassedOn ==
    ASSUME Typed, WakeupInv, NEW s \in Slot, NEW c, call' = [call EXCEPT ![s] = c],
           UNCHANGED <<task, run, child, owed>>, lost => lost',
           Owing /\ ~RunActive /\ Carrying(call[s])
             => Carrying(c) \/ (LastHope({s}) => lost')
    PROVE  WakeupInv'
<1>1. UNCHANGED <<Owing, RunActive, Synthesizing>>
  BY SameChildren DEF Due, Owing, RunActive, Synthesizing
<1>2. WakeupPending'
  <2> SUFFICES ASSUME Owing, ~RunActive, ~lost' PROVE \E t \in Slot : Carrying(call'[t])
    BY <1>1 DEF WakeupPending
  <2>1. PICK t \in Slot : Carrying(call[t])
    BY DEF WakeupInv, WakeupPending
  <2>2. call'[s] = c /\ \A u \in Slot : u # s => call'[u] = call[u]
    BY DEF Typed, TypeOK
  <2>3. CASE t # s
    BY <2>1, <2>2, <2>3
  <2>4. CASE t = s /\ ~Carrying(c)
    <3>1. ~LastHope({s})
      BY <2>1, <2>4
    <3>2. PICK u \in Slot \ {s} : Carrying(call[u])
      BY <3>1 DEF LastHope
    <3> QED BY <2>2, <3>2
  <2> QED BY <2>2, <2>3, <2>4
<1>3. AbsentIdle' /\ SynthesisInv' /\ SynthesisOwesNothing'
  BY <1>1, SameChildren DEF WakeupInv, SynthesisInv, SynthesisOwesNothing
<1> QED BY <1>2, <1>3 DEF WakeupInv

LEMMA GuardPassesOn ==
    ASSUME Typed, WakeupInv, NEW s \in Slot, NEW here, NEW holds,
           NEW next \in {"harness", "settled", "active", "debounce", "prior", "create",
                         "flip", "stage"},
           Guard(s, here, holds, next), Owing /\ ~RunActive /\ Carrying(call[s]) => holds
    PROVE  WakeupInv'
<1>1. UNCHANGED <<task, run, child, owed, lost>>
  BY DEF Guard
<1>2. CASE holds
  <2>1. call' = [call EXCEPT ![s] = [call[s] EXCEPT !.step = next]]
    BY <1>2 DEF Guard
  <2>2. [call[s] EXCEPT !.step = next].step = next
    BY DEF Typed, TypeOK, Call
  <2>3. Carrying([call[s] EXCEPT !.step = next])
    BY <2>2 DEF Carrying
  <2> QED BY <1>1, <2>1, <2>3, PassedOn
<1>3. CASE ~holds
  <2>1. call' = [call EXCEPT ![s] = NoCall]
    BY <1>3 DEF Guard, Return
  <2>2. ~(Owing /\ ~RunActive /\ Carrying(call[s]))
    BY <1>3
  <2> QED BY <1>1, <2>1, <2>2, PassedOn
<1> QED BY <1>2, <1>3

(* A new run carries every wake-up.                                         *)
LEMMA NewRunCarries ==
    ASSUME WakeupInv, NEW generation, NewRun(generation), UNCHANGED child
    PROVE  WakeupInv'
<1>1. run'.step = "waiting"
  BY DEF NewRun
<1>2. RunActive' /\ ~Synthesizing'
  BY <1>1 DEF RunActive, Synthesizing
<1> QED BY <1>1, <1>2, SameChildren
    DEF WakeupInv, SynthesisInv, SynthesisOwesNothing, WakeupPending

(* No statement of a reactor call loses a wake-up.                          *)
LEMMA CallStepWakeup ==
    ASSUME Typed, WakeupInv, NEW s \in Slot, CallStep(s)
    PROVE  WakeupInv'
<1> USE DEF Owing, Due
<1>1. CASE CheckSent(s)
  <2>1. /\ call[s] \in Call /\ call[s].step = "sent"
        /\ UNCHANGED <<task, run, child, owed>> /\ (lost => lost')
    BY <1>1 DEF CheckSent, Forgone, Typed, TypeOK
  <2>2. CASE task.linked /\ call[s].dispatched
    <3>1. Carrying(BypassingCall)
      BY DEF Carrying, BypassingCall, NoCall
    <3> QED BY <1>1, <2>1, <2>2, <3>1, PassedOn DEF CheckSent
  <2>3. CASE ~(task.linked /\ call[s].dispatched) /\ task.linked /\ LooksAtStage(s)
    <3>1. Carrying(StageCall)
      BY DEF Carrying, StageCall, NoCall
    <3> QED BY <1>1, <2>1, <2>3, <3>1, PassedOn DEF CheckSent
  <2>4. CASE ~(task.linked /\ call[s].dispatched) /\ ~(task.linked /\ LooksAtStage(s))
    <3>1. call' = [call EXCEPT ![s] = NoCall]
      BY <1>1, <2>4 DEF CheckSent
    <3>2. ASSUME Owing, Carrying(call[s]), LastHope({s}) PROVE lost'
      <4>1. call[s].mode # "SYNTHESIZE" /\ ~call[s].dispatched /\ ~LooksAtStage(s)
        BY <2>1, <2>4, <3>2 DEF Carrying
      <4>2. call[s].mode \in Unresolved
        BY <2>1, <4>1 DEF LooksAtStage, Call, Modes
      <4> QED BY <1>1, <3>2, <4>1, <4>2 DEF CheckSent, Forgone
    <3> HIDE DEF Owing
    <3> QED BY <2>1, <3>1, <3>2, PassedOn
  <2> QED BY <2>2, <2>3, <2>4
<1>2. CASE CheckStage(s)
  <2>1. Carrying(BypassingCall)
    BY DEF Carrying, BypassingCall, NoCall
  <2> QED BY <1>2, <2>1, PassedOn DEF CheckStage
<1>3. CASE FindHarness(s)
  BY <1>3, GuardPassesOn DEF FindHarness
<1>4. CASE CheckSettled(s)
  BY <1>4, GuardPassesOn DEF CheckSettled
<1>5. CASE CheckActive(s)
  BY <1>5, GuardPassesOn DEF CheckActive
<1>6. CASE Debounce(s)
  <2>1. UNCHANGED <<task, run, child, owed>> /\ (lost => lost')
    BY <1>6 DEF Debounce
  <2>2. CASE call[s].bypass \/ ~run.recent
    <3>1. call' = [call EXCEPT ![s] = [call[s] EXCEPT !.step = "prior"]]
      BY <1>6, <2>2 DEF Debounce
    <3>2. Carrying([call[s] EXCEPT !.step = "prior"])
      BY DEF Carrying, Typed, TypeOK, Call
    <3> QED BY <2>1, <3>1, <3>2, PassedOn
  <2>3. CASE ~(call[s].bypass \/ ~run.recent)
    <3>1. call' = [call EXCEPT ![s] = NoCall] /\ (LastHope({s}) => lost')
      BY <1>6, <2>3 DEF Debounce, Return
    <3> QED BY <2>1, <3>1, PassedOn
  <2> QED BY <2>2, <2>3
<1>7. CASE ReadPrior(s)
  <2>1. Carrying([NoCall EXCEPT !.step = "premise"])
    BY DEF Carrying, NoCall
  <2>2. Carrying([NoCall EXCEPT !.step = "create", !.generation = run.generation])
    BY DEF Carrying, NoCall
  <2>3. UNCHANGED <<task, run, child, owed, lost>>
    BY <1>7 DEF ReadPrior
  <2>4. CASE run.generation >= Budget
    <3>1. call' = [call EXCEPT ![s] = [NoCall EXCEPT !.step = "premise"]]
      BY <1>7, <2>4 DEF ReadPrior
    <3> QED BY <2>1, <2>3, <3>1, PassedOn
  <2>5. CASE ~(run.generation >= Budget)
    <3>1. call' = [call EXCEPT ![s] =
                     [NoCall EXCEPT !.step = "create", !.generation = run.generation]]
      BY <1>7, <2>5 DEF ReadPrior
    <3> QED BY <2>2, <2>3, <3>1, PassedOn
  <2> QED BY <2>4, <2>5
<1>8. CASE CreateRun(s)
  <2>1. CASE RunActive
    BY <1>8, <2>1, PassedOn DEF CreateRun, Return
  <2>2. CASE ~RunActive
    BY <1>8, <2>2, NewRunCarries DEF CreateRun
  <2> QED BY <2>1, <2>2
<1>9. CASE CheckPremise(s)
  BY <1>9, GuardPassesOn DEF CheckPremise, Guard, Carrying
<1>10. CASE Exhaust(s)
  <2>1. UNCHANGED <<RunActive, Synthesizing>>
    BY <1>10 DEF Exhaust, RunActive, Synthesizing
  <2>2. task'.linked = task.linked /\ task'.status = task.status
        /\ (~task'.failed => ~task.failed /\ (task.status = "COMPLETED" \/ RunActive))
    BY <1>10 DEF Exhaust, Typed, TypeOK, Task
  <2>3. WakeupPending'
    BY <2>1, <2>2 DEF WakeupPending
  <2>4. AbsentIdle' /\ SynthesisInv' /\ SynthesisOwesNothing'
    BY <1>10, <2>1, <2>2, SameChildren
       DEF Exhaust, WakeupInv, SynthesisInv, SynthesisOwesNothing
  <2> QED BY <2>3, <2>4 DEF WakeupInv
<1> QED BY <1>1, <1>2, <1>3, <1>4, <1>5, <1>6, <1>7, <1>8, <1>9, <1>10 DEF CallStep

(* A child that settles leaves a call behind; it settles nothing that a     *)
(* SYNTHESIZE without dispatches could still be waiting for.                *)
LEMMA SettleWakeup ==
    ASSUME Typed, WakeupInv, NEW c \in Child, NEW s \in Slot, NEW new \in ChildTask,
           Settle(c, s, new), UNCHANGED <<task, run>>,
           child[c].status # "ABSENT", new.status # "ABSENT",
           UnsettledChild(c)
             \/ (new.row = "NONE" /\ (new.status = "COMPLETED" \/ new.failed))
    PROVE  WakeupInv'
<1>1. child' = [child EXCEPT ![c] = new] /\ child \in [Child -> ChildTask]
  BY DEF Settle, Typed, TypeOK
<1>2. Present' = Present
  BY <1>1 DEF Present
<1>3. Unsettled' \subseteq Unsettled
  BY <1>1, <1>2 DEF Unsettled, UnsettledChild, Present
<1>4. UNCHANGED <<RunActive, Synthesizing>>
  BY DEF RunActive, Synthesizing
<1>5. WakeupPending'
  <2>1. call' = [call EXCEPT ![s] = RetriggerCall]
    BY DEF Settle, Fire
  <2>2. call'[s] = RetriggerCall
    BY <2>1 DEF Typed, TypeOK
  <2>3. Carrying(RetriggerCall)
    BY DEF Carrying, RetriggerCall, NoCall
  <2> QED BY <2>2, <2>3 DEF WakeupPending
<1>6. SynthesisInv'
  BY <1>2, <1>3, <1>4 DEF WakeupInv, SynthesisInv
<1>7. SynthesisOwesNothing'
  <2> SUFFICES ASSUME Synthesizing, run.sent = {} PROVE ~owed'
    BY <1>4 DEF SynthesisOwesNothing
  <2>1. Unsettled = {} /\ ~owed
    BY DEF WakeupInv, SynthesisInv, SynthesisOwesNothing
  <2>2. c \in Present
    BY DEF Present
  <2>3. ~UnsettledChild(c)
    BY <2>1, <2>2 DEF Unsettled
  <2> QED BY <2>1, <2>3 DEF Settle
<1>8. AbsentIdle'
  BY <1>1 DEF WakeupInv, AbsentIdle
<1> QED BY <1>5, <1>6, <1>7, <1>8 DEF WakeupInv

(* A child that starts is unsettled: nothing is owed for now.               *)
LEMMA StartedWakeup ==
    ASSUME Typed, WakeupInv, NEW c \in Child, NEW new \in ChildTask,
           child' = [child EXCEPT ![c] = new], new.row # "NONE", new.status # "ABSENT",
           child[c].status # "ABSENT",
           UNCHANGED <<task, owed>>, UNCHANGED <<run.step, run.mode, run.recent>>,
           run.sent \subseteq run'.sent,
           Synthesizing => c \in Unsettled \/ c \in run'.sent
    PROVE  WakeupInv'
<1>1. child \in [Child -> ChildTask]
  BY DEF Typed, TypeOK
<1>2. Present' = Present
  BY <1>1 DEF Present
<1>3. Unsettled' = Unsettled \cup {c}
  BY <1>1 DEF Unsettled, UnsettledChild, Present
<1>4. UNCHANGED <<RunActive, Synthesizing>>
  BY DEF RunActive, Synthesizing
<1>5. ~AllSettled'
  BY <1>3 DEF AllSettled
<1>6. WakeupPending'
  BY <1>5 DEF WakeupPending, Owing, Due
<1>7. SynthesisInv'
  BY <1>2, <1>3, <1>4 DEF WakeupInv, SynthesisInv
<1>8. SynthesisOwesNothing'
  BY <1>4 DEF WakeupInv, SynthesisOwesNothing
<1>9. AbsentIdle'
  BY <1>1 DEF WakeupInv, AbsentIdle
<1> QED BY <1>6, <1>7, <1>8, <1>9 DEF WakeupInv

LEMMA InsertedUnsettled ==
    ASSUME Typed, NEW c \in Child, child[c].status # "ABSENT"
    PROVE  \E new \in ChildTask :
              /\ Inserted(c) = [child EXCEPT ![c] = new]
              /\ new.row # "NONE" /\ new.status # "ABSENT"
<1>1. child[c] \in ChildTask
  BY DEF Typed, TypeOK
<1> DEFINE new == [child[c] EXCEPT !.row = "PENDING",
                                   !.status = IF @ = "OPEN" THEN "IN_PROGRESS" ELSE @]
<1>2. new \in ChildTask /\ new.row # "NONE" /\ new.status # "ABSENT"
  BY <1>1 DEF ChildTask
<1>3. Inserted(c) = [child EXCEPT ![c] = new]
  BY DEF Inserted
<1> QED BY <1>2, <1>3

(* Children and the people at them lose no wake-up.                         *)
LEMMA ChildWakeup ==
    ASSUME Undisturbed, Typed, WakeupInv, NEW c \in Child,
           \/ QueueChild(c) \/ StartChild(c) \/ PersonRunsChild(c)
           \/ \E s \in Slot :
                 \/ ChildCompletesItself(c, s) \/ ChildSucceeds(c, s) \/ ChildFails(c, s)
                 \/ ChildCanNeverRun(c, s) \/ PersonCompletesChild(c, s)
    PROVE  WakeupInv'
<1>1. child[c] \in ChildTask
  BY DEF Typed, TypeOK
<1>2. child[c].row # "NONE" => child[c].status # "ABSENT"
  BY DEF WakeupInv, AbsentIdle
<1>3. CASE QueueChild(c)
  <2>1. c \in Unsettled
    BY <1>3 DEF QueueChild, Unsettled, UnsettledChild, Present
  <2>2. child[c].status # "ABSENT"
    BY <1>3 DEF QueueChild
  <2>3. child' = Inserted(c) /\ UNCHANGED <<task, run, owed>>
    BY <1>3 DEF QueueChild
  <2>4. PICK new \in ChildTask :
           /\ Inserted(c) = [child EXCEPT ![c] = new]
           /\ new.row # "NONE" /\ new.status # "ABSENT"
    BY <2>2, InsertedUnsettled
  <2> QED BY <2>1, <2>2, <2>3, <2>4, StartedWakeup
<1>4. CASE StartChild(c)
  <2> DEFINE new == [child[c] EXCEPT !.row = "RUNNING", !.failed = FALSE]
  <2>1. new \in ChildTask /\ new.row # "NONE" /\ new.status # "ABSENT"
    BY <1>1, <1>2, <1>4 DEF StartChild, ChildTask
  <2>2. child' = [child EXCEPT ![c] = new] /\ UNCHANGED <<task, run, owed>>
    BY <1>4 DEF StartChild
  <2>3. c \in Unsettled
    BY <1>2, <1>4 DEF StartChild, Unsettled, UnsettledChild, Present
  <2>4. child[c].status # "ABSENT"
    BY <1>2, <1>4 DEF StartChild
  <2> HIDE DEF new
  <2> QED BY <2>1, <2>2, <2>3, <2>4, StartedWakeup
<1>5. CASE PersonRunsChild(c)
  <2>1. ~Synthesizing
    BY <1>5 DEF PersonRunsChild, Undisturbed
  <2>2. child[c].status # "ABSENT"
    BY <1>5 DEF PersonRunsChild, Present
  <2>3. child' = Inserted(c) /\ UNCHANGED <<task, run, owed>>
    BY <1>5 DEF PersonRunsChild
  <2>4. PICK new \in ChildTask :
           /\ Inserted(c) = [child EXCEPT ![c] = new]
           /\ new.row # "NONE" /\ new.status # "ABSENT"
    BY <2>2, InsertedUnsettled
  <2> QED BY <2>1, <2>2, <2>3, <2>4, StartedWakeup
<1>6. ASSUME NEW s \in Slot, ChildCompletesItself(c, s) PROVE WakeupInv'
  <2> DEFINE new == [child[c] EXCEPT !.status = "COMPLETED"]
  <2>1. new \in ChildTask /\ new.status # "ABSENT" /\ UnsettledChild(c)
    BY <1>1, <1>6 DEF ChildCompletesItself, ChildTask, UnsettledChild
  <2>2. child[c].status # "ABSENT" /\ Settle(c, s, new) /\ UNCHANGED <<task, run>>
    BY <1>6 DEF ChildCompletesItself
  <2> HIDE DEF new
  <2> QED BY <2>1, <2>2, SettleWakeup
<1>7. ASSUME NEW s \in Slot, ChildSucceeds(c, s) PROVE WakeupInv'
  <2> DEFINE new == [status |-> "COMPLETED", failed |-> FALSE, row |-> "NONE"]
  <2>1. new \in ChildTask /\ new.status # "ABSENT" /\ UnsettledChild(c)
    BY <1>7 DEF ChildSucceeds, ChildTask, UnsettledChild
  <2>2. child[c].status # "ABSENT" /\ Settle(c, s, new) /\ UNCHANGED <<task, run>>
    BY <1>2, <1>7 DEF ChildSucceeds
  <2> HIDE DEF new
  <2> QED BY <2>1, <2>2, SettleWakeup
<1>8. ASSUME NEW s \in Slot, ChildFails(c, s) PROVE WakeupInv'
  <2> DEFINE new == [child[c] EXCEPT !.row = "NONE",
                                     !.failed = child[c].status # "COMPLETED"]
  <2>1. new \in ChildTask /\ new.status # "ABSENT" /\ UnsettledChild(c)
    BY <1>1, <1>2, <1>8 DEF ChildFails, ChildTask, UnsettledChild
  <2>2. child[c].status # "ABSENT" /\ Settle(c, s, new) /\ UNCHANGED <<task, run>>
    BY <1>2, <1>8 DEF ChildFails
  <2> HIDE DEF new
  <2> QED BY <2>1, <2>2, SettleWakeup
<1>9. ASSUME NEW s \in Slot, ChildCanNeverRun(c, s) PROVE WakeupInv'
  <2> DEFINE new == [child[c] EXCEPT !.failed = TRUE]
  <2>1. new \in ChildTask /\ new.status # "ABSENT" /\ UnsettledChild(c)
    BY <1>1, <1>9 DEF ChildCanNeverRun, ChildTask, UnsettledChild
  <2>2. child[c].status # "ABSENT" /\ Settle(c, s, new) /\ UNCHANGED <<task, run>>
    BY <1>9 DEF ChildCanNeverRun
  <2> HIDE DEF new
  <2> QED BY <2>1, <2>2, SettleWakeup
<1>10. ASSUME NEW s \in Slot, PersonCompletesChild(c, s) PROVE WakeupInv'
  <2> DEFINE new == [child[c] EXCEPT !.status = "COMPLETED"]
  <2>1. /\ new \in ChildTask /\ new.status # "ABSENT"
        /\ new.row = "NONE" /\ new.status = "COMPLETED"
    BY <1>1, <1>10 DEF PersonCompletesChild, ChildTask
  <2>2. child[c].status # "ABSENT" /\ Settle(c, s, new) /\ UNCHANGED <<task, run>>
    BY <1>10 DEF PersonCompletesChild
  <2> HIDE DEF new
  <2> QED BY <2>1, <2>2, SettleWakeup
<1> QED BY <1>3, <1>4, <1>5, <1>6, <1>7, <1>8, <1>9, <1>10

(* A run that neither ends nor begins keeps every wake-up.                  *)
LEMMA RunGoesOn ==
    ASSUME WakeupInv, RunActive', UNCHANGED child,
           SynthesisInv', SynthesisOwesNothing'
    PROVE  WakeupInv'
BY SameChildren DEF WakeupInv, WakeupPending

LEMMA RunWakeup ==
    ASSUME Undisturbed, Typed, WakeupInv,
           \/ RunStep \/ LinkStage \/ CompleteHarness
           \/ \E c \in Child : CreateChild(c) \/ Dispatch(c)
    PROVE  WakeupInv'
<1> USE DEF Typed, TypeOK
<1>1. run \in Run /\ task \in Task
  OBVIOUS
<1>2. CASE ClaimRun
  <2>1. run'.step = "resolve" /\ UNCHANGED child
    BY <1>1, <1>2 DEF ClaimRun, Run
  <2>2. RunActive' /\ ~Synthesizing'
    BY <2>1 DEF RunActive, Synthesizing
  <2> QED BY <2>1, <2>2, RunGoesOn DEF SynthesisInv, SynthesisOwesNothing
<1>3. CASE ResolveMode
  <2>1. PICK mode \in ResolvedModes :
           /\ run' = [run EXCEPT !.step = "working", !.mode = mode]
           /\ owed' = (owed /\ mode # "SYNTHESIZE")
    BY <1>3 DEF ResolveMode
  <2>2. /\ run'.step = "working" /\ run'.mode = mode
        /\ UNCHANGED <<task, child>>
    BY <1>1, <1>3, <2>1 DEF ResolveMode, Run
  <2>3. RunActive'
    BY <2>2 DEF RunActive
  <2>4. mode = "SYNTHESIZE" => ResolvedMode = "SYNTHESIZE"
    BY DEF ResolvedModes
  <2>5. SynthesisInv'
    BY <2>2, <2>4, SameChildren DEF SynthesisInv, Synthesizing, ResolvedMode
  <2>6. SynthesisOwesNothing'
    BY <2>1, <2>2 DEF SynthesisOwesNothing, Synthesizing
  <2> QED BY <2>2, <2>3, <2>5, <2>6, RunGoesOn
<1>4. ASSUME NEW output \in BOOLEAN, DecideOutcome(output) PROVE WakeupInv'
  <2>1. /\ run'.step \in {"succeed", "terminalize"} /\ run.step = "working"
        /\ run'.mode = run.mode /\ run'.sent = run.sent
        /\ UNCHANGED <<task, child, owed>>
    BY <1>1, <1>4 DEF DecideOutcome, Run
  <2>2. RunActive' /\ (Synthesizing' => Synthesizing)
    BY <2>1 DEF RunActive, Synthesizing
  <2>3. SynthesisInv' /\ SynthesisOwesNothing'
    BY <2>1, <2>2, SameChildren DEF WakeupInv, SynthesisInv, SynthesisOwesNothing
  <2> QED BY <2>1, <2>2, <2>3, RunGoesOn
<1>5. ASSUME NEW s \in Slot, PersistSuccess(s) PROVE WakeupInv'
  <2>1. run'.step = "ended" /\ UNCHANGED <<child, owed, lost>>
    BY <1>1, <1>5 DEF Deciding, PersistSuccess, EndedRun, Run
  <2>2. ~Synthesizing'
    BY <1>5, <2>1 DEF Deciding, PersistSuccess, Synthesizing, WakeupInv
  <2>3. CASE run.mode = "SYNTHESIZE" /\ run.sent = {}
    <3>1. ~owed'
      BY <1>5, <2>1, <2>3
         DEF Deciding, PersistSuccess, WakeupInv, SynthesisOwesNothing, Synthesizing
    <3> QED BY <2>1, <2>2, <3>1, SameChildren
        DEF WakeupInv, SynthesisInv, SynthesisOwesNothing, WakeupPending, Owing, Due
  <2>4. CASE run.mode # "SYNTHESIZE" \/ run.sent # {}
    <3>1. call' = [call EXCEPT ![s] = SelfCheckCall(run.mode)]
      BY <1>5 DEF PersistSuccess, Fire
    <3>2. call'[s] = SelfCheckCall(run.mode)
      BY <3>1
    <3>3. Carrying(SelfCheckCall(run.mode))
      BY <2>4 DEF Carrying, SelfCheckCall, NoCall
    <3>4. WakeupPending'
      BY <3>2, <3>3 DEF WakeupPending
    <3> QED BY <2>1, <2>2, <3>4, SameChildren
        DEF WakeupInv, SynthesisInv, SynthesisOwesNothing
  <2> QED BY <2>3, <2>4
<1>6. ASSUME NEW s \in Slot, PersistFailure(s) PROVE WakeupInv'
  <2>1. run'.step = "ended" /\ UNCHANGED <<child, owed, lost>>
    BY <1>1, <1>6 DEF PersistFailure, EndedRun, Run
  <2>2. ~Synthesizing'
    BY <2>1 DEF Synthesizing
  <2>3. task'.failed \/ task'.status = "COMPLETED"
    BY <1>1, <1>6 DEF PersistFailure, TerminatedFailed, Task
  <2> QED BY <2>1, <2>2, <2>3, SameChildren
      DEF WakeupInv, SynthesisInv, SynthesisOwesNothing, WakeupPending, Owing, Due
<1>7. CASE LinkStage
  <2>1. UNCHANGED <<run, child, owed>> /\ run.step = "working" /\ task'.linked
    BY <1>1, <1>7 DEF LinkStage, Task
  <2> QED BY <2>1, SameChildren, RunGoesOn
      DEF RunActive, WakeupInv, SynthesisInv, SynthesisOwesNothing, Synthesizing
<1>8. CASE CompleteHarness
  <2>1. UNCHANGED <<run, child, owed>> /\ run.step = "working" /\ task'.linked = task.linked
    BY <1>1, <1>8 DEF CompleteHarness, Task
  <2> QED BY <2>1, SameChildren, RunGoesOn
      DEF RunActive, WakeupInv, SynthesisInv, SynthesisOwesNothing, Synthesizing
<1>9. ASSUME NEW c \in Child, CreateChild(c) PROVE WakeupInv'
  <2>1. ~Synthesizing /\ run.step = "working" /\ UNCHANGED <<run, task, owed>>
    BY <1>9 DEF CreateChild, Undisturbed, Synthesizing
  <2>2. child' = [child EXCEPT ![c] = [child[c] EXCEPT !.status = "OPEN"]]
    BY <1>9 DEF CreateChild
  <2>3. AbsentIdle'
    BY <2>2 DEF WakeupInv, AbsentIdle, ChildTask
  <2>4. RunActive' /\ ~Synthesizing'
    BY <2>1 DEF RunActive, Synthesizing
  <2> QED BY <2>3, <2>4 DEF WakeupInv, SynthesisInv, SynthesisOwesNothing, WakeupPending
<1>10. ASSUME NEW c \in Child, Dispatch(c) PROVE WakeupInv'
  <2>1. child[c].status # "ABSENT" /\ child' = Inserted(c) /\ UNCHANGED <<task, owed>>
    BY <1>10 DEF Dispatch, Present
  <2>2. /\ UNCHANGED <<run.step, run.mode, run.recent>>
        /\ run'.sent = run.sent \cup {c}
    BY <1>1, <1>10 DEF Dispatch, Run
  <2>3. PICK new \in ChildTask :
           /\ Inserted(c) = [child EXCEPT ![c] = new]
           /\ new.row # "NONE" /\ new.status # "ABSENT"
    BY <2>1, InsertedUnsettled
  <2> QED BY <2>1, <2>2, <2>3, StartedWakeup
<1> QED BY <1>2, <1>3, <1>4, <1>5, <1>6, <1>7, <1>8, <1>9, <1>10 DEF RunStep, EndRun

(* Crashes are counted in lost; the reaper leaves a harness it wakes nobody *)
(* for FAILED; a person brings a new run.                                   *)
LEMMA OutsideWakeup ==
    ASSUME Typed, WakeupInv, Crash \/ Reap \/ PersonRunsHarness \/ PersonCompletesHarness \/ Age
    PROVE  WakeupInv'
<1> USE DEF Typed, TypeOK
<1>1. run \in Run /\ task \in Task
  OBVIOUS
<1>2. CASE Crash
  <2>1. PICK S \in SUBSET {s \in Slot : ~IdleCall(s)}, executor \in BOOLEAN :
           /\ executor => Executing
           /\ run' = IF executor
                     THEN [run EXCEPT !.step = "orphan", !.mode = "CREATE", !.sent = {}]
                     ELSE run
           /\ call' = [s \in Slot |-> IF s \in S THEN NoCall ELSE call[s]]
           /\ lost' = (lost \/ LastHope(S))
    BY <1>2 DEF Crash
  <2>2. UNCHANGED <<task, child, owed>>
    BY <1>2 DEF Crash
  <2>3. CASE executor
    <3>1. run'.step = "orphan"
      BY <1>1, <2>1, <2>3 DEF Run
    <3> QED BY <2>2, <3>1, RunGoesOn
        DEF RunActive, SynthesisInv, SynthesisOwesNothing, Synthesizing
  <2>4. CASE ~executor
    <3>1. UNCHANGED <<run, Owing, RunActive, Synthesizing>>
      BY <2>1, <2>2, <2>4, SameChildren DEF Owing, Due, RunActive, Synthesizing
    <3>2. WakeupPending'
      <4> SUFFICES ASSUME Owing, ~RunActive, ~lost' PROVE \E t \in Slot : Carrying(call'[t])
        BY <3>1 DEF WakeupPending
      <4>1. PICK t \in Slot \ S : Carrying(call[t])
        BY <2>1 DEF LastHope
      <4> QED BY <2>1, <4>1
    <3> QED BY <2>2, <3>1, <3>2, SameChildren
        DEF WakeupInv, SynthesisInv, SynthesisOwesNothing
  <2> QED BY <2>3, <2>4
<1>3. CASE Reap
  <2>1. run'.step = "ended" /\ UNCHANGED <<child, call, owed>>
    BY <1>1, <1>3 DEF Reap, EndedRun, Run
  <2>2. WakeupPending'
    <3>1. UNCHANGED <<Unsettled, AllSettled, Due>>
      <4>1. UNCHANGED <<Unsettled, AllSettled>>
        BY <2>1, SameChildren
      <4>2. task'.linked = task.linked /\ task'.status = task.status
        BY <1>1, <1>3 DEF Reap, Task
      <4> QED BY <2>1, <4>1, <4>2 DEF Due
    <3>2. task'.failed = ReapedFailed
      BY <1>1, <1>3 DEF Reap, Task
    <3>3. lost' = (lost \/ (~Owned /\ Due /\ \A s \in Slot : ~Carrying(call[s])))
      BY <1>3 DEF Reap
    <3>4. CASE Owned
      <4>1. ~Owing'
        BY <3>1, <3>2, <3>4 DEF Owing, Due, ReapedFailed, AllSettled
      <4> QED BY <4>1 DEF WakeupPending
    <3>5. CASE ~Owned
      BY <2>1, <3>1, <3>3, <3>5 DEF WakeupPending, Owing
    <3> QED BY <3>4, <3>5
  <2> QED BY <2>1, <2>2, SameChildren
      DEF WakeupInv, SynthesisInv, SynthesisOwesNothing, Synthesizing
<1>4. CASE PersonRunsHarness
  BY <1>4, NewRunCarries DEF PersonRunsHarness
<1>5. CASE Age
  <2>1. UNCHANGED <<run.step, run.mode, run.sent, task, child, call, owed, lost>>
    BY <1>1, <1>5 DEF Age, Run
  <2>2. UNCHANGED <<RunActive, Synthesizing, Owing>>
    BY <2>1, SameChildren DEF RunActive, Synthesizing, Owing, Due
  <2> QED BY <2>1, <2>2, SameChildren
      DEF WakeupInv, SynthesisInv, SynthesisOwesNothing, WakeupPending
<1>6. CASE PersonCompletesHarness
  <2>1. /\ UNCHANGED <<run, child, owed>> /\ task'.linked = task.linked
        /\ task'.status = "COMPLETED"
    BY <1>1, <1>6 DEF PersonCompletesHarness, Task
  <2>2. ~Owing'
    BY <2>1 DEF Owing, Due
  <2> QED BY <2>1, <2>2, SameChildren
      DEF WakeupInv, SynthesisInv, SynthesisOwesNothing, WakeupPending,
          Synthesizing
<1> QED BY <1>2, <1>3, <1>4, <1>5, <1>6

LEMMA NextWakeup ==
    ASSUME Undisturbed, Typed, WakeupInv, [Next]_vars
    PROVE  WakeupInv'
<1>1. CASE \E s \in Slot : CallStep(s)
  BY <1>1, CallStepWakeup
<1>2. CASE \E c \in Child :
             \/ QueueChild(c) \/ StartChild(c) \/ PersonRunsChild(c)
             \/ \E s \in Slot :
                   \/ ChildCompletesItself(c, s) \/ ChildSucceeds(c, s)
                   \/ ChildFails(c, s) \/ ChildCanNeverRun(c, s)
                   \/ PersonCompletesChild(c, s)
  BY <1>2, ChildWakeup
<1>3. CASE \/ RunStep \/ LinkStage \/ CompleteHarness
           \/ \E c \in Child : CreateChild(c) \/ Dispatch(c)
  BY <1>3, RunWakeup
<1>4. CASE Crash \/ Reap \/ PersonRunsHarness \/ PersonCompletesHarness \/ Age
  BY <1>4, OutsideWakeup
<1>5. CASE UNCHANGED vars
  <2>1. UNCHANGED <<task, run, child, call, owed, lost>>
    BY <1>5 DEF vars
  <2> QED BY <2>1, SameChildren
      DEF WakeupInv, SynthesisInv, SynthesisOwesNothing, WakeupPending,
          Owing, Due, RunActive, Synthesizing
<1> QED BY <1>1, <1>2, <1>3, <1>4, <1>5 DEF Next

LEMMA WakeupCorrect == ASSUME Undisturbed PROVE Spec => [](Typed /\ WakeupInv)
<1>1. Typed /\ WakeupInv /\ [Next]_vars => Typed' /\ WakeupInv'
  BY NextTyped, NextWakeup
<1> QED BY <1>1, InitTyped, InitWakeup, PTL DEF Spec

(* Whatever the crashes, people, re-entries and interleavings of calls, the *)
(* retrigger reactor, the self-check and the reaper's exception together    *)
(* reach every settled stage, except in the four ways the code gives up its *)
(* last wake-up (NoLostWakeup).                                             *)
THEOREM WakeupsAreKept ==
    ASSUME Undisturbed
    PROVE  Spec => []NoLostWakeup
<1>1. Typed /\ WakeupInv => NoLostWakeup
  <2>1. Quiet => \A s \in Slot : ~Carrying(call[s])
    BY DEF Quiet, IdleCall, Carrying
  <2> QED BY <2>1 DEF NoLostWakeup, WakeupInv, WakeupPending, Quiet
<1> QED BY <1>1, WakeupCorrect, PTL

(* A SYNTHESIZE never works over a child that somebody else set in motion    *)
(* (SynthesisOverSettled).                                                  *)
THEOREM SynthesisSettled ==
    ASSUME Undisturbed
    PROVE  Spec => []SynthesisOverSettled
<1>1. WakeupInv => SynthesisOverSettled
  BY DEF WakeupInv, SynthesisInv, SynthesisOverSettled, AtWork, Unsettled, UnsettledChild
<1> QED BY <1>1, WakeupCorrect, PTL

-----------------------------------------------------------------------------
(* The marks on the harness *)

LEMMA DeadEndStaysOpen ==
    ASSUME "close" \notin Env, Typed, DeadEndOpen, [Next]_vars
    PROVE  DeadEndOpen'
<1> USE DEF Typed, TypeOK, DeadEndOpen
<1>1. run \in Run /\ task \in Task
  OBVIOUS
<1>2. CASE \E s \in Slot : CallStep(s)
  <2>1. PICK s \in Slot : CallStep(s)
    BY <1>2
  <2>2. CASE CreateRun(s)
    BY <1>1, <2>2 DEF CreateRun, NewRun
  <2>3. CASE Exhaust(s)
    BY <1>1, <2>3 DEF Exhaust, Task
  <2> QED BY <2>1, <2>2, <2>3
      DEF CallStep, CheckSent, CheckStage, FindHarness, CheckSettled, CheckActive,
          Debounce, ReadPrior, CheckPremise, Guard
<1>3. CASE UNCHANGED <<task, run>>
  BY <1>3
<1>4. ASSUME NEW c \in Child,
             \/ QueueChild(c) \/ StartChild(c) \/ PersonRunsChild(c)
             \/ \E s \in Slot :
                   \/ ChildCompletesItself(c, s) \/ ChildSucceeds(c, s)
                   \/ ChildFails(c, s) \/ ChildCanNeverRun(c, s)
                   \/ PersonCompletesChild(c, s)
      PROVE  UNCHANGED <<task, run>>
  BY <1>4 DEF QueueChild, StartChild, PersonRunsChild, ChildCompletesItself, ChildSucceeds,
     ChildFails, ChildCanNeverRun, PersonCompletesChild
<1>5. CASE RunStep
  <2>1. ASSUME NEW output \in BOOLEAN, DecideOutcome(output) PROVE DeadEndOpen'
    BY <1>1, <2>1 DEF DecideOutcome, Run, Task
  <2>2. CASE ClaimRun \/ ResolveMode \/ EndRun
    BY <1>1, <2>2 DEF ClaimRun, ResolveMode, EndRun, PersistSuccess, PersistFailure,
       EndedRun, Run
  <2> QED BY <1>5, <2>1, <2>2 DEF RunStep
<1>6. CASE LinkStage \/ CompleteHarness
  BY <1>6 DEF LinkStage, CompleteHarness
<1>7. ASSUME NEW c \in Child, CreateChild(c) \/ Dispatch(c) PROVE DeadEndOpen'
  BY <1>1, <1>7 DEF CreateChild, Dispatch, Run
<1>8. CASE Crash \/ Reap \/ PersonRunsHarness \/ PersonCompletesHarness \/ Age
  <2>1. CASE Crash \/ Reap \/ PersonRunsHarness
    <3>1. Crash => UNCHANGED task /\ (run' = run \/ run'.step = "orphan")
      BY <1>1 DEF Crash, Run
    <3>2. Reap => run'.step = "ended"
      BY <1>1 DEF Reap, EndedRun, Run
    <3>3. PersonRunsHarness => run'.step = "waiting"
      BY DEF PersonRunsHarness, NewRun
    <3> QED BY <2>1, <3>1, <3>2, <3>3
  <2>2. CASE Age
    BY <1>1, <2>2 DEF Age, Run
  <2>3. CASE PersonCompletesHarness
    BY <2>3 DEF PersonCompletesHarness, Deciding
  <2> QED BY <1>8, <2>1, <2>2, <2>3
<1> QED BY <1>2, <1>3, <1>4, <1>5, <1>6, <1>7, <1>8 DEF Next, vars

(* FAILED is only ever written on a harness that is not COMPLETED           *)
(* (NoFailedOnCompleted), provided nobody completes it between the read and *)
(* the write of a success persist, which locks nothing.                     *)
THEOREM FailedNeverOnCompleted ==
    ASSUME "close" \notin Env
    PROVE  Spec => NoFailedOnCompleted
<1> DEFINE Mark == task'.failed /\ ~task.failed => task'.status # "COMPLETED"
<1>1. Typed /\ DeadEndOpen /\ [Next]_vars => [Mark]_vars
  <2> SUFFICES ASSUME Typed, DeadEndOpen, Next, task'.failed, ~task.failed
               PROVE  task'.status # "COMPLETED"
    OBVIOUS
  <2>1. task \in Task
    BY DEF Typed, TypeOK
  <2>2. ASSUME NEW s \in Slot, CallStep(s) PROVE task'.status # "COMPLETED"
    BY <2>1, <2>2 DEF CallStep, CheckSent, CheckStage, FindHarness, CheckSettled,
       CheckActive, Debounce, ReadPrior, CheckPremise, Guard, CreateRun, Exhaust, Task
  <2>3. ASSUME RunStep PROVE task'.status # "COMPLETED"
    BY <2>1, <2>3 DEF RunStep, ClaimRun, ResolveMode, DecideOutcome, EndRun,
       Deciding, PersistSuccess, PersistFailure, TerminatedFailed, DeadEndOpen, Task
  <2>4. ASSUME LinkStage \/ CompleteHarness \/ Crash \/ Reap \/ PersonRunsHarness \/ PersonCompletesHarness \/ Age
        PROVE  task'.status # "COMPLETED"
    BY <2>1, <2>4 DEF LinkStage, CompleteHarness, Crash, Reap, ReapedFailed,
       PersonRunsHarness, PersonCompletesHarness, Age, Task
  <2>5. ASSUME NEW c \in Child,
               \/ QueueChild(c) \/ StartChild(c) \/ PersonRunsChild(c)
               \/ \E s \in Slot :
                     \/ ChildCompletesItself(c, s) \/ ChildSucceeds(c, s)
                     \/ ChildFails(c, s) \/ ChildCanNeverRun(c, s)
                     \/ PersonCompletesChild(c, s)
               \/ CreateChild(c) \/ Dispatch(c)
        PROVE  UNCHANGED task
    BY <2>5 DEF QueueChild, StartChild, PersonRunsChild, ChildCompletesItself,
       ChildSucceeds, ChildFails, ChildCanNeverRun, PersonCompletesChild,
       CreateChild, Dispatch
  <2> QED BY <2>2, <2>3, <2>4, <2>5 DEF Next
<1>2. Init => DeadEndOpen
  BY DEF Init, DeadEndOpen
<1>3. Typed /\ DeadEndOpen /\ [Next]_vars => Typed' /\ DeadEndOpen'
  BY NextTyped, DeadEndStaysOpen
<1> QED BY <1>1, <1>2, <1>3, InitTyped, PTL DEF Spec, NoFailedOnCompleted

(* Giving up on the budget never fails a harness that is being executed     *)
(* (ExhaustionSparesRuns).                                                  *)
THEOREM ExhaustionIsSafe == Spec => ExhaustionSparesRuns
<1> DEFINE Spares ==
      \A s \in Slot : Exhaust(s) /\ ~task.failed /\ task'.failed => ~RunActive
<1>1. Typed => Spares
  BY DEF Typed, TypeOK, Task, Exhaust
<1>2. Spec => []Typed
  BY InitTyped, NextTyped, PTL DEF Spec
<1> QED BY <1>1, <1>2, PTL DEF ExhaustionSparesRuns
=============================================================================
