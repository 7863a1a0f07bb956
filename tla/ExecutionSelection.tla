-------------------------- MODULE ExecutionSelection --------------------------
(***************************************************************************)
(* Which execution speaks for a task: the checks and stamps of a new       *)
(* execution, the keep-best verdict of an orchestrator's retry on itself,  *)
(* and the pruners that delete old executions and roll up their usage.     *)
(*                                                                         *)
(* Rows are numbered in the order of their creation.  The reads that admit *)
(* a create are one step; chaining, stamp and insert follow, each of them  *)
(* later, with what the earlier ones read.                                 *)
(***************************************************************************)
EXTENDS Naturals, FiniteSets

CONSTANTS
    Task,      \* the children of one harness
    Pred,      \* Pred[t]: the tasks that t depends on
    Reviewer,  \* the tasks of the reviewer set
    MaxExec,   \* bounds the rows ever created
    Fact,      \* the keep-best facts that runs may have
    KeepInTx,  \* PRUNE_ON_COMPLETE_RETENTION
    KeepDaily, \* RM_DAILY_RETENTION
    Call,      \* creates in flight: bounds their concurrency
    Sweeper,   \* the processes that sweep at midnight
    None,      \* no task
    Env        \* what this instance is exposed to

Exposures == {"fault",  \* chaining, stamping or comparing fails, which is passed over
              "quick"}  \* a run may end, be cancelled or be reaped before the
                        \* creates that were in flight when it was created

(* deliverableChars, fencedBlockCount, scoreIntegrity, truncatedNoOutput    *)
Facts == [chars: Nat, fences: Nat, consistent: BOOLEAN, truncated: BOOLEAN]

ASSUME SelectionAssumption ==
    /\ Pred \in [Task -> SUBSET Task] /\ Reviewer \subseteq Task
    /\ MaxExec \in Nat
    /\ Fact \subseteq Facts
    /\ KeepInTx \in Nat \ {0} /\ KeepDaily \in Nat \ {0}
    /\ None \notin Task
    /\ Env \subseteq Exposures

VARIABLES
    row,    \* the executions
    last,   \* the newest row ever created
    call,   \* creates in flight
    doomed, \* what a sweeper has found to delete
    rolled, \* token_usage_daily: how often an execution is counted in
    raced   \* history: a run succeeded although it had been weighed as a failure

vars == <<row, last, call, doomed, rolled, raced>>

Exec == 1..MaxExec

-----------------------------------------------------------------------------
(* Types *)

(* run: what goes on of it: "working", "judged" (its outcome is being       *)
(* persisted) or "over"; it outlasts the "active" state of a row that was   *)
(* cancelled or falsely reaped.  chained: the predecessor executions it was *)
(* given, {} when unknown; target: reExecutionOfExecutionId, 0 for none or  *)
(* once it is used; reexec: orchestratorReExecution is stamped, in the      *)
(* present run epoch; facts, superseded: what the run is judged to be, in   *)
(* force from its SUCCESS on; weighed, a history: while its row was FAILED  *)
(* and its run went on, retention picked it or a newer row of its task.     *)
Row == [task: Task \cup {None},
        state: {"none", "active", "SUCCESS", "FAILED"},
        run: {"over", "working", "judged"},
        chained: SUBSET Exec, target: Exec \cup {0}, reexec: BOOLEAN,
        facts: Facts, superseded: BOOLEAN, weighed: BOOLEAN]

NoFacts == [chars |-> 0, fences |-> 0, consistent |-> TRUE, truncated |-> FALSE]

NoRow == [task |-> None, state |-> "none", run |-> "over", chained |-> {},
          target |-> 0, reexec |-> FALSE, facts |-> NoFacts,
          superseded |-> FALSE, weighed |-> FALSE]

(* agent: it comes from an agent's run (parentExecutionId); late, a         *)
(* history: meanwhile a run of the task whose row had FAILED has succeeded. *)
Create == [step: {"idle", "prepare", "stamp", "insert"},
           task: Task \cup {None}, agent: BOOLEAN, reexec: BOOLEAN,
           chained: SUBSET Exec, target: Exec \cup {0}, late: BOOLEAN]

NoCreate == [step |-> "idle", task |-> None, agent |-> FALSE, reexec |-> FALSE,
             chained |-> {}, target |-> 0, late |-> FALSE]

Live(e) == row[e].state = "active"

(* Its run may still come to an end.                                        *)
Going(e) == row[e].run # "over"

(* Rows, creates and sweeps keep their types; a task has one active row.    *)
TypeOK ==
    /\ row \in [Exec -> Row]
    /\ last \in 0..MaxExec
    /\ call \in [Call -> Create]
    /\ \A c \in Call : call[c].step # "idle" => call[c].task \in Task
    /\ doomed \in [Sweeper -> SUBSET Exec]
    /\ rolled \in [Exec -> Nat]
    /\ raced \in BOOLEAN
    /\ \A e \in Exec : row[e].state # "none" => row[e].task \in Task /\ e <= last
    /\ \A e \in Exec : /\ Live(e) => Going(e)
                       /\ Going(e) => row[e].state \in {"active", "FAILED"}
    /\ \A d, e \in Exec : Live(d) /\ Live(e) /\ row[d].task = row[e].task => d = e

-----------------------------------------------------------------------------
(* Selection, over a table r *)

Rows(r, t) == {e \in Exec : r[e].task = t /\ r[e].state # "none"}

Active(t) == \E e \in Rows(row, t) : Live(e)

Successes(r, t) == {e \in Rows(r, t) : r[e].state = "SUCCESS"}

Failures(r, t) == {e \in Rows(r, t) : r[e].state = "FAILED"}

Candidates(r, t) == {e \in Successes(r, t) : ~r[e].superseded}

Newest(S) == CHOOSE e \in S : \A d \in S : d <= e

NewestOrNone(S) == IF S = {} THEN 0 ELSE Newest(S)

(* selectAuthoritativeExecution                                             *)
Authoritative(t) == NewestOrNone(Candidates(row, t))

(* ... with CHAIN_SELECTION_OPTIONS: only what has a deliverable            *)
Deliverable(t) == NewestOrNone({e \in Candidates(row, t) : row[e].facts.chars > 0})

(* Was e given executions that are all authoritative now?  Never without a  *)
(* record.                                                                  *)
CurrentInputs(e) ==
    /\ row[e].chained # {}
    /\ row[e].chained \subseteq {Deliverable(p) : p \in Task}

-----------------------------------------------------------------------------
(* Keep-best *)

StructuralCollapse(own, target) ==
    10 * own.chars < 3 * target.chars /\ own.fences = 0 /\ target.fences >= 3

ScoreAsymmetry(own, target) == ~own.consistent /\ target.consistent

TruncationRegression(own, target) == own.truncated /\ ~target.truncated

(* judgeCatastrophicDegradation                                             *)
Degraded(own, target) ==
    \/ StructuralCollapse(own, target)
    \/ ScoreAsymmetry(own, target)
    \/ TruncationRegression(own, target)

(* Variant: without RWF C.2, whatever the two were given.                   *)
LosesOnAnyInput(e, facts) ==
    LET t == row[e].target IN
    /\ t # 0 /\ row[t].state = "SUCCESS"
    /\ Degraded(facts, row[t].facts)

(* computeSelfSupersession: e is compared with its target only over the     *)
(* same input, or over unknown input outside the reviewer set.              *)
Loses(e, facts) ==
    LET t == row[e].target IN
    /\ t # 0 /\ row[t].state = "SUCCESS"
    /\ \/ row[e].chained # {} /\ row[e].chained = row[t].chained
       \/ (row[e].chained = {} \/ row[t].chained = {}) /\ row[e].task \notin Reviewer
    /\ Degraded(facts, row[t].facts)

-----------------------------------------------------------------------------
(* Retention *)

(* Variant: recency alone, before I-PRUNE-1.                                *)
RetainedByRecency(r, d, e) == d > e

(* supersededById is written with the SUCCESS.                              *)
Superseded(r, e) == r[e].state = "SUCCESS" /\ r[e].superseded

(* d is retained before e: winners before losers, then the newer.           *)
RetainedBefore(r, d, e) ==
    IF Superseded(r, d) = Superseded(r, e) THEN d > e ELSE Superseded(r, e)

Overflow(r, S, keep) ==
    {e \in S : Cardinality({d \in S : RetainedBefore(r, d, e)}) >= keep}

(* selectExecutionsToDelete: what is not terminal is in neither budget.     *)
ToDelete(r, t, keep) ==
    Overflow(r, Successes(r, t), keep) \cup Overflow(r, Failures(r, t), keep)

(* Variant: whatever was listed is counted, deleted or not, before BC-#2.   *)
RollUpListed(r, D) == [e \in Exec |-> rolled[e] + IF e \in D THEN 1 ELSE 0]

(* History: a run that goes on although its row is FAILED is weighed when   *)
(* retention picks it or a newer row of its task.                           *)
Weighed(r, D) ==
    [e \in Exec |-> [r[e] EXCEPT !.weighed =
        @ \/ (/\ r[e].state = "FAILED" /\ r[e].run # "over"
              /\ \E d \in D : d >= e /\ r[d].task = r[e].task)]]

(* Only the rows that the statement returns are counted.                    *)
RollUp(r, D) ==
    [e \in Exec |-> rolled[e] + IF e \in D /\ r[e].state # "none" THEN 1 ELSE 0]

(* rollUpAndDeleteExecutions on r                                           *)
Delete(r, D) ==
    /\ row' = [e \in Exec |-> IF e \in D THEN NoRow ELSE r[e]]
    /\ rolled' = RollUp(r, D)

-----------------------------------------------------------------------------
(* createAgentExecution *)

Return(c) == call' = [call EXCEPT ![c] = NoCreate]

(* Variant: only a re-execution that succeeded uses up the allowance.       *)
CappedBySuccess(t) ==
    \E e \in Rows(row, t) : row[e].reexec /\ row[e].state = "SUCCESS"

(* ORCHESTRATOR_REEXECUTION_CAP: once per child and run epoch               *)
Capped(t) == \E e \in Rows(row, t) : row[e].reexec

(* Variant: a truncated verdict may be repeated.                            *)
SameInputIfWhole(t) ==
    /\ Deliverable(t) # 0 /\ CurrentInputs(Deliverable(t))
    /\ ~row[Deliverable(t)].facts.truncated

(* REVIEWER_SAME_INPUT_REEXECUTION: the verdict is over what a new one      *)
(* would be given.                                                          *)
SameInput(t) == Deliverable(t) # 0 /\ CurrentInputs(Deliverable(t))

(* Who creates: an agent of the harness that owns the stage, any other      *)
(* agent, or people, reactors and routes                                    *)
Caller == {"owner", "agent", "person"}

(* A create of the owner for a child that has executions is a re-execution. *)
Reexecution(t, caller) == caller = "owner" /\ Rows(row, t) # {}

Refused(t) == Capped(t) \/ (t \in Reviewer /\ SameInput(t))

(* The creates in flight                                                    *)
InFlight == {c \in Call : call[c].step # "idle"}

(* The reads that admit a create: no active execution, no refusal.  The     *)
(* bound leaves room for the rows of all creates in flight.                 *)
Begin(c, t, caller) ==
    /\ call[c].step = "idle"
    /\ ~Active(t)
    /\ Reexecution(t, caller) => ~Refused(t)
    /\ last + Cardinality(InFlight) < MaxExec
    /\ call' = [call EXCEPT ![c] =
         [NoCreate EXCEPT !.step = "prepare", !.task = t, !.agent = caller # "person",
                          !.reexec = Reexecution(t, caller)]]
    /\ UNCHANGED <<row, last, doomed, rolled, raced>>

(* The context chainer passes over a predecessor that is being executed.    *)
Chain(t) == {Deliverable(p) : p \in {q \in Pred[t] : ~Active(q)}} \ {0}

Prepare(c) ==
    /\ call[c].step = "prepare"
    /\ \E chained \in {Chain(call[c].task)} \cup (IF "fault" \in Env THEN {{}} ELSE {}) :
          call' = [call EXCEPT
            ![c].chained = chained,
            ![c].step = IF call[c].agent THEN "stamp" ELSE "insert"]
    /\ UNCHANGED <<row, last, doomed, rolled, raced>>

(* An agent's create is stamped with the execution that it would replace.   *)
Stamp(c) ==
    /\ call[c].step = "stamp"
    /\ \E target \in {Authoritative(call[c].task)} \cup (IF "fault" \in Env THEN {0} ELSE {}) :
          call' = [call EXCEPT ![c].target = target, ![c].step = "insert"]
    /\ UNCHANGED <<row, last, doomed, rolled, raced>>

(* Variant: no partial index on active executions.                          *)
IndexRejectsNothing(t) == FALSE

IndexRejects(t) == Active(t)

Insert(c) ==
    /\ call[c].step = "insert"
    /\ IF IndexRejects(call[c].task)
       THEN UNCHANGED <<row, last>>
       ELSE /\ last < MaxExec
            /\ last' = last + 1
            /\ row' = [row EXCEPT ![last + 1] =
                 [NoRow EXCEPT !.task = call[c].task, !.state = "active",
                               !.run = "working",
                               !.chained = call[c].chained,
                               !.target = call[c].target,
                               !.reexec = call[c].reexec]]
    /\ Return(c)
    /\ UNCHANGED <<doomed, rolled, raced>>

(* A person executes the harness again: a new run epoch.                    *)
StartHarness ==
    /\ row' = [e \in Exec |-> [row[e] EXCEPT !.reexec = FALSE]]
    /\ UNCHANGED <<last, call, doomed, rolled, raced>>

-----------------------------------------------------------------------------
(* Runs *)

(* A row outlasts the creates that were in flight when it was inserted.      *)
MayEnd(e) ==
    \/ "quick" \in Env
    \/ \A c \in Call : call[c].task # row[e].task

(* The comparison precedes the terminal transaction ...                     *)
Judge(e, facts) ==
    /\ row[e].run = "working"
    /\ \E superseded \in {Loses(e, facts)} \cup (IF "fault" \in Env THEN {FALSE} ELSE {}) :
          row' = [row EXCEPT ![e].run = "judged", ![e].facts = facts,
                             ![e].superseded = superseded]
    /\ UNCHANGED <<last, call, doomed, rolled, raced>>

(* ... which writes the row, even if it has been cancelled or reaped        *)
(* meanwhile, and prunes those of the task.                                 *)
Succeed(e) ==
    LET r == [row EXCEPT ![e].state = "SUCCESS", ![e].run = "over",
                         ![e].target = 0, ![e].weighed = FALSE]
        D == ToDelete(r, row[e].task, KeepInTx)
    IN
    /\ row[e].run = "judged"
    /\ Live(e) => MayEnd(e)
    /\ Delete(Weighed(r, D), D)
    /\ call' = [c \in Call |-> [call[c] EXCEPT !.late =
          @ \/ (call[c].task = row[e].task /\ ~Live(e))]]
    /\ raced' = (raced \/ row[e].weighed)
    /\ UNCHANGED <<last, doomed>>

(* A person cancels the execution, or a reaper fails it although its run is *)
(* alive: the run goes on.                                                  *)
Reap(e) ==
    /\ Live(e) /\ MayEnd(e)
    /\ row' = [row EXCEPT ![e].state = "FAILED"]
    /\ UNCHANGED <<last, call, doomed, rolled, raced>>

(* The run fails, or is reaped because it is dead.                          *)
Fail(e) ==
    /\ Going(e)
    /\ Live(e) => MayEnd(e)
    /\ row' = [row EXCEPT ![e].state = "FAILED", ![e].run = "over", ![e].target = 0,
                          ![e].facts = NoFacts, ![e].superseded = FALSE,
                          ![e].weighed = FALSE]
    /\ UNCHANGED <<last, call, doomed, rolled, raced>>

-----------------------------------------------------------------------------
(* The daily sweep: it reads all rows ...                                   *)
SweepReads(p) ==
    LET D == UNION {ToDelete(row, t, KeepDaily) : t \in Task} IN
    /\ doomed[p] = {}
    /\ doomed' = [doomed EXCEPT ![p] = D]
    /\ row' = Weighed(row, D)
    /\ UNCHANGED <<last, call, rolled, raced>>

(* ... and later deletes, in a transaction, what it then found too many,    *)
(* whatever has become of it.                                               *)
SweepDeletes(p) ==
    /\ doomed[p] # {}
    /\ Delete(row, doomed[p])
    /\ doomed' = [doomed EXCEPT ![p] = {}]
    /\ UNCHANGED <<last, call, raced>>

-----------------------------------------------------------------------------
Init ==
    /\ row = [e \in Exec |-> NoRow]
    /\ last = 0
    /\ call = [c \in Call |-> NoCreate]
    /\ doomed = [p \in Sweeper |-> {}]
    /\ rolled = [e \in Exec |-> 0]
    /\ raced = FALSE

Next ==
    \/ \E c \in Call :
          \/ \E t \in Task, caller \in Caller : Begin(c, t, caller)
          \/ Prepare(c) \/ Stamp(c) \/ Insert(c)
    \/ StartHarness
    \/ \E e \in Exec :
          (\E facts \in Fact : Judge(e, facts)) \/ Succeed(e) \/ Reap(e) \/ Fail(e)
    \/ \E p \in Sweeper : SweepReads(p) \/ SweepDeletes(p)

Spec == Init /\ [][Next]_vars

-----------------------------------------------------------------------------
(* Properties *)

(* What speaks for a task is never lost, and never replaced by an older     *)
(* execution: neither the retries that mark themselves superseded, nor the  *)
(* runs that succeed after their row was cancelled or reaped, nor the       *)
(* pruners, nor a sweep that acts on what it read before (I-PRUNE-1).       *)
(* Except that the unconditional SUCCESS may overwrite a row that retention *)
(* has weighed as a failure: a sweep then deletes what speaks by now.       *)
AuthorityAdvances ==
    [][~raced' => \A t \in Task : Authoritative(t) <= Authoritative(t)']_vars

(* Whichever pruners overlap, an execution is in the usage rollup exactly   *)
(* once, namely from its deletion on (BC-#2, I-PRUNE-2).                    *)
UsageCountedOnce ==
    \A e \in Exec : rolled[e] = IF e <= last /\ row[e].state = "none" THEN 1 ELSE 0

(* The latest deliverables of what t depends on                             *)
Input(t) == {Deliverable(p) : p \in Pred[t]}

OverPresent(e, t) == row[e].chained # {} /\ row[e].chained = Input(t)

(* An old verdict over an old input never speaks for a reviewer once there  *)
(* is one over the present input, even a truncated one (RWF C.2: that would *)
(* be fail-open); nor when the run that gave it, or one that a newer        *)
(* verdict lost to, had been cancelled or reaped.  The exception is that of *)
(* AuthorityAdvances.                                                       *)
StaleVerdictIsSilent ==
    ~raced => \A t \in Reviewer :
        LET e == Deliverable(t)
            present == {d \in Successes(row, t) : OverPresent(d, t)}
        IN  e # 0 /\ row[e].chained # {} /\ (\A d \in present : row[d].facts.chars > 0)
                => present = {} \/ CurrentInputs(e)

(* The cap is read before the row is inserted, and still binds then: an     *)
(* orchestrator re-executes a child only when no execution that is left is  *)
(* a re-execution of this run epoch, however many of its creates were in    *)
(* flight (ORCHESTRATOR_REEXECUTION_CAP).  Retention does make the cap      *)
(* forget, and then once more is allowed (orchestrator-reexecution.ts names *)
(* that residual): but only a re-execution that failed, lost to an older    *)
(* one, or was followed by one that speaks for the child.                   *)
ReexecutionCapped ==
    [][/\ last' # last /\ row'[last'].reexec =>
            \A d \in Rows(row, row'[last'].task) : ~row[d].reexec
       /\ ~raced' => \A t \in Task : \A d \in Rows(row, t) :
            row[d].reexec /\ row'[d].state = "none" =>
               \/ row[d].state = "FAILED" \/ row[d].superseded
               \/ d < Authoritative(t)']_vars

(* Nor does an orchestrator have a reviewer judge again what its verdict    *)
(* that counts was given, although the predecessors are read again after    *)
(* the check (REVIEWER_SAME_INPUT_REEXECUTION): unless that verdict is of a *)
(* run that had been cancelled or reaped and came in after the check, which *)
(* the index on active rows does not hold off, or with the exception of     *)
(* AuthorityAdvances, by which an old input may come back.                  *)
NoVerdictRepeated ==
    [][\A c \in Call :
         Insert(c) /\ last' # last /\ call[c].reexec /\ call[c].task \in Reviewer =>
           LET e == Deliverable(call[c].task) IN
           e # 0 /\ row[e].chained # {} /\ ~call[c].late /\ ~raced
             => row'[last'].chained # row[e].chained]_vars

=============================================================================
