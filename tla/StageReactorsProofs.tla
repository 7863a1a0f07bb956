------------------------ MODULE StageReactorsProofs ------------------------
(***************************************************************************)
(* What holds of StageReactors for every stage, every number of calls and  *)
(* every exposure: types, that it implements StageOrder, that no ready     *)
(* leaf is forgotten and no cone held; and, when no run is quick, that no  *)
(* task is queued again.                                                   *)
(***************************************************************************)
EXTENDS StageReactors, WellFoundedInduction, TLAPS

(* Actions keep three promises.                                             *)
Monotone ==
    /\ \A t \in Task : task[t].status = "COMPLETED" => task'[t].status = "COMPLETED"
    /\ \A t \in Task : task[t].agent => task'[t].agent
    /\ delivered \subseteq delivered'

(* Only what has an agent has rows, what has rows is in motion, and only a  *)
(* leg has succeeded without being COMPLETED.                               *)
RowInv(t) ==
    /\ task[t].agent => Kind[t] # "GATE" /\ task[t].status # "ABSENT"
    /\ task[t].row # "NONE" =>
          task[t].agent /\ task[t].status \in {"IN_PROGRESS", "COMPLETED"}
    /\ Kind[t] # "GATE" /\ task[t].status \in {"IN_PROGRESS", "COMPLETED"} =>
          task[t].agent
    /\ task[t].exec = "SUCCESS" /\ Kind[t] # "PIPELINE" =>
          task[t].status = "COMPLETED"

TaskInv == \A t \in Task : RowInv(t)

(* What is COMPLETED and settled has been recorded, and stays COMPLETED.    *)
HistoryInv ==
    /\ Delivered \subseteq delivered
    /\ \A t \in delivered : task[t].status = "COMPLETED"

(* What a call has found out and still relies on                            *)
Relies(c) ==
    LET t == CHOOSE x \in c.about : TRUE IN
    /\ c.step \notin {"idle", "queue"} => c.about # {}
    /\ c.step \in {"born", "satisfied", "existing"} => task[t].agent
    /\ c.step = "settled" => \A u \in Dep[t] : task[u].status = "COMPLETED"
    /\ c.step \in {"existing", "execute"} => Dep[t] \subseteq delivered
    /\ \A x \in c.found : task[x].agent /\ Dep[x] \subseteq delivered

CallInv(s) == Relies(call[s])

IInv ==
    /\ TypeOK /\ TaskInv /\ HistoryInv
    /\ \A s \in Slot : CallInv(s)

-----------------------------------------------------------------------------
(* Types *)

LEMMA InitTyped == Init => TypeOK
<1> SUFFICES ASSUME Init PROVE TypeOK
  OBVIOUS
<1>1. task \in [Task -> TaskRow]
  BY DEF Init, TaskRow
<1>2. call \in [Slot -> Call]
  BY DEF Init, NoCall, Call, CallSteps
<1>3. humans \in 0..MaxHuman
  BY StageAssumption DEF Init
<1>4. delivered \subseteq Task /\ lost \in BOOLEAN
  BY DEF Init
<1> QED BY <1>1, <1>2, <1>3, <1>4 DEF TypeOK

(* A call that is at work is about a task.                                  *)
LEMMA TheTyped ==
    ASSUME TypeOK, NEW s \in Slot, call[s].about # {}
    PROVE  The(s) \in Task /\ The(s) \in call[s].about
<1>1. call[s].about \subseteq Task
  BY DEF TypeOK, Call
<1>2. The(s) \in call[s].about
  BY DEF The
<1> QED BY <1>1, <1>2

LEMMA FireTyped ==
    ASSUME TypeOK, NEW s \in Slot, NEW t \in Task, NEW step \in CallSteps,
           Fire(s, CallOf(step, t))
    PROVE  call' \in [Slot -> Call]
<1>1. CallOf(step, t) \in Call
  BY DEF CallOf, Call
<1> QED BY <1>1 DEF Fire, TypeOK

LEMMA ReturnTyped ==
    ASSUME TypeOK, NEW s \in Slot, Return(s)
    PROVE  call' \in [Slot -> Call]
<1>1. NoCall \in Call
  BY DEF NoCall, Call, CallSteps
<1> QED BY <1>1 DEF Return, TypeOK

LEMMA GuardTyped ==
    ASSUME TypeOK, NEW s \in Slot, NEW here, NEW holds, NEW next \in CallSteps,
           Guard(s, here, holds, next)
    PROVE  call' \in [Slot -> Call] /\ task' = task
<1>1. CASE holds
  <2>1. call' = [call EXCEPT ![s].step = next]
    BY <1>1 DEF Guard
  <2> QED BY <2>1 DEF Guard, TypeOK, Call
<1>2. CASE ~holds
  BY <1>2, ReturnTyped DEF Guard
<1> QED BY <1>1, <1>2 DEF Guard

(* What a walk marks keeps everything but its execution status.             *)
LEMMA LegFailedShape ==
    ASSUME TypeOK, NEW t \in Task
    PROVE  /\ LegFailed(t) \in [Task -> TaskRow]
           /\ \A x \in Task :
                 /\ LegFailed(t)[x].status = task[x].status
                 /\ LegFailed(t)[x].row = task[x].row
                 /\ LegFailed(t)[x].agent = task[x].agent
                 /\ LegFailed(t)[x].success = task[x].success
                 /\ LegFailed(t)[x].exec \in {task[x].exec, "FAILED"}
BY DEF LegFailed, TypeOK, TaskRow

LEMMA InsertedTyped ==
    ASSUME TypeOK, NEW t \in Task, NEW exec \in {"NULL", "ACTIVE", "SUCCESS", "FAILED"}
    PROVE  /\ Inserted(t, exec) \in [Task -> TaskRow]
           /\ Inserted(t, exec)[t].row = "PENDING"
           /\ Inserted(t, exec)[t].exec = exec
           /\ Inserted(t, exec)[t].agent = task[t].agent
           /\ Inserted(t, exec)[t].status =
                IF task[t].status = "OPEN" THEN "IN_PROGRESS" ELSE task[t].status
           /\ \A x \in Task \ {t} : Inserted(t, exec)[x] = task[x]
<1> DEFINE st == IF task[t].status = "OPEN" THEN "IN_PROGRESS" ELSE task[t].status
           row == [task[t] EXCEPT !.row = "PENDING", !.exec = exec, !.status = st]
<1>1. task[t] \in TaskRow
  BY DEF TypeOK
<1>2. row \in TaskRow /\ row.row = "PENDING" /\ row.exec = exec
      /\ row.agent = task[t].agent /\ row.status = st
  BY <1>1 DEF TaskRow
<1>3. Inserted(t, exec) = [task EXCEPT ![t] = row]
  BY <1>1 DEF Inserted, TaskRow, TypeOK
<1> HIDE DEF row
<1> QED BY <1>2, <1>3 DEF TypeOK

-----------------------------------------------------------------------------
(* What the steps do to the tasks: one of five things happens to one task,  *)
(* and at most the execution status of the others becomes FAILED.           *)

OthersKept(t) ==
    \A x \in Task \ {t} :
        /\ task'[x].status = task[x].status /\ task'[x].row = task[x].row
        /\ task'[x].agent = task[x].agent
        /\ task'[x].exec \in {task[x].exec, "FAILED"}

Same(t) ==
    task'[t].status = task[t].status /\ (task'[t].row = "NONE" => task[t].row = "NONE")

Created(t) ==
    /\ task[t].status = "ABSENT" /\ task'[t].row = task[t].row
    /\ task'[t].status \in {"OPEN", "IN_PROGRESS"}
    /\ task'[t].status = "IN_PROGRESS" => Kind[t] = "GATE"

Started(t) ==
    /\ Kind[t] # "GATE" /\ Dep[t] \subseteq delivered
    /\ task[t].status = "OPEN" /\ task'[t].status = "IN_PROGRESS"
    /\ task'[t].row # "NONE"

Finished(t) ==
    /\ Kind[t] # "GATE" /\ task[t].status \in {"IN_PROGRESS", "COMPLETED"}
    /\ task'[t].status \in {task[t].status, "COMPLETED"}

Released(t) ==
    /\ Dep[t] \subseteq delivered
    /\ task[t].status = "IN_PROGRESS" /\ task'[t].status = "COMPLETED"

Moved(t) ==
    /\ task' \in [Task -> TaskRow]
    /\ OthersKept(t) /\ RowInv(t)' /\ (task[t].agent => task'[t].agent)
    /\ Same(t) \/ Created(t) \/ Started(t) \/ Finished(t) \/ Released(t)

(* A queued task is inserted only with its dependencies delivered.          *)
LEMMA InsertedMoves ==
    ASSUME TypeOK, TaskInv, NEW t \in Task, Dep[t] \subseteq delivered,
           task[t].agent, NEW exec \in {task[t].exec, "ACTIVE"},
           task' = Inserted(t, exec)
    PROVE  Moved(t)
<1>1. task[t] \in TaskRow /\ RowInv(t)
  BY DEF TypeOK, TaskInv
<1>2. exec \in {"NULL", "ACTIVE", "SUCCESS", "FAILED"}
  BY <1>1 DEF TaskRow
<1>3. /\ task' \in [Task -> TaskRow]
      /\ task'[t].row = "PENDING" /\ task'[t].exec = exec
      /\ task'[t].agent = task[t].agent
      /\ task'[t].status = IF task[t].status = "OPEN" THEN "IN_PROGRESS" ELSE task[t].status
      /\ \A x \in Task \ {t} : task'[x] = task[x]
  BY <1>2, InsertedTyped
<1>4. OthersKept(t)
  BY <1>3 DEF OthersKept
<1>5. RowInv(t)'
  BY <1>1, <1>3 DEF RowInv, TaskRow
<1>6. Same(t) \/ Started(t)
  BY <1>1, <1>3 DEF Same, Started, RowInv
<1> QED BY <1>3, <1>4, <1>5, <1>6 DEF Moved
(* What a statement of a reactor call or of agent.execute does to a task    *)
LEMMA CallStepMoves ==
    ASSUME IInv, NEW s \in Slot, CallStep(s)
    PROVE  task' = task \/ \E t \in Task : Moved(t)
<1> USE DEF IInv
<1>1. CASE \/ Defer(s) \/ CheckCompleted(s) \/ CheckBorn(s) \/ CheckSatisfied(s)
           \/ CheckStatuses(s) \/ CheckSettled(s)
  BY <1>1 DEF Defer, CheckCompleted, CheckBorn, CheckSatisfied, CheckStatuses,
              CheckSettled, Guard
<1>2. CASE Scan(s) \/ CheckExisting(s) \/ QueueEnds(s)
  BY <1>2 DEF Scan, CheckExisting, QueueEnds
<1>3. ASSUME NEW t \in Task, Queue(s, t)
      PROVE  task' = task \/ Moved(t)
  <2>1. task[t].agent /\ Dep[t] \subseteq delivered
    BY <1>3 DEF Queue, CallInv, Relies
  <2>2. CASE task[t].row = "NONE"
    BY <1>3, <2>1, <2>2, InsertedMoves DEF Queue
  <2>3. CASE task[t].row # "NONE"
    BY <1>3, <2>3 DEF Queue
  <2> QED BY <2>2, <2>3
<1>4. ASSUME NEW t \in Task, Refuse(s, t)
      PROVE  task' = task \/ Moved(t)
  <2>1. CASE task' = LegFailed(t)
    <3>1. RowInv(t)' /\ task' \in [Task -> TaskRow]
      BY <2>1, LegFailedShape DEF RowInv, TaskInv
    <3>2. OthersKept(t) /\ Same(t) /\ (task[t].agent => task'[t].agent)
      BY <2>1, LegFailedShape DEF OthersKept, Same
    <3> QED BY <3>1, <3>2 DEF Moved
  <2> QED BY <1>4, <2>1 DEF Refuse
<1>5. ASSUME Execute(s)
      PROVE  task' = task \/ \E t \in Task : Moved(t)
  <2>1. call[s].step = "execute" /\ call[s].about # {}
    BY <1>5 DEF Execute, CallInv, Relies
  <2>2. The(s) \in Task /\ Dep[The(s)] \subseteq delivered
    BY <2>1, TheTyped DEF CallInv, Relies, The
  <2>3. CASE task[The(s)].row = "NONE" /\ task[The(s)].agent
    BY <1>5, <2>2, <2>3, InsertedMoves DEF Execute
  <2>4. CASE ~(task[The(s)].row = "NONE" /\ task[The(s)].agent)
    BY <1>5, <2>4 DEF Execute
  <2> QED BY <2>3, <2>4
<1> QED BY <1>1, <1>2, <1>3, <1>4, <1>5 DEF CallStep

(* What the agent of the harness and people do to a task                    *)
LEMMA PeopleMove ==
    ASSUME IInv, NEW t \in Task,
           \/ Create(t) \/ Reenter(t)
           \/ \E s \in Slot : \/ Assign(t, s) \/ BeginExecute(t, s)
                             \/ ReleaseGate(t, s) \/ Complete(t, s)
    PROVE  task' = task \/ Moved(t)
<1> USE DEF IInv
<1>1. task[t] \in TaskRow /\ RowInv(t) /\ task \in [Task -> TaskRow]
  BY DEF TypeOK, TaskInv
<1> USE DEF Moved, OthersKept
<1>2. CASE Create(t)
  <2>1. task' \in [Task -> TaskRow] /\ OthersKept(t)
    BY <1>1, <1>2 DEF Create, TaskRow
  <2>2. RowInv(t)' /\ Created(t) /\ (task[t].agent => task'[t].agent)
    BY <1>1, <1>2 DEF Create, TaskRow, RowInv, Created
  <2> QED BY <2>1, <2>2
<1>3. ASSUME NEW s \in Slot, Assign(t, s) PROVE Moved(t)
  <2>1. task' \in [Task -> TaskRow] /\ OthersKept(t)
    BY <1>1, <1>3 DEF Assign, TaskRow
  <2>2. RowInv(t)' /\ Same(t) /\ (task[t].agent => task'[t].agent)
    BY <1>1, <1>3 DEF Assign, TaskRow, RowInv, Same
  <2> QED BY <2>1, <2>2
<1>4. ASSUME NEW s \in Slot, BeginExecute(t, s) PROVE task' = task
  BY <1>4 DEF BeginExecute
<1>5. ASSUME NEW s \in Slot, ReleaseGate(t, s) PROVE Moved(t)
  <2>1. task' \in [Task -> TaskRow] /\ OthersKept(t)
    BY <1>1, <1>5 DEF ReleaseGate, TaskRow
  <2>2. RowInv(t)' /\ (task[t].agent => task'[t].agent)
    BY <1>1, <1>5 DEF ReleaseGate, TaskRow, RowInv
  <2>3. Dep[t] \subseteq Delivered
    BY <1>5, StageAssumption
       DEF ReleaseGate, Releasable, Unsatisfied, UnsatisfiedUpstream, Delivered
  <2>4. Released(t)
    BY <1>1, <1>5, <2>3 DEF ReleaseGate, Released, HistoryInv, TaskRow
  <2> QED BY <2>1, <2>2, <2>4
<1>6. ASSUME NEW s \in Slot, Complete(t, s) PROVE Moved(t)
  <2>1. task' \in [Task -> TaskRow] /\ OthersKept(t)
    BY <1>1, <1>6 DEF Complete, TaskRow
  <2>2. RowInv(t)' /\ Finished(t) /\ (task[t].agent => task'[t].agent)
    BY <1>1, <1>6 DEF Complete, TaskRow, RowInv, Finished
  <2> QED BY <2>1, <2>2
<1>7. CASE Reenter(t)
  <2>1. task' \in [Task -> TaskRow] /\ OthersKept(t)
    BY <1>1, <1>7 DEF Reenter, TaskRow
  <2>2. RowInv(t)' /\ Same(t) /\ (task[t].agent => task'[t].agent)
    BY <1>1, <1>7 DEF Reenter, TaskRow, RowInv, Same
  <2> QED BY <2>1, <2>2
<1> QED BY <1>2, <1>3, <1>4, <1>5, <1>6, <1>7

(* What runs and reapers do to a task                                       *)
LEMMA RunsMove ==
    ASSUME IInv, NEW t \in Task,
           \/ StartRun(t) \/ EndRun(t)
           \/ \E s \in Slot, awaited \in BOOLEAN : Reap(t, s, awaited)
    PROVE  task' = task \/ Moved(t)
<1> USE DEF IInv
<1>1. task[t] \in TaskRow /\ RowInv(t) /\ task \in [Task -> TaskRow]
  BY DEF TypeOK, TaskInv
<1> USE DEF Moved, OthersKept
<1>2. CASE StartRun(t)
  <2>1. task' \in [Task -> TaskRow] /\ OthersKept(t)
    BY <1>1, <1>2 DEF StartRun, TaskRow
  <2>2. RowInv(t)' /\ Same(t) /\ (task[t].agent => task'[t].agent)
    BY <1>1, <1>2 DEF StartRun, TaskRow, RowInv, Same
  <2> QED BY <2>1, <2>2
<1>3. ASSUME NEW s \in Slot, RunSucceeds(t, s) PROVE Moved(t)
  <2> DEFINE st == IF Kind[t] = "LEAF" THEN "COMPLETED" ELSE task[t].status
  <2>1. /\ task' \in [Task -> TaskRow] /\ OthersKept(t)
        /\ task'[t].status = st /\ task'[t].agent = task[t].agent
        /\ task'[t].row = "NONE" /\ task[t].row # "NONE"
    BY <1>1, <1>3 DEF RunSucceeds, TaskRow
  <2>2. Kind[t] \in {"LEAF", "PIPELINE"}
    BY <1>1, <2>1, StageAssumption DEF RowInv
  <2>3. RowInv(t)' /\ Finished(t)
    BY <1>1, <2>1, <2>2 DEF RowInv, Finished
  <2> QED BY <2>1, <2>3
<1>4. ASSUME NEW s \in Slot, RunTerminalized(t, s) PROVE Moved(t)
  <2>1. task' = [LegFailed(t) EXCEPT ![t].row = "NONE", ![t].success = TRUE]
    BY <1>4 DEF RunTerminalized
  <2>2. /\ task' \in [Task -> TaskRow] /\ OthersKept(t)
        /\ task'[t].status = task[t].status /\ task'[t].agent = task[t].agent
        /\ task'[t].row = "NONE"
    <3> DEFINE lf == LegFailed(t)
    <3>1. /\ lf \in [Task -> TaskRow]
          /\ lf[t].status = task[t].status /\ lf[t].agent = task[t].agent
          /\ \A x \in Task \ {t} :
                /\ lf[x].status = task[x].status /\ lf[x].row = task[x].row
                /\ lf[x].agent = task[x].agent /\ lf[x].exec \in {task[x].exec, "FAILED"}
      BY LegFailedShape
    <3>2. task' = [lf EXCEPT ![t] = [lf[t] EXCEPT !.row = "NONE", !.success = TRUE]]
      BY <2>1, <3>1
    <3>3. lf[t] \in TaskRow
      BY <3>1
    <3>4. [lf[t] EXCEPT !.row = "NONE", !.success = TRUE] \in TaskRow
      BY <3>3 DEF TaskRow
    <3> HIDE DEF lf
    <3> QED BY <3>1, <3>2, <3>3, <3>4 DEF TaskRow
  <2>3. Kind[t] = "PIPELINE" /\ task[t].row # "NONE"
    BY <1>4 DEF RunTerminalized
  <2>4. RowInv(t)' /\ Finished(t)
    BY <1>1, <2>2, <2>3 DEF RowInv, Finished
  <2> QED BY <2>2, <2>4
<1>5. ASSUME NEW s \in Slot, RunFails(t, s) PROVE Moved(t)
  <2>1. Terminated(t) \in {"NULL", "FAILED"}
    BY DEF Terminated
  <2>2. task' = [task EXCEPT ![t].row = "NONE", ![t].exec = Terminated(t)]
        /\ task[t].row # "NONE"
    BY <1>5 DEF RunFails
  <2>3. /\ task' \in [Task -> TaskRow] /\ OthersKept(t)
        /\ task'[t].status = task[t].status /\ task'[t].agent = task[t].agent
        /\ task'[t].row = "NONE" /\ task'[t].exec \in {"NULL", "FAILED"}
    BY <1>1, <2>1, <2>2 DEF TaskRow
  <2>4. RowInv(t)' /\ Finished(t)
    BY <1>1, <2>2, <2>3 DEF RowInv, Finished
  <2> QED BY <2>3, <2>4
<1>6. ASSUME NEW s \in Slot, NEW awaited \in BOOLEAN, Reap(t, s, awaited) PROVE Moved(t)
  <2>1. task[t].row # "NONE"
    BY <1>6 DEF Reap
  <2>2. /\ task' \in [Task -> TaskRow] /\ OthersKept(t)
        /\ task'[t].status = task[t].status /\ task'[t].agent = task[t].agent
        /\ task'[t].row = "NONE"
        /\ Kind[t] # "PIPELINE" => task'[t].exec # "SUCCESS"
    <3>1. CASE task' = [task EXCEPT ![t].row = "NONE", ![t].exec = "NULL"]
      BY <1>1, <3>1 DEF TaskRow
    <3>2. CASE task' = [task EXCEPT ![t].row = "NONE", ![t].exec = "FAILED"]
      BY <1>1, <3>2 DEF TaskRow
    <3>3. CASE Kind[t] = "PIPELINE" /\ task' = [LegFailed(t) EXCEPT ![t].row = "NONE"]
      BY <3>3, LegFailedShape DEF TaskRow
    <3> QED BY <1>6, <3>1, <3>2, <3>3 DEF Reap
  <2>3. RowInv(t)' /\ Finished(t)
    BY <1>1, <2>1, <2>2 DEF RowInv, Finished
  <2> QED BY <2>2, <2>3
<1> QED BY <1>2, <1>3, <1>4, <1>5, <1>6 DEF EndRun
(* Every step moves at most one task.                                       *)
LEMMA StepMoves ==
    ASSUME IInv, Step
    PROVE  task' = task \/ \E t \in Task : Moved(t)
<1>1. ASSUME NEW s \in Slot, CallDies(s) PROVE task' = task
  BY <1>1 DEF CallDies
<1>2. ASSUME NEW s \in Slot, NEW t \in Task, QueueThrows(s, t) PROVE task' = task
  BY <1>2 DEF QueueThrows
<1>3. ASSUME NEW s \in Slot, CallStep(s)
      PROVE  task' = task \/ \E t \in Task : Moved(t)
  BY <1>3, CallStepMoves
<1>4. ASSUME NEW t \in Task,
             \/ Create(t) \/ Reenter(t)
             \/ \E s \in Slot : \/ Assign(t, s) \/ BeginExecute(t, s)
                               \/ ReleaseGate(t, s) \/ Complete(t, s)
      PROVE  task' = task \/ Moved(t)
  BY <1>4, PeopleMove
<1>5. ASSUME NEW t \in Task,
             \/ StartRun(t) \/ EndRun(t)
             \/ \E s \in Slot, awaited \in BOOLEAN : Reap(t, s, awaited)
      PROVE  task' = task \/ Moved(t)
  BY <1>5, RunsMove
<1> QED BY <1>1, <1>2, <1>3, <1>4, <1>5 DEF Step

(* What a move keeps.                                                       *)
LEMMA MovesKeep ==
    ASSUME TypeOK, TaskInv, HistoryInv, delivered' = delivered \cup Delivered',
           task' = task \/ \E t \in Task : Moved(t)
    PROVE  /\ task' \in [Task -> TaskRow] /\ delivered' \subseteq Task
           /\ TaskInv' /\ HistoryInv' /\ Monotone
<1>1. CASE task' = task
  BY <1>1 DEF TypeOK, TaskInv, RowInv, HistoryInv, Monotone, Delivered
<1>2. ASSUME NEW t \in Task, Moved(t)
      PROVE  /\ task' \in [Task -> TaskRow] /\ TaskInv' /\ HistoryInv' /\ Monotone
  <2>1. task' \in [Task -> TaskRow]
    BY <1>2 DEF Moved
  <2>2. TaskInv'
    <3> SUFFICES ASSUME NEW x \in Task PROVE RowInv(x)'
      BY DEF TaskInv
    <3>1. CASE x = t
      BY <1>2, <3>1 DEF Moved
    <3>2. CASE x # t
      BY <1>2, <3>2 DEF Moved, OthersKept, TaskInv, RowInv
    <3> QED BY <3>1, <3>2
  <2>3. \A x \in Task : task[x].status = "COMPLETED" => task'[x].status = "COMPLETED"
    <3> SUFFICES ASSUME NEW x \in Task, task[x].status = "COMPLETED"
                 PROVE  task'[x].status = "COMPLETED"
      OBVIOUS
    <3>1. CASE x = t
      BY <1>2, <3>1 DEF Moved, Same, Created, Started, Finished, Released
    <3>2. CASE x # t
      BY <1>2, <3>2 DEF Moved, OthersKept
    <3> QED BY <3>1, <3>2
  <2>4. \A x \in Task : task[x].agent => task'[x].agent
    BY <1>2 DEF Moved, OthersKept
  <2>5. Monotone
    BY <2>3, <2>4 DEF Monotone
  <2>6. HistoryInv'
    BY <2>3 DEF HistoryInv, Delivered, TypeOK
  <2> QED BY <2>1, <2>2, <2>5, <2>6
<1>3. delivered' \subseteq Task
  BY DEF Delivered, TypeOK
<1> QED BY <1>1, <1>2, <1>3

(* Each of the five moves is a step of StageOrder or a stutter.             *)
LEMMA MovesRefine ==
    ASSUME TypeOK, TaskInv, HistoryInv, delivered' = delivered \cup Delivered',
           task' = task \/ \E t \in Task : Moved(t)
    PROVE  [Order!Next]_(Order!vars)
<1>1. Delivered \subseteq delivered
  BY DEF HistoryInv
<1>2. CASE task' = task
  BY <1>1, <1>2 DEF Order!vars, Begun, Delivered
<1>3. ASSUME NEW t \in Task, Moved(t)
      PROVE  [Order!Next]_(Order!vars)
  <2>1. \A x \in Task \ {t} : (x \in Begun' <=> x \in Begun) /\ (x \in Delivered' <=> x \in Delivered)
    BY <1>3 DEF Moved, OthersKept, Begun, Delivered
  <2>2. delivered' \subseteq delivered \cup {t} /\ delivered \subseteq delivered'
    BY <1>1, <2>1 DEF Delivered
  <2>3. Begun \subseteq Task /\ Begun' \subseteq Task
    BY DEF Begun
  <2>4. task[t] \in TaskRow /\ task'[t] \in TaskRow
    BY <1>3 DEF TypeOK, Moved
  <2>5. CASE Same(t)
    <3>1. t \in Begun' <=> t \in Begun
      BY <2>5 DEF Same, Begun
    <3>2. t \in Delivered' => t \in Delivered
      BY <2>5, <2>4 DEF Same, Delivered, TaskRow
    <3>3. Begun' = Begun /\ delivered' = delivered
      BY <1>1, <2>1, <2>2, <2>3, <3>1, <3>2
    <3> QED BY <3>3 DEF Order!vars
  <2>6. CASE Created(t)
    <3>1. t \notin Begun' /\ t \notin Begun /\ t \notin Delivered'
      BY <2>6 DEF Created, Begun, Delivered
    <3>2. Begun' = Begun /\ delivered' = delivered
      BY <1>1, <2>1, <2>2, <2>3, <3>1
    <3> QED BY <3>2 DEF Order!vars
  <2>7. CASE Started(t)
    <3>1. t \in Begun' /\ t \notin Delivered'
      BY <2>7 DEF Started, Begun, Delivered
    <3>2. Begun' = Begun \cup {t} /\ delivered' = delivered
      BY <1>1, <2>1, <2>2, <2>3, <3>1
    <3>3. Order!Begin(t)
      BY <2>7, <3>2 DEF Started, Order!Begin
    <3> QED BY <3>3 DEF Order!Next
  <2>8. CASE Finished(t)
    <3>1. t \in Begun /\ t \in Begun'
      BY <2>8 DEF Finished, Begun
    <3>2. Begun' = Begun
      BY <2>1, <2>3, <3>1
    <3>3. CASE t \in Delivered'
      <4>1. delivered' = delivered \cup {t}
        BY <2>2, <3>3
      <4>2. Order!Deliver(t)
        BY <3>1, <3>2, <4>1 DEF Order!Deliver
      <4> QED BY <4>2 DEF Order!Next
    <3>4. CASE t \notin Delivered'
      BY <1>1, <2>1, <2>2, <3>2, <3>4 DEF Order!vars
    <3> QED BY <3>3, <3>4
  <2>9. CASE Released(t)
    <3>1. t \in Begun'
      BY <2>9 DEF Released, Begun
    <3>2. Begun' = Begun \cup {t}
      BY <2>1, <2>3, <3>1
    <3>3. CASE t \in Delivered'
      <4>1. delivered' = delivered \cup {t}
        BY <2>2, <3>3
      <4>2. Order!Release(t)
        BY <2>9, <3>2, <4>1 DEF Order!Release, Released
      <4> QED BY <4>2 DEF Order!Next
    <3>4. CASE t \notin Delivered'
      <4>1. delivered' = delivered
        BY <1>1, <2>1, <2>2, <3>4
      <4>2. Order!Begin(t)
        BY <2>9, <3>2, <4>1 DEF Order!Begin, Released
      <4> QED BY <4>2 DEF Order!Next
    <3> QED BY <3>3, <3>4
  <2> QED BY <1>3, <2>5, <2>6, <2>7, <2>8, <2>9 DEF Moved
<1> QED BY <1>2, <1>3
-----------------------------------------------------------------------------
(* What the steps do to the calls                                           *)

(* What a call relies on, no step takes away.                               *)
LEMMA ReliesKept ==
    ASSUME Monotone, NEW s \in Slot, call[s] \in Call, CallInv(s), call'[s] = call[s]
    PROVE  CallInv(s)'
<1> DEFINE c == call[s]
           t == CHOOSE x \in c.about : TRUE
<1>1. c.about \subseteq Task /\ c.found \subseteq Task
  BY DEF Call
<1>2. c.about # {} => t \in Task
  BY <1>1
<1>3. Dep[t] \subseteq delivered => Dep[t] \subseteq delivered'
  BY DEF Monotone
<1>4. c.about # {} => /\ task[t].agent => task'[t].agent
                      /\ Dep[t] \subseteq Task
  BY <1>2, StageAssumption DEF Monotone
<1>5. \A x \in c.found : task'[x].agent /\ Dep[x] \subseteq delivered'
  BY <1>1 DEF Monotone, CallInv, Relies
<1>6. c.step = "settled" => \A u \in Dep[t] : task'[u].status = "COMPLETED"
  BY <1>4 DEF Monotone, CallInv, Relies
<1> QED BY <1>3, <1>4, <1>5, <1>6 DEF CallInv, Relies

(* A step that replaces one call by one whose reliances hold.               *)
LEMMA CallReplaced ==
    ASSUME IInv, Monotone, NEW s \in Slot, NEW q \in Slot,
           \A r \in Slot \ {s} : call'[r] = call[r],
           CallInv(s)'
    PROVE  CallInv(q)'
<1>1. CASE q = s
  BY <1>1
<1>2. CASE q # s
  <2>1. call[q] \in Call /\ CallInv(q) /\ call'[q] = call[q]
    BY <1>2 DEF IInv, TypeOK
  <2> QED BY <2>1, ReliesKept
<1> QED BY <1>1, <1>2

LEMMA ReturnKeeps ==
    ASSUME IInv, Monotone, NEW s \in Slot, NEW q \in Slot, Return(s)
    PROVE  CallInv(q)'
<1>1. call'[s] = NoCall /\ \A r \in Slot \ {s} : call'[r] = call[r]
  BY DEF Return, IInv, TypeOK
<1>2. CallInv(s)'
  BY <1>1 DEF NoCall, CallInv, Relies
<1> QED BY <1>1, <1>2, CallReplaced

(* A call that is fired has an agent to ask for at most.                    *)
LEMMA FireKeeps ==
    ASSUME IInv, Monotone, NEW s \in Slot, NEW q \in Slot, NEW t \in Task,
           NEW step \in {"defer", "completed", "born", "statuses"},
           step = "born" => task'[t].agent,
           Fire(s, CallOf(step, t))
    PROVE  CallInv(q)'
<1>1. call'[s] = CallOf(step, t) /\ \A r \in Slot \ {s} : call'[r] = call[r]
  BY DEF Fire, IInv, TypeOK
<1>2. (CHOOSE x \in {t} : TRUE) = t
  OBVIOUS
<1>3. CallInv(s)'
  BY <1>1, <1>2 DEF CallOf, CallInv, Relies
<1> QED BY <1>1, <1>3, CallReplaced

(* A guard passes a call on to a statement whose reliances hold.            *)
LEMMA GuardKeeps ==
    ASSUME IInv, Monotone, NEW s \in Slot, NEW q \in Slot,
           NEW here \in CallSteps \ {"idle", "queue"}, NEW holds,
           NEW next \in CallSteps \ {"idle", "queue"},
           Guard(s, here, holds, next),
           holds /\ next \in {"born", "satisfied", "existing"} => task'[The(s)].agent,
           holds /\ next = "settled" => \A u \in Dep[The(s)] : task'[u].status = "COMPLETED",
           holds /\ next \in {"existing", "execute"} => Dep[The(s)] \subseteq delivered'
    PROVE  CallInv(q)'
<1>1. CASE ~holds
  BY <1>1, ReturnKeeps DEF Guard
<1>2. CASE holds
  <2>1. call' = [call EXCEPT ![s].step = next] /\ call[s].step = here
    BY <1>2 DEF Guard
  <2>2. call[s] \in Call /\ CallInv(s)
    BY DEF IInv, TypeOK
  <2>3. /\ call'[s].step = next /\ call'[s].about = call[s].about
        /\ call'[s].found = call[s].found
        /\ \A r \in Slot \ {s} : call'[r] = call[r]
    BY <2>1, <2>2 DEF IInv, TypeOK, Call
  <2>4. \A x \in call[s].found : task'[x].agent /\ Dep[x] \subseteq delivered'
    BY <2>2 DEF CallInv, Relies, Monotone, Call
  <2>5. CallInv(s)'
    BY <1>2, <2>1, <2>2, <2>3, <2>4 DEF CallInv, Relies, The
  <2> QED BY <2>3, <2>5, CallReplaced
<1> QED BY <1>1, <1>2
(* A statement of a call leaves every call with what it relies on.          *)
LEMMA CallStepKeeps ==
    ASSUME IInv, Monotone, NEW s \in Slot, NEW q \in Slot, CallStep(s)
    PROVE  call' \in [Slot -> Call] /\ CallInv(q)'
<1> DEFINE t == The(s)
<1>0. TypeOK /\ CallInv(s) /\ call[s] \in Call
  BY DEF IInv, TypeOK
<1>1. call[s].step \notin {"idle", "queue"} => t \in Task
  BY <1>0, TheTyped DEF CallInv, Relies
<1> HIDE DEF t
<1>2. CASE Defer(s)
  <2>1. Guard(s, "defer", task[t].row = "NONE", "completed")
    BY <1>2 DEF Defer, t
  <2> QED BY <1>0, <2>1, GuardTyped, GuardKeeps DEF CallSteps
<1>3. CASE CheckCompleted(s)
  <2>1. Guard(s, "completed", task[t].status = "COMPLETED", "scan")
    BY <1>3 DEF CheckCompleted, t
  <2> QED BY <1>0, <2>1, GuardTyped, GuardKeeps DEF CallSteps
<1>4. CASE Scan(s)
  <2>1. ReadyDependents(t) \subseteq Task
    BY DEF ReadyDependents
  <2>2. /\ call'[s] = [step |-> "queue", about |-> {}, found |-> ReadyDependents(t)]
        /\ call' \in [Slot -> Call] /\ \A r \in Slot \ {s} : call'[r] = call[r]
    BY <1>0, <1>4, <2>1 DEF Scan, t, TypeOK, Call, CallSteps
  <2>3. \A x \in ReadyDependents(t) : task[x].agent /\ Dep[x] \subseteq Delivered
    BY StageAssumption
       DEF ReadyDependents, Unsatisfied, UnsatisfiedUpstream, Delivered
  <2>4. \A x \in ReadyDependents(t) : task'[x].agent /\ Dep[x] \subseteq delivered'
    BY <2>1, <2>3 DEF Monotone, IInv, HistoryInv
  <2>5. CallInv(s)'
    BY <2>2, <2>4 DEF CallInv, Relies
  <2> QED BY <2>2, <2>5, CallReplaced
<1>5. CASE CheckBorn(s)
  <2> DEFINE holds == /\ task[t].status = "OPEN" /\ task[t].agent /\ task[t].exec # "ACTIVE"
                      /\ Dep[t] # {} => Kind[t] # "PIPELINE"
  <2>1. Guard(s, "born", holds, "satisfied")
    BY <1>5 DEF CheckBorn, t
  <2>2. call[s].step = "born"
    BY <2>1 DEF Guard
  <2>3. task'[t].agent
    BY <1>0, <1>1, <2>2 DEF CallInv, Relies, The, t, Monotone
  <2> HIDE DEF holds
  <2> QED BY <1>0, <2>1, <2>3, GuardTyped, GuardKeeps DEF CallSteps, t
<1>6. CASE CheckSatisfied(s)
  <2>1. Guard(s, "satisfied", ~Unsatisfied(t), "existing") /\ call[s].step = "satisfied"
    BY <1>6 DEF CheckSatisfied, Guard, t
  <2>2. task'[t].agent
    BY <1>0, <1>1, <2>1 DEF CallInv, Relies, The, t, Monotone
  <2>3. ~Unsatisfied(t) => Dep[t] \subseteq delivered'
    <3>1. ~Unsatisfied(t) => Dep[t] \subseteq Delivered
      BY <1>1, <2>1, StageAssumption DEF Unsatisfied, UnsatisfiedUpstream, Delivered
    <3> QED BY <3>1 DEF Monotone, IInv, HistoryInv
  <2> QED BY <1>0, <2>1, <2>2, <2>3, GuardTyped, GuardKeeps DEF CallSteps, t
<1>7. CASE CheckExisting(s)
  <2>1. CASE call' = [call EXCEPT ![s] = NoCall]
    BY <1>0, <2>1, ReturnTyped, ReturnKeeps DEF Return
  <2>2. CASE call' = [call EXCEPT ![s] = [step |-> "queue", about |-> {}, found |-> {t}]]
    <3>1. call[s].step = "existing"
      BY <1>7 DEF CheckExisting
    <3>2. t \in Task /\ task'[t].agent /\ Dep[t] \subseteq delivered'
      BY <1>0, <1>1, <3>1 DEF CallInv, Relies, The, t, Monotone
    <3>3. /\ call'[s] = [step |-> "queue", about |-> {}, found |-> {t}]
          /\ call' \in [Slot -> Call] /\ \A r \in Slot \ {s} : call'[r] = call[r]
      BY <1>0, <2>2, <3>2 DEF TypeOK, Call, CallSteps
    <3>4. CallInv(s)'
      BY <3>2, <3>3 DEF CallInv, Relies
    <3> QED BY <3>3, <3>4, CallReplaced
  <2> QED BY <1>7, <2>1, <2>2 DEF CheckExisting, t
<1>8. ASSUME NEW x \in Task, Queue(s, x) \/ Refuse(s, x)
      PROVE  call' \in [Slot -> Call] /\ CallInv(q)'
  <2>1. call' = [call EXCEPT ![s].found = @ \ {x}] /\ call[s].step = "queue"
    BY <1>8 DEF Queue, Refuse
  <2>2. /\ call'[s].step = "queue" /\ call'[s].found \subseteq call[s].found
        /\ call' \in [Slot -> Call] /\ \A r \in Slot \ {s} : call'[r] = call[r]
    BY <1>0, <2>1 DEF TypeOK, Call
  <2>3. call[s].found \subseteq Task
    BY <1>0 DEF Call
  <2>4. CallInv(s)'
    BY <1>0, <2>2, <2>3 DEF CallInv, Relies, Monotone
  <2> QED BY <2>2, <2>4, CallReplaced
<1>9. CASE QueueEnds(s) \/ Execute(s)
  BY <1>0, <1>9, ReturnTyped, ReturnKeeps DEF QueueEnds, Execute
<1>10. CASE CheckStatuses(s)
  <2> DEFINE holds == \A u \in Dep[t] : ~Blocker(u)
  <2>1. Guard(s, "statuses", holds, "settled") /\ call[s].step = "statuses"
    BY <1>10 DEF CheckStatuses, Guard, t
  <2>2. t \in Task /\ Dep[t] \subseteq Task
    BY <1>1, <2>1, StageAssumption
  <2>3. holds => \A u \in Dep[t] : task'[u].status = "COMPLETED"
    BY <2>2 DEF Blocker, IInv, TaskInv, RowInv, Monotone
  <2> HIDE DEF holds
  <2> QED BY <1>0, <2>1, <2>3, GuardTyped, GuardKeeps DEF CallSteps, t
<1>11. CASE CheckSettled(s)
  <2> DEFINE holds == \A u \in Dep[t] : task[u].row = "NONE"
  <2>1. Guard(s, "settled", holds, "execute") /\ call[s].step = "settled"
    BY <1>11 DEF CheckSettled, Guard, t
  <2>2. t \in Task /\ Dep[t] \subseteq Task
    BY <1>1, <2>1, StageAssumption
  <2>3. \A u \in Dep[t] : task[u].status = "COMPLETED"
    BY <1>0, <2>1 DEF CallInv, Relies, The, t
  <2>4. holds => Dep[t] \subseteq delivered'
    BY <2>2, <2>3 DEF Delivered, IInv, HistoryInv, Monotone
  <2> HIDE DEF holds
  <2> QED BY <1>0, <2>1, <2>4, GuardTyped, GuardKeeps DEF CallSteps, t
<1> QED BY <1>2, <1>3, <1>4, <1>5, <1>6, <1>7, <1>8, <1>9, <1>10, <1>11 DEF CallStep
(* So does every other step: it fires a call, drops one or leaves all alone. *)
LEMMA CallsKept ==
    ASSUME IInv, Monotone, NEW q \in Slot, Step
    PROVE  call' \in [Slot -> Call] /\ CallInv(q)'
<1>0. TypeOK /\ CallInv(q) /\ call[q] \in Call
  BY DEF IInv, TypeOK
<1>1. CASE UNCHANGED call
  BY <1>0, <1>1, ReliesKept DEF TypeOK
<1>2. ASSUME NEW s \in Slot, NEW t \in Task,
             NEW step \in {"defer", "completed", "born", "statuses"},
             step = "born" => task'[t].agent, Fire(s, CallOf(step, t))
      PROVE  call' \in [Slot -> Call] /\ CallInv(q)'
  <2>1. step \in CallSteps
    BY DEF CallSteps
  <2> QED BY <1>0, <1>2, <2>1, FireTyped, FireKeeps
<1>3. ASSUME NEW s \in Slot, CallStep(s)
      PROVE  call' \in [Slot -> Call] /\ CallInv(q)'
  BY <1>3, CallStepKeeps
<1>4. ASSUME NEW s \in Slot, CallDies(s)
      PROVE  call' \in [Slot -> Call] /\ CallInv(q)'
  BY <1>0, <1>4, ReturnTyped, ReturnKeeps DEF CallDies
<1>5. ASSUME NEW s \in Slot, NEW t \in Task, QueueThrows(s, t)
      PROVE  call' \in [Slot -> Call] /\ CallInv(q)'
  <2>1. call' = [call EXCEPT ![s].found = @ \ {t}] /\ call[s].step = "queue"
    BY <1>5 DEF QueueThrows
  <2>2. call[s] \in Call /\ CallInv(s)
    BY DEF IInv, TypeOK
  <2>3. /\ call'[s].step = "queue" /\ call'[s].found \subseteq call[s].found
        /\ call' \in [Slot -> Call] /\ \A r \in Slot \ {s} : call'[r] = call[r]
    BY <1>0, <2>1, <2>2 DEF TypeOK, Call
  <2>4. call[s].found \subseteq Task
    BY <2>2 DEF Call
  <2>5. CallInv(s)'
    BY <2>2, <2>3, <2>4 DEF CallInv, Relies, Monotone
  <2> QED BY <2>3, <2>5, CallReplaced
<1>6. ASSUME NEW t \in Task, Create(t) \/ Reenter(t) \/ StartRun(t)
      PROVE  call' \in [Slot -> Call] /\ CallInv(q)'
  BY <1>1, <1>6 DEF Create, Reenter, StartRun
<1>7. ASSUME NEW t \in Task, NEW s \in Slot, Assign(t, s)
      PROVE  call' \in [Slot -> Call] /\ CallInv(q)'
  <2>1. task'[t].agent
    BY <1>0, <1>7 DEF Assign, TypeOK, TaskRow
  <2> QED BY <1>1, <1>2, <1>7, <2>1 DEF Assign
<1>8. ASSUME NEW t \in Task, NEW s \in Slot, BeginExecute(t, s)
      PROVE  call' \in [Slot -> Call] /\ CallInv(q)'
  BY <1>2, <1>8 DEF BeginExecute
<1>9. ASSUME NEW t \in Task, NEW s \in Slot, ReleaseGate(t, s) \/ Complete(t, s)
      PROVE  call' \in [Slot -> Call] /\ CallInv(q)'
  BY <1>2, <1>9 DEF ReleaseGate, Complete, FireCompletion
<1>10. ASSUME NEW t \in Task, NEW s \in Slot,
              \/ RunSucceeds(t, s) \/ RunTerminalized(t, s) \/ RunFails(t, s)
              \/ \E awaited \in BOOLEAN : Reap(t, s, awaited)
       PROVE  call' \in [Slot -> Call] /\ CallInv(q)'
  BY <1>2, <1>10 DEF RunSucceeds, RunTerminalized, RunFails, Reap
<1> QED
  BY <1>3, <1>4, <1>5, <1>6, <1>7, <1>8, <1>9, <1>10 DEF Step, EndRun

-----------------------------------------------------------------------------
(* The results *)

LEMMA InitIInv == Init => IInv
<1> SUFFICES ASSUME Init PROVE IInv
  OBVIOUS
<1>1. TypeOK
  BY InitTyped
<1>2. TaskInv /\ HistoryInv
  BY DEF Init, TaskInv, RowInv, HistoryInv, Delivered
<1>3. \A s \in Slot : CallInv(s)
  BY DEF Init, NoCall, CallInv, Relies
<1> QED BY <1>1, <1>2, <1>3 DEF IInv

(* People re-execute within the bound.                                      *)
LEMMA BoundsKept ==
    ASSUME IInv, Step
    PROVE  humans' \in 0..MaxHuman /\ lost' \in BOOLEAN
<1> USE StageAssumption DEF IInv, TypeOK
<1>1. ASSUME NEW s \in Slot, CallStep(s) \/ CallDies(s)
      PROVE  humans' = humans /\ lost' \in BOOLEAN
  BY <1>1 DEF CallStep, CallDies, Defer, CheckCompleted, Scan, CheckBorn, CheckSatisfied,
              CheckExisting, Queue, Refuse, QueueEnds, CheckStatuses, CheckSettled,
              Execute, Guard
<1>2. ASSUME NEW s \in Slot, NEW t \in Task, BeginExecute(t, s)
      PROVE  humans' \in 0..MaxHuman /\ lost' \in BOOLEAN
  BY <1>2 DEF BeginExecute
<1>3. ASSUME NEW s \in Slot, NEW t \in Task, NEW awaited \in BOOLEAN,
             \/ QueueThrows(s, t) \/ Create(t) \/ Reenter(t) \/ StartRun(t) \/ EndRun(t)
             \/ Assign(t, s) \/ ReleaseGate(t, s) \/ Complete(t, s) \/ Reap(t, s, awaited)
      PROVE  humans' = humans /\ lost' \in BOOLEAN
  BY <1>3 DEF QueueThrows, Create, Reenter, StartRun, EndRun, RunSucceeds, RunTerminalized,
              RunFails, Assign, ReleaseGate, Complete, Reap
<1>4. ASSUME NEW t \in Task, Create(t) \/ Reenter(t) \/ StartRun(t) \/ EndRun(t)
      PROVE  humans' = humans /\ lost' \in BOOLEAN
  BY <1>4 DEF Create, Reenter, StartRun, EndRun, RunSucceeds, RunTerminalized, RunFails
<1> QED BY <1>1, <1>2, <1>3, <1>4 DEF Step

LEMMA NextKeepsIInv == IInv /\ [Next]_vars => IInv'
<1> SUFFICES ASSUME IInv, [Next]_vars PROVE IInv'
  OBVIOUS
<1>1. CASE UNCHANGED vars
  BY <1>1 DEF vars, IInv, TypeOK, TaskInv, RowInv, HistoryInv, Delivered, CallInv, Relies
<1>2. CASE Next
  <2>1. Step /\ delivered' = delivered \cup Delivered'
    BY <1>2 DEF Next
  <2>2. task' = task \/ \E t \in Task : Moved(t)
    BY <2>1, StepMoves
  <2>3. /\ task' \in [Task -> TaskRow] /\ delivered' \subseteq Task
        /\ TaskInv' /\ HistoryInv' /\ Monotone
    BY <2>1, <2>2, MovesKeep DEF IInv
  <2>4. \A q \in Slot : call' \in [Slot -> Call] /\ CallInv(q)'
    BY <2>1, <2>3, CallsKept
  <2>5. humans' \in 0..MaxHuman /\ lost' \in BOOLEAN
    BY <2>1, BoundsKept
  <2>6. call' \in [Slot -> Call]
    <3>1. CASE Slot = {}
      <4>1. \E t \in Task : Create(t) \/ Reenter(t) \/ StartRun(t)
        BY <2>1, <3>1 DEF Step, EndRun
      <4>2. call' = call
        BY <4>1 DEF Create, Reenter, StartRun
      <4> QED BY <4>2 DEF IInv, TypeOK
    <3> QED BY <2>4, <3>1
  <2> QED BY <2>3, <2>4, <2>5, <2>6 DEF IInv, TypeOK
<1> QED BY <1>1, <1>2

THEOREM Invariance == Spec => []IInv
BY InitIInv, NextKeepsIInv, PTL DEF Spec

(* The tasks, the calls and the history keep their types.                   *)
THEOREM TypeCorrect == Spec => []TypeOK
<1>1. IInv => TypeOK
  BY DEF IInv
<1> QED BY <1>1, Invariance, PTL

LEMMA NextRefines ==
    ASSUME IInv, [Next]_vars
    PROVE  [Order!Next]_(Order!vars)
<1>1. CASE UNCHANGED vars
  BY <1>1 DEF vars, Order!vars, Begun
<1>2. CASE Next
  <2>1. Step /\ delivered' = delivered \cup Delivered'
    BY <1>2 DEF Next
  <2>2. task' = task \/ \E t \in Task : Moved(t)
    BY <2>1, StepMoves
  <2> QED BY <2>1, <2>2, MovesRefine DEF IInv
<1> QED BY <1>1, <1>2

(* Whatever the stage, the exposures and the number of concurrent calls:    *)
(* no task is set in motion before all it depends on is delivered.          *)
THEOREM Implementation == Spec => ImplementsStageOrder
<1>1. Init => Order!Init
  BY DEF Init, Order!Init, Begun
<1>2. IInv /\ [Next]_vars => [Order!Next]_(Order!vars)
  BY NextRefines
<1> QED BY <1>1, <1>2, Invariance, PTL DEF Spec, ImplementsStageOrder, Order!Spec

-----------------------------------------------------------------------------
(* A reactor never queues a task twice, if runs outlast the calls that were  *)
(* about to queue their task.                                               *)

Fresh(x) == task[x].status = "OPEN" \/ task[x].row # "NONE"

(* A call may still queue the task.                                         *)
Held(s, x) ==
    \/ x \in call[s].found
    \/ call[s].step \in {"born", "satisfied", "existing"} /\ x \in call[s].about

HeldInv == \A s \in Slot, x \in Task : Held(s, x) => Fresh(x)

LEMMA HeldRunsLast ==
    ASSUME "quick" \notin Env, NEW s \in Slot, NEW x \in Task, Held(s, x)
    PROVE  ~MayEnd(x)
BY DEF Held, MayEnd

(* No step ends the run of a task that is held.                             *)
LEMMA RowKept ==
    ASSUME IInv, Step, "quick" \notin Env,
           NEW s \in Slot, NEW x \in Task, Held(s, x), task'[x].row = "NONE"
    PROVE  task[x].row = "NONE"
<1>0. TypeOK /\ task \in [Task -> TaskRow] /\ ~MayEnd(x)
  BY HeldRunsLast DEF IInv, TypeOK
<1>1. ASSUME task' = task PROVE task[x].row = "NONE"
  BY <1>1
<1>2. ASSUME NEW r \in Slot, CallStep(r) PROVE task[x].row = "NONE"
  <2>1. CASE \/ Defer(r) \/ CheckCompleted(r) \/ CheckBorn(r) \/ CheckSatisfied(r)
             \/ CheckStatuses(r) \/ CheckSettled(r)
             \/ Scan(r) \/ CheckExisting(r) \/ QueueEnds(r)
    BY <1>1, <2>1 DEF Defer, CheckCompleted, CheckBorn, CheckSatisfied, CheckStatuses,
                      CheckSettled, Guard, Scan, CheckExisting, QueueEnds
  <2>2. ASSUME NEW t \in Task, NEW exec \in {"NULL", "ACTIVE", "SUCCESS", "FAILED"},
               task' = Inserted(t, exec)
        PROVE  task[x].row = "NONE"
    BY <1>0, <2>2, InsertedTyped
  <2>3. ASSUME NEW t \in Task, Queue(r, t) PROVE task[x].row = "NONE"
    <3>1. task[t].exec \in {"NULL", "ACTIVE", "SUCCESS", "FAILED"}
      BY <1>0 DEF TaskRow
    <3> QED BY <1>1, <2>2, <2>3, <3>1 DEF Queue
  <2>4. ASSUME NEW t \in Task, Refuse(r, t) PROVE task[x].row = "NONE"
    BY <1>0, <1>1, <2>4, LegFailedShape DEF Refuse
  <2>5. CASE Execute(r)
    <3>1. call[r].step = "execute" /\ call[r].about # {}
      BY <2>5 DEF Execute, IInv, CallInv, Relies
    <3>2. The(r) \in Task
      BY <1>0, <3>1, TheTyped
    <3> QED BY <1>1, <2>2, <2>5, <3>2 DEF Execute
  <2> QED BY <1>2, <2>1, <2>3, <2>4, <2>5 DEF CallStep
<1>3. ASSUME NEW r \in Slot, NEW t \in Task, QueueThrows(r, t) \/ BeginExecute(t, r)
      PROVE  task[x].row = "NONE"
  BY <1>1, <1>3 DEF QueueThrows, BeginExecute
<1>4. ASSUME NEW r \in Slot, CallDies(r) PROVE task[x].row = "NONE"
  BY <1>1, <1>4 DEF CallDies
<1>5. ASSUME NEW t \in Task, Create(t) \/ Reenter(t) \/ StartRun(t)
      PROVE  task[x].row = "NONE"
  BY <1>0, <1>5 DEF Create, Reenter, StartRun, TaskRow
<1>6. ASSUME NEW r \in Slot, NEW t \in Task,
             Assign(t, r) \/ ReleaseGate(t, r) \/ Complete(t, r)
      PROVE  task[x].row = "NONE"
  BY <1>0, <1>6 DEF Assign, ReleaseGate, Complete, TaskRow
<1>7. ASSUME NEW r \in Slot, NEW t \in Task, NEW awaited \in BOOLEAN,
             \/ RunSucceeds(t, r) \/ RunTerminalized(t, r) \/ RunFails(t, r)
             \/ Reap(t, r, awaited)
      PROVE  task[x].row = "NONE"
  <2>1. MayEnd(t) /\ t # x
    BY <1>0, <1>7 DEF RunSucceeds, RunTerminalized, RunFails, Reap
  <2>2. task'[x].row = task[x].row
    <3>1. LegFailed(t) \in [Task -> TaskRow] /\ LegFailed(t)[x].row = task[x].row
      BY <1>0, LegFailedShape
    <3>2. CASE RunSucceeds(t, r) \/ RunFails(t, r)
      BY <1>0, <2>1, <3>2 DEF RunSucceeds, RunFails
    <3>3. CASE RunTerminalized(t, r)
      BY <2>1, <3>1, <3>3 DEF RunTerminalized
    <3>4. CASE Reap(t, r, awaited)
      BY <1>0, <2>1, <3>1, <3>4 DEF Reap
    <3> QED BY <1>7, <3>2, <3>3, <3>4
  <2> QED BY <2>2
<1>8. ASSUME NEW r \in Slot, NEW t \in Task,
             RunSucceeds(t, r) \/ RunTerminalized(t, r) \/ RunFails(t, r)
      PROVE  task[x].row = "NONE"
  <2>1. TRUE \in BOOLEAN
    OBVIOUS
  <2> QED BY <1>7, <1>8, <2>1
<1> QED BY <1>2, <1>3, <1>4, <1>5, <1>6, <1>7, <1>8 DEF Step, EndRun

(* What is held and fresh stays fresh.                                      *)
LEMMA FreshKept ==
    ASSUME IInv, Step, "quick" \notin Env,
           NEW s \in Slot, NEW x \in Task, Held(s, x), Fresh(x)
    PROVE  Fresh(x)'
<1>1. task'[x].row = "NONE" => task[x].row = "NONE"
  BY RowKept
<1>2. CASE task' = task
  BY <1>2 DEF Fresh
<1>3. ASSUME NEW t \in Task, Moved(t) PROVE Fresh(x)'
  <2>1. CASE t # x
    BY <1>3, <2>1 DEF Moved, OthersKept, Fresh
  <2>2. CASE t = x
    BY <1>1, <1>3, <2>2 DEF Moved, Same, Created, Started, Finished, Released, Fresh
  <2> QED BY <2>1, <2>2
<1> QED BY <1>2, <1>3, StepMoves

(* A call takes hold of nothing but what is OPEN.                           *)
LEMMA HeldAnew ==
    ASSUME IInv, Step, NEW s \in Slot, NEW x \in Task, Held(s, x)', ~Held(s, x)
    PROVE  Fresh(x)'
<1>0. /\ TypeOK /\ call \in [Slot -> Call] /\ task \in [Task -> TaskRow]
      /\ CallInv(s) /\ call[s] \in Call
  BY DEF IInv, TypeOK
<1>1. ASSUME call'[s] = call[s] PROVE FALSE
  BY <1>1 DEF Held
<1>2. ASSUME call'[s] = NoCall PROVE FALSE
  BY <1>2 DEF Held, NoCall
<1>3. ASSUME NEW r \in Slot, Return(r) PROVE FALSE
  BY <1>0, <1>1, <1>2, <1>3 DEF Return
<1>4. ASSUME NEW r \in Slot, NEW t \in Task, call' = [call EXCEPT ![r].found = @ \ {t}]
      PROVE  FALSE
  <2>1. CASE r = s
    <3>1. /\ call'[s].found \subseteq call[s].found /\ call'[s].step = call[s].step
          /\ call'[s].about = call[s].about
      BY <1>0, <1>4, <2>1 DEF Call
    <3> QED BY <3>1 DEF Held
  <2>2. CASE r # s
    BY <1>0, <1>1, <1>4, <2>2
  <2> QED BY <2>1, <2>2
<1>5. ASSUME NEW r \in Slot, NEW t \in Task, NEW step \in CallSteps \ {"born"},
             step \notin {"satisfied", "existing"}, Fire(r, CallOf(step, t))
      PROVE  FALSE
  <2>1. CASE r = s
    <3>1. call'[s] = CallOf(step, t)
      BY <1>0, <1>5, <2>1 DEF Fire
    <3> QED BY <1>5, <3>1 DEF CallOf, Held
  <2>2. CASE r # s
    BY <1>0, <1>1, <1>5, <2>2 DEF Fire
  <2> QED BY <2>1, <2>2
<1>6. ASSUME NEW r \in Slot, NEW here, NEW holds, NEW next,
             Guard(r, here, holds, next),
             next \in {"satisfied", "existing"} => here \in {"born", "satisfied", "existing"},
             next # "born"
      PROVE  FALSE
  <2>1. CASE r = s /\ holds
    <3>1. /\ call'[s].found = call[s].found /\ call'[s].step = next
          /\ call[s].step = here /\ call'[s].about = call[s].about
      BY <1>0, <1>6, <2>1 DEF Guard, Call
    <3> QED BY <1>6, <3>1 DEF Held
  <2>2. CASE r # s /\ holds
    BY <1>0, <1>1, <1>6, <2>2 DEF Guard
  <2>3. CASE ~holds
    BY <1>3, <1>6, <2>3 DEF Guard
  <2> QED BY <2>1, <2>2, <2>3
<1>7. ASSUME NEW r \in Slot, CallStep(r) PROVE Fresh(x)'
  <2>1. CASE Defer(r)
    BY <1>6, <2>1 DEF Defer
  <2>2. CASE CheckCompleted(r)
    BY <1>6, <2>2 DEF CheckCompleted
  <2>3. CASE CheckBorn(r)
    BY <1>6, <2>3 DEF CheckBorn
  <2>4. CASE CheckSatisfied(r)
    BY <1>6, <2>4 DEF CheckSatisfied
  <2>5. CASE CheckStatuses(r) \/ CheckSettled(r)
    BY <1>6, <2>5 DEF CheckStatuses, CheckSettled
  <2>6. CASE Scan(r)
    <3>1. r = s
      BY <1>0, <1>1, <2>6 DEF Scan
    <3>2. call'[s] = [step |-> "queue", about |-> {}, found |-> ReadyDependents(The(s))]
      BY <1>0, <2>6, <3>1 DEF Scan
    <3>3. x \in ReadyDependents(The(s)) /\ task' = task
      BY <2>6, <3>2 DEF Scan, Held
    <3> QED BY <3>3 DEF ReadyDependents, Fresh
  <2>7. CASE CheckExisting(r)
    <3>1. r = s
      BY <1>0, <1>1, <2>7 DEF CheckExisting
    <3>2. call[s].step = "existing" /\ call[s].about # {}
      BY <1>0, <2>7, <3>1 DEF CheckExisting, CallInv, Relies
    <3>3. The(s) \in call[s].about
      BY <1>0, <3>2, TheTyped
    <3>4. call'[s] = NoCall \/ call'[s] = [step |-> "queue", about |-> {}, found |-> {The(s)}]
      BY <1>0, <2>7, <3>1 DEF CheckExisting
    <3>5. x = The(s)
      BY <1>2, <3>4 DEF Held
    <3> QED BY <3>2, <3>3, <3>5 DEF Held
  <2>8. ASSUME NEW t \in Task, Queue(r, t) \/ Refuse(r, t) PROVE FALSE
    BY <1>4, <2>8 DEF Queue, Refuse
  <2>9. CASE QueueEnds(r) \/ Execute(r)
    BY <1>3, <2>9 DEF QueueEnds, Execute
  <2> QED BY <1>7, <2>1, <2>2, <2>3, <2>4, <2>5, <2>6, <2>7, <2>8, <2>9 DEF CallStep
<1>8. ASSUME NEW r \in Slot, CallDies(r) PROVE FALSE
  BY <1>3, <1>8 DEF CallDies
<1>9. ASSUME NEW r \in Slot, NEW t \in Task, QueueThrows(r, t) PROVE FALSE
  BY <1>4, <1>9 DEF QueueThrows
<1>10. ASSUME NEW t \in Task, Create(t) \/ Reenter(t) \/ StartRun(t) PROVE FALSE
  BY <1>1, <1>10 DEF Create, Reenter, StartRun
<1>11. ASSUME NEW r \in Slot, NEW t \in Task, Assign(t, r) PROVE Fresh(x)'
  <2>1. CASE UNCHANGED call
    BY <1>1, <2>1
  <2>2. CASE Fire(r, CallOf("born", t))
    <3>1. r = s /\ call'[s] = CallOf("born", t)
      BY <1>0, <1>1, <2>2 DEF Fire
    <3>2. x = t
      BY <3>1 DEF CallOf, Held
    <3>3. task[t].status = "OPEN"
      BY <1>0, <1>11 DEF Assign, IInv, TaskInv, RowInv, TaskRow
    <3>4. task'[t].status = "OPEN"
      BY <1>0, <1>11, <3>3 DEF Assign, TaskRow
    <3> QED BY <3>2, <3>4 DEF Fresh
  <2> QED BY <1>11, <2>1, <2>2 DEF Assign
<1>12. ASSUME NEW r \in Slot, NEW t \in Task,
              \/ BeginExecute(t, r) \/ ReleaseGate(t, r) \/ Complete(t, r)
              \/ RunSucceeds(t, r) \/ RunTerminalized(t, r) \/ RunFails(t, r)
              \/ \E awaited \in BOOLEAN : Reap(t, r, awaited)
       PROVE  FALSE
  BY <1>5, <1>12 DEF BeginExecute, ReleaseGate, Complete, FireCompletion, RunSucceeds,
                     RunTerminalized, RunFails, Reap, CallSteps
<1> QED BY <1>7, <1>8, <1>9, <1>10, <1>11, <1>12 DEF Step, EndRun

LEMMA HeldInvariance ==
    ASSUME "quick" \notin Env
    PROVE  Spec => []HeldInv
<1>1. Init => HeldInv
  BY DEF Init, NoCall, HeldInv, Held
<1>2. IInv /\ HeldInv /\ [Next]_vars => HeldInv'
  <2> SUFFICES ASSUME IInv, HeldInv, [Next]_vars, NEW s \in Slot, NEW x \in Task, Held(s, x)'
               PROVE  Fresh(x)'
    BY DEF HeldInv
  <2>1. CASE UNCHANGED vars
    BY <2>1 DEF vars, HeldInv, Held, Fresh
  <2>2. CASE Step
    BY <2>2, FreshKept, HeldAnew DEF HeldInv
  <2> QED BY <2>1, <2>2 DEF Next
<1> QED BY <1>1, <1>2, Invariance, PTL DEF Spec

(* With runs that outlast the calls that were about to queue their task, no  *)
(* reactor starts a task that was started before.                           *)
THEOREM NothingRequeued ==
    ASSUME "quick" \notin Env
    PROVE  Spec => NeverRequeued
<1>1. HeldInv /\ TypeOK =>
        [\A s \in Slot, t \in Task :
            Queue(s, t) /\ task[t].row = "NONE" => task[t].status = "OPEN"]_vars
  BY DEF HeldInv, Held, Fresh, Queue
<1> QED BY <1>1, HeldInvariance, TypeCorrect, PTL DEF NeverRequeued
-----------------------------------------------------------------------------
(* Nobody forgets a ready leaf: some call in flight is going to find it.    *)

(* What was never started has no run behind it.                             *)
UnstartedInv ==
    \A t \in Task : task[t].status \in {"ABSENT", "OPEN"} =>
        ~task[t].success /\ task[t].exec \in {"NULL", "FAILED"}

(* Until it queues, a call is about one task.                               *)
AboutInv ==
    \A s \in Slot : call[s].step \notin {"idle", "queue"} =>
        \E t \in Task : call[s].about = {t}

(* The call will find the task, if it is still waiting by then.             *)
Covers(s, t) ==
    \/ call[s].step \in {"born", "satisfied", "existing"} /\ t \in call[s].about
    \/ /\ call[s].step \in {"defer", "completed", "scan"}
       /\ \E u \in Dep[t] : u \in call[s].about
    \/ call[s].step = "queue" /\ t \in call[s].found

CoverInv == ~lost => \A t \in Task : Waiting(t) => \E s \in Slot : Covers(s, t)

LEMMA LegFailedRecord ==
    ASSUME NEW t \in Task, NEW x \in Task
    PROVE  LegFailed(t)[x] \in {task[x], [task[x] EXCEPT !.exec = "FAILED"]}
BY DEF LegFailed

(* What a step does to a task that it does not leave in motion              *)
LEMMA RecordMoves ==
    ASSUME IInv, Step, NEW x \in Task
    PROVE  \/ task'[x] \in {task[x], [task[x] EXCEPT !.exec = "FAILED"]}
           \/ task'[x].status \in {"IN_PROGRESS", "COMPLETED"}
           \/ /\ task[x].status = "ABSENT"
              /\ task'[x] = [task[x] EXCEPT !.status = "OPEN"]
           \/ \E s \in Slot : Assign(x, s)
<1> DEFINE Goal == \/ task'[x] \in {task[x], [task[x] EXCEPT !.exec = "FAILED"]}
                   \/ task'[x].status \in {"IN_PROGRESS", "COMPLETED"}
                   \/ /\ task[x].status = "ABSENT"
                      /\ task'[x] = [task[x] EXCEPT !.status = "OPEN"]
                   \/ \E s \in Slot : Assign(x, s)
<1>0. /\ TypeOK /\ task \in [Task -> TaskRow] /\ task[x] \in TaskRow
      /\ RowInv(x) /\ TaskInv
  BY DEF IInv, TypeOK, TaskInv
<1>1. ASSUME task' = task PROVE Goal
  BY <1>1
<1>2. ASSUME NEW t \in Task, task' = LegFailed(t) PROVE Goal
  BY <1>2, LegFailedRecord
<1>3. ASSUME NEW t \in Task, NEW exec \in {"NULL", "ACTIVE", "SUCCESS", "FAILED"},
             task[t].agent, task' = Inserted(t, exec)
      PROVE  Goal
  <2>1. CASE x = t
    <3>1. task'[x].status = IF task[x].status = "OPEN" THEN "IN_PROGRESS" ELSE task[x].status
      BY <1>0, <1>3, <2>1, InsertedTyped
    <3>2. task[x].status # "ABSENT"
      BY <1>0, <1>3, <2>1 DEF RowInv
    <3> QED BY <1>0, <3>1, <3>2 DEF TaskRow
  <2>2. CASE x # t
    BY <1>0, <1>3, <2>2, InsertedTyped
  <2> QED BY <2>1, <2>2
<1>4. ASSUME NEW r \in Slot, CallStep(r) PROVE Goal
  <2>1. CASE \/ Defer(r) \/ CheckCompleted(r) \/ CheckBorn(r) \/ CheckSatisfied(r)
             \/ CheckStatuses(r) \/ CheckSettled(r)
             \/ Scan(r) \/ CheckExisting(r) \/ QueueEnds(r)
    BY <1>1, <2>1 DEF Defer, CheckCompleted, CheckBorn, CheckSatisfied, CheckStatuses,
                      CheckSettled, Guard, Scan, CheckExisting, QueueEnds
  <2>2. ASSUME NEW t \in Task, Queue(r, t) PROVE Goal
    <3>1. task[t].exec \in {"NULL", "ACTIVE", "SUCCESS", "FAILED"} /\ task[t].agent
      BY <1>0, <2>2 DEF TaskRow, Queue, IInv, CallInv, Relies
    <3> QED BY <1>1, <1>3, <2>2, <3>1 DEF Queue
  <2>3. ASSUME NEW t \in Task, Refuse(r, t) PROVE Goal
    BY <1>1, <1>2, <2>3 DEF Refuse
  <2>4. CASE Execute(r)
    <3>1. call[r].step = "execute" /\ call[r].about # {}
      BY <2>4 DEF Execute, IInv, CallInv, Relies
    <3>2. The(r) \in Task
      BY <1>0, <3>1, TheTyped
    <3> QED BY <1>1, <1>3, <2>4, <3>2 DEF Execute
  <2> QED BY <1>4, <2>1, <2>2, <2>3, <2>4 DEF CallStep
<1>5. ASSUME NEW r \in Slot, NEW t \in Task, QueueThrows(r, t) \/ BeginExecute(t, r)
      PROVE  Goal
  BY <1>1, <1>5 DEF QueueThrows, BeginExecute
<1>6. ASSUME NEW r \in Slot, CallDies(r) PROVE Goal
  BY <1>1, <1>6 DEF CallDies
<1>7. ASSUME NEW t \in Task, Create(t) PROVE Goal
  <2>1. CASE x = t
    BY <1>0, <1>7, <2>1 DEF Create, TaskRow
  <2>2. CASE x # t
    BY <1>0, <1>7, <2>2 DEF Create
  <2> QED BY <2>1, <2>2
<1>8. ASSUME NEW t \in Task, NEW r \in Slot, Assign(t, r) PROVE Goal
  BY <1>0, <1>8 DEF Assign
<1>9. ASSUME NEW t \in Task, StartRun(t) \/ Reenter(t) PROVE Goal
  <2>1. CASE x = t
    BY <1>0, <1>9, <2>1 DEF StartRun, Reenter, TaskRow, RowInv
  <2>2. CASE x # t
    BY <1>0, <1>9, <2>2 DEF StartRun, Reenter
  <2> QED BY <2>1, <2>2
<1>10. ASSUME NEW t \in Task, NEW r \in Slot, ReleaseGate(t, r) \/ Complete(t, r) PROVE Goal
  <2>1. CASE x = t
    BY <1>0, <1>10, <2>1 DEF ReleaseGate, Complete, TaskRow
  <2>2. CASE x # t
    BY <1>0, <1>10, <2>2 DEF ReleaseGate, Complete
  <2> QED BY <2>1, <2>2
<1>11. ASSUME NEW t \in Task, NEW r \in Slot,
              \/ RunSucceeds(t, r) \/ RunTerminalized(t, r) \/ RunFails(t, r)
              \/ \E awaited \in BOOLEAN : Reap(t, r, awaited)
       PROVE  Goal
  <2> DEFINE lf == LegFailed(t)
  <2>1. task[t].row # "NONE" /\ task[t].status \in {"IN_PROGRESS", "COMPLETED"}
    BY <1>0, <1>11 DEF RunSucceeds, RunTerminalized, RunFails, Reap, TaskInv, RowInv
  <2>2. /\ lf \in [Task -> TaskRow] /\ lf[t].status = task[t].status
        /\ lf[x] \in {task[x], [task[x] EXCEPT !.exec = "FAILED"]}
    BY <1>0, LegFailedShape, LegFailedRecord
  <2> HIDE DEF lf
  <2>3. CASE RunSucceeds(t, r)
    BY <1>0, <2>1, <2>3 DEF RunSucceeds, TaskRow
  <2>4. CASE RunFails(t, r)
    BY <1>0, <2>1, <2>4 DEF RunFails, TaskRow
  <2>5. CASE RunTerminalized(t, r)
    <3>1. task' = [lf EXCEPT ![t].row = "NONE", ![t].success = TRUE]
      BY <2>5 DEF RunTerminalized, lf
    <3> QED BY <2>1, <2>2, <3>1 DEF TaskRow
  <2>6. ASSUME NEW awaited \in BOOLEAN, Reap(t, r, awaited) PROVE Goal
    <3>1. \/ task' = [task EXCEPT ![t].row = "NONE", ![t].exec = "NULL"]
          \/ task' = [lf EXCEPT ![t].row = "NONE"]
          \/ task' = [task EXCEPT ![t].row = "NONE", ![t].exec = "FAILED"]
      BY <2>6 DEF Reap, lf
    <3> QED BY <1>0, <2>1, <2>2, <3>1 DEF TaskRow
  <2> QED BY <1>11, <2>3, <2>4, <2>5, <2>6
<1> QED BY <1>4, <1>5, <1>6, <1>7, <1>8, <1>9, <1>10, <1>11 DEF Step, EndRun

LEMMA UnstartedKept ==
    ASSUME IInv, UnstartedInv, Step
    PROVE  UnstartedInv'
<1> SUFFICES ASSUME NEW x \in Task, task'[x].status \in {"ABSENT", "OPEN"}
             PROVE  ~task'[x].success /\ task'[x].exec \in {"NULL", "FAILED"}
  BY DEF UnstartedInv
<1>0. task[x] \in TaskRow /\ task \in [Task -> TaskRow] /\ RowInv(x)
  BY DEF IInv, TypeOK, TaskInv
<1>1. CASE task'[x] \in {task[x], [task[x] EXCEPT !.exec = "FAILED"]}
  BY <1>0, <1>1 DEF TaskRow, UnstartedInv
<1>2. CASE task[x].status = "ABSENT" /\ task'[x] = [task[x] EXCEPT !.status = "OPEN"]
  BY <1>0, <1>2 DEF TaskRow, UnstartedInv
<1>3. ASSUME NEW s \in Slot, Assign(x, s)
      PROVE  ~task'[x].success /\ task'[x].exec \in {"NULL", "FAILED"}
  <2>1. /\ task'[x].success = task[x].success /\ task'[x].exec = task[x].exec
        /\ task'[x].status = task[x].status
    BY <1>0, <1>3 DEF Assign, TaskRow
  <2> QED BY <2>1 DEF UnstartedInv
<1> QED BY <1>1, <1>2, <1>3, RecordMoves

(* What becomes settled fires a call about it.                              *)
LEMMA SettledAnew ==
    ASSUME IInv, Step, NEW u \in Task, UnsatisfiedUpstream(u), ~UnsatisfiedUpstream(u)'
    PROVE  \E s \in Slot : Fire(s, CallOf("defer", u)) \/ Fire(s, CallOf("completed", u))
<1> DEFINE Goal == \E s \in Slot :
                      Fire(s, CallOf("defer", u)) \/ Fire(s, CallOf("completed", u))
<1>0. /\ TypeOK /\ task \in [Task -> TaskRow] /\ task[u] \in TaskRow
      /\ RowInv(u) /\ TaskInv
  BY DEF IInv, TypeOK, TaskInv
<1>1. ASSUME task'[u].status = task[u].status, task'[u].row = task[u].row PROVE FALSE
  BY <1>1 DEF UnsatisfiedUpstream
<1>2. task'[u].status = "COMPLETED" /\ task'[u].row = "NONE"
  BY DEF UnsatisfiedUpstream
<1>3. ASSUME NEW t \in Task, NEW exec \in {"NULL", "ACTIVE", "SUCCESS", "FAILED"},
             task' = Inserted(t, exec)
      PROVE  FALSE
  BY <1>0, <1>1, <1>2, <1>3, InsertedTyped
<1>4. ASSUME NEW r \in Slot, CallStep(r) PROVE FALSE
  <2>1. CASE \/ Defer(r) \/ CheckCompleted(r) \/ CheckBorn(r) \/ CheckSatisfied(r)
             \/ CheckStatuses(r) \/ CheckSettled(r)
             \/ Scan(r) \/ CheckExisting(r) \/ QueueEnds(r)
    BY <1>1, <2>1 DEF Defer, CheckCompleted, CheckBorn, CheckSatisfied, CheckStatuses,
                      CheckSettled, Guard, Scan, CheckExisting, QueueEnds
  <2>2. ASSUME NEW t \in Task, Queue(r, t) PROVE FALSE
    <3>1. task[t].exec \in {"NULL", "ACTIVE", "SUCCESS", "FAILED"}
      BY <1>0 DEF TaskRow
    <3> QED BY <1>1, <1>3, <2>2, <3>1 DEF Queue
  <2>3. ASSUME NEW t \in Task, Refuse(r, t) PROVE FALSE
    BY <1>0, <1>1, <2>3, LegFailedShape DEF Refuse
  <2>4. CASE Execute(r)
    <3>1. call[r].step = "execute" /\ call[r].about # {}
      BY <2>4 DEF Execute, IInv, CallInv, Relies
    <3>2. The(r) \in Task
      BY <1>0, <3>1, TheTyped
    <3> QED BY <1>1, <1>3, <2>4, <3>2 DEF Execute
  <2> QED BY <1>4, <2>1, <2>2, <2>3, <2>4 DEF CallStep
<1>5. ASSUME NEW r \in Slot, NEW t \in Task, QueueThrows(r, t) \/ BeginExecute(t, r)
      PROVE  FALSE
  BY <1>1, <1>5 DEF QueueThrows, BeginExecute
<1>6. ASSUME NEW r \in Slot, CallDies(r) PROVE FALSE
  BY <1>1, <1>6 DEF CallDies
<1>7. ASSUME NEW t \in Task, Create(t) \/ Reenter(t) \/ StartRun(t) PROVE FALSE
  BY <1>0, <1>1, <1>2, <1>7 DEF Create, Reenter, StartRun, TaskRow
<1>8. ASSUME NEW t \in Task, NEW r \in Slot, Assign(t, r) PROVE FALSE
  BY <1>0, <1>1, <1>8 DEF Assign, TaskRow
<1>9. ASSUME NEW t \in Task, NEW r \in Slot, ReleaseGate(t, r) \/ Complete(t, r) PROVE Goal
  <2>1. u = t
    BY <1>0, <1>1, <1>9 DEF ReleaseGate, Complete
  <2> QED BY <1>9, <2>1 DEF ReleaseGate, Complete, FireCompletion
<1>10. ASSUME NEW t \in Task, NEW r \in Slot,
              \/ RunSucceeds(t, r) \/ RunTerminalized(t, r) \/ RunFails(t, r)
              \/ \E awaited \in BOOLEAN : Reap(t, r, awaited)
       PROVE  Goal
  <2>1. ASSUME u # t PROVE task'[u].status = task[u].status /\ task'[u].row = task[u].row
    <3>1. /\ LegFailed(t) \in [Task -> TaskRow] /\ LegFailed(t)[u].row = task[u].row
          /\ LegFailed(t)[u].status = task[u].status
      BY <1>0, LegFailedShape
    <3>2. CASE RunSucceeds(t, r) \/ RunFails(t, r)
      BY <1>0, <2>1, <3>2 DEF RunSucceeds, RunFails
    <3>3. CASE RunTerminalized(t, r)
      BY <2>1, <3>1, <3>3 DEF RunTerminalized
    <3>4. ASSUME NEW awaited \in BOOLEAN, Reap(t, r, awaited)
          PROVE  task'[u].status = task[u].status /\ task'[u].row = task[u].row
      BY <1>0, <2>1, <3>1, <3>4 DEF Reap
    <3> QED BY <1>10, <3>2, <3>3, <3>4
  <2>2. u = t
    BY <1>1, <2>1
  <2> QED BY <1>10, <2>2 DEF RunSucceeds, RunTerminalized, RunFails, Reap
<1> QED BY <1>4, <1>5, <1>6, <1>7, <1>8, <1>9, <1>10 DEF Step, EndRun

(* What a step does to a call that does not take the step itself            *)
LEMMA CallMoves ==
    ASSUME IInv, Step, NEW q \in Slot, ~CallStep(q)
    PROVE  \/ call'[q] = call[q]
           \/ /\ IdleCall(q)
              /\ \E t \in Task, step \in {"defer", "completed", "born", "statuses"} :
                    call'[q] = CallOf(step, t)
           \/ lost' = TRUE /\ call'[q].step \in {"idle", "queue"}
<1> DEFINE Goal == \/ call'[q] = call[q]
                   \/ /\ IdleCall(q)
                      /\ \E t \in Task, step \in {"defer", "completed", "born", "statuses"} :
                            call'[q] = CallOf(step, t)
                   \/ lost' = TRUE /\ call'[q].step \in {"idle", "queue"}
<1>0. TypeOK /\ call \in [Slot -> Call] /\ call[q] \in Call
  BY DEF IInv, TypeOK
<1>1. ASSUME UNCHANGED call PROVE Goal
  BY <1>1
<1>2. ASSUME NEW r \in Slot, NEW t \in Task,
             NEW step \in {"defer", "completed", "born", "statuses"}, Fire(r, CallOf(step, t))
      PROVE  Goal
  BY <1>0, <1>2 DEF Fire
<1>3. ASSUME NEW r \in Slot, CallStep(r) PROVE Goal
  <2>1. r # q
    BY <1>3
  <2>2. call'[q] = call[q]
    BY <1>0, <1>3, <2>1 DEF CallStep, Defer, CheckCompleted, CheckBorn, CheckSatisfied,
       CheckStatuses, CheckSettled, Guard, Return, Scan, CheckExisting, Queue, Refuse,
       QueueEnds, Execute
  <2> QED BY <2>2
<1>4. ASSUME NEW r \in Slot, CallDies(r) PROVE Goal
  BY <1>0, <1>4 DEF CallDies, Return, NoCall
<1>5. ASSUME NEW r \in Slot, NEW t \in Task, QueueThrows(r, t) PROVE Goal
  BY <1>0, <1>5 DEF QueueThrows, Call
<1>6. ASSUME NEW t \in Task, Create(t) \/ Reenter(t) \/ StartRun(t) PROVE Goal
  BY <1>1, <1>6 DEF Create, Reenter, StartRun
<1>7. ASSUME NEW t \in Task, NEW r \in Slot,
             \/ Assign(t, r) \/ BeginExecute(t, r) \/ ReleaseGate(t, r) \/ Complete(t, r)
             \/ RunSucceeds(t, r) \/ RunTerminalized(t, r) \/ RunFails(t, r)
             \/ \E awaited \in BOOLEAN : Reap(t, r, awaited)
      PROVE  Goal
  BY <1>1, <1>2, <1>7 DEF Assign, BeginExecute, ReleaseGate, Complete, FireCompletion,
     RunSucceeds, RunTerminalized, RunFails, Reap
<1> QED BY <1>3, <1>4, <1>5, <1>6, <1>7 DEF Step, EndRun

(* A guard that holds lets its call go on about the same task.              *)
LEMMA GuardPasses ==
    ASSUME TypeOK, NEW s \in Slot, NEW here, NEW holds, NEW next, holds,
           Guard(s, here, holds, next)
    PROVE  /\ call[s].step = here /\ call'[s].step = next
           /\ call'[s].about = call[s].about
BY DEF TypeOK, Call, Guard

LEMMA AboutKept ==
    ASSUME IInv, AboutInv, Step
    PROVE  AboutInv'
<1> SUFFICES ASSUME NEW q \in Slot, call'[q].step \notin {"idle", "queue"}
             PROVE  \E t \in Task : call'[q].about = {t}
  BY DEF AboutInv
<1>0. TypeOK /\ call \in [Slot -> Call] /\ call[q] \in Call
  BY DEF IInv, TypeOK
<1>1. CASE ~CallStep(q)
  <2>1. CASE call'[q] = call[q]
    BY <2>1 DEF AboutInv
  <2>2. ASSUME NEW t \in Task, NEW step, call'[q] = CallOf(step, t)
        PROVE  \E x \in Task : call'[q].about = {x}
    BY <2>2 DEF CallOf
  <2> QED BY <1>1, <2>1, <2>2, CallMoves
<1>2. ASSUME NEW here \in CallSteps \ {"idle", "queue"}, NEW holds, NEW next,
             Guard(q, here, holds, next)
      PROVE  \E t \in Task : call'[q].about = {t}
  <2>1. CASE holds
    <3>1. call[q].step = here /\ call'[q].about = call[q].about
      BY <1>0, <1>2, <2>1, GuardPasses
    <3> QED BY <3>1 DEF AboutInv
  <2>2. CASE ~holds
    <3>1. call'[q] = NoCall
      BY <1>0, <1>2, <2>2 DEF Guard, Return
    <3> QED BY <3>1 DEF NoCall
  <2> QED BY <2>1, <2>2
<1>3. CASE \/ Defer(q) \/ CheckCompleted(q) \/ CheckBorn(q) \/ CheckSatisfied(q)
           \/ CheckStatuses(q) \/ CheckSettled(q)
  BY <1>2, <1>3 DEF Defer, CheckCompleted, CheckBorn, CheckSatisfied, CheckStatuses,
                    CheckSettled, CallSteps
<1>4. CASE Scan(q) \/ CheckExisting(q) \/ QueueEnds(q) \/ Execute(q)
  BY <1>0, <1>4 DEF Scan, CheckExisting, QueueEnds, Execute, Return, NoCall
<1>5. ASSUME NEW t \in Task, Queue(q, t) \/ Refuse(q, t)
      PROVE  FALSE
  BY <1>0, <1>5 DEF Queue, Refuse, Call
<1> QED BY <1>1, <1>3, <1>4, <1>5 DEF CallStep

(* Whoever covers a task that waits goes on covering it.                    *)
LEMMA CoverKept ==
    ASSUME IInv, UnstartedInv, AboutInv, Step, ~lost',
           NEW t \in Task, Waiting(t), Waiting(t)', NEW s \in Slot, Covers(s, t)
    PROVE  Covers(s, t)'
<1>0. TypeOK /\ call \in [Slot -> Call] /\ call[s] \in Call /\ task[t] \in TaskRow
  BY DEF IInv, TypeOK
<1>1. CASE call'[s] = call[s]
  BY <1>1 DEF Covers
<1>2. CASE ~CallStep(s)
  BY <1>1, <1>2, CallMoves DEF IdleCall, Covers
<1>3. call[s].step \notin {"idle", "queue"} => call[s].about = {The(s)} /\ The(s) \in Task
  <2> SUFFICES ASSUME NEW x \in Task, call[s].about = {x}
               PROVE  The(s) = x
    BY DEF AboutInv
  <2> QED BY DEF The
<1>4. /\ Kind[t] = "LEAF" /\ task[t].status = "OPEN" /\ task[t].agent
      /\ task[t].exec # "FAILED" /\ task[t].row = "NONE"
      /\ \A u \in Dep[t] : task[u].status = "COMPLETED" /\ task[u].row = "NONE"
      /\ ~Unsatisfied(t) /\ task[t].exec = "NULL" /\ ~task[t].success
  BY DEF Waiting, Unsatisfied, UnsatisfiedUpstream, UnstartedInv
<1>5. CASE Defer(s)
  <2> DEFINE holds == task[The(s)].row = "NONE"
  <2>1. Guard(s, "defer", holds, "completed")
    BY <1>5 DEF Defer
  <2>2. call[s].step = "defer"
    BY <2>1 DEF Guard
  <2>3. The(s) \in Dep[t]
    BY <1>3, <2>2 DEF Covers
  <2>4. holds
    BY <1>4, <2>3
  <2> HIDE DEF holds
  <2>5. call'[s].step = "completed" /\ call'[s].about = call[s].about
    BY <1>0, <2>1, <2>4, GuardPasses
  <2> QED BY <1>3, <2>2, <2>3, <2>5 DEF Covers
<1>6. CASE CheckCompleted(s)
  <2> DEFINE holds == task[The(s)].status = "COMPLETED"
  <2>1. Guard(s, "completed", holds, "scan")
    BY <1>6 DEF CheckCompleted
  <2>2. call[s].step = "completed"
    BY <2>1 DEF Guard
  <2>3. The(s) \in Dep[t]
    BY <1>3, <2>2 DEF Covers
  <2>4. holds
    BY <1>4, <2>3
  <2> HIDE DEF holds
  <2>5. call'[s].step = "scan" /\ call'[s].about = call[s].about
    BY <1>0, <2>1, <2>4, GuardPasses
  <2> QED BY <1>3, <2>2, <2>3, <2>5 DEF Covers
<1>7. CASE Scan(s)
  <2>1. call[s].step = "scan" /\ call'[s].step = "queue"
        /\ call'[s].found = ReadyDependents(The(s))
    BY <1>0, <1>7 DEF Scan
  <2>2. The(s) \in Dep[t]
    BY <1>3, <2>1 DEF Covers
  <2>3. t \in ReadyDependents(The(s))
    BY <1>4, <2>2 DEF ReadyDependents
  <2> QED BY <2>1, <2>3 DEF Covers
<1>8. CASE CheckBorn(s) \/ CheckSatisfied(s) \/ CheckExisting(s)
  <2>1. call[s].step \in {"born", "satisfied", "existing"}
    BY <1>8 DEF CheckBorn, CheckSatisfied, CheckExisting, Guard
  <2>2. The(s) = t
    BY <1>3, <2>1 DEF Covers
  <2>3. CASE CheckBorn(s)
    <3> DEFINE holds == /\ task[t].status = "OPEN" /\ task[t].agent /\ task[t].exec # "ACTIVE"
                        /\ Dep[t] # {} => Kind[t] # "PIPELINE"
    <3>1. Guard(s, "born", holds, "satisfied")
      BY <2>2, <2>3 DEF CheckBorn
    <3>2. holds
      BY <1>4
    <3> HIDE DEF holds
    <3>3. call'[s].step = "satisfied" /\ call'[s].about = call[s].about
      BY <1>0, <3>1, <3>2, GuardPasses
    <3> QED BY <1>3, <2>1, <2>2, <3>3 DEF Covers
  <2>4. CASE CheckSatisfied(s)
    <3> DEFINE holds == ~Unsatisfied(t)
    <3>1. Guard(s, "satisfied", holds, "existing")
      BY <2>2, <2>4 DEF CheckSatisfied
    <3>2. holds
      BY <1>4
    <3> HIDE DEF holds
    <3>3. call'[s].step = "existing" /\ call'[s].about = call[s].about
      BY <1>0, <3>1, <3>2, GuardPasses
    <3> QED BY <1>3, <2>1, <2>2, <3>3 DEF Covers
  <2>5. CASE CheckExisting(s)
    <3>1. call'[s] = [step |-> "queue", about |-> {}, found |-> {t}]
      BY <1>0, <1>4, <2>2, <2>5 DEF CheckExisting
    <3> QED BY <3>1 DEF Covers
  <2> QED BY <1>8, <2>3, <2>4, <2>5
<1>9. ASSUME NEW x \in Task, Queue(s, x) \/ Refuse(s, x)
      PROVE  Covers(s, t)'
  <2>1. call[s].step = "queue" /\ call'[s].step = "queue"
        /\ call'[s].found = call[s].found \ {x}
    BY <1>0, <1>9 DEF Queue, Refuse, Call
  <2>2. t # x
    <3>1. SUFFICES ASSUME t = x PROVE FALSE
      OBVIOUS
    <3>2. task' = Inserted(t, task[t].exec)
      BY <1>4, <1>9, <3>1 DEF Queue, Refuse
    <3>3. task'[t].row = "PENDING"
      BY <1>0, <3>2, InsertedTyped DEF TaskRow
    <3> QED BY <3>3 DEF Waiting
  <2> QED BY <2>1, <2>2 DEF Covers
<1>10. CASE QueueEnds(s) \/ CheckStatuses(s) \/ CheckSettled(s) \/ Execute(s)
  BY <1>10 DEF QueueEnds, CheckStatuses, CheckSettled, Execute, Guard, Covers
<1> QED BY <1>2, <1>5, <1>6, <1>7, <1>8, <1>9, <1>10 DEF CallStep

(* Whatever makes a task wait has fired a call that covers it.              *)
LEMMA CoverAnew ==
    ASSUME IInv, Step, NEW t \in Task, ~Waiting(t), Waiting(t)'
    PROVE  \E s \in Slot : Covers(s, t)'
<1>0. /\ TypeOK /\ call \in [Slot -> Call] /\ task \in [Task -> TaskRow]
      /\ task[t] \in TaskRow /\ RowInv(t)
  BY DEF IInv, TypeOK, TaskInv
<1>1. /\ Kind[t] = "LEAF" /\ task'[t].status = "OPEN" /\ task'[t].agent
      /\ task'[t].exec # "FAILED" /\ task'[t].row = "NONE"
      /\ \A u \in Dep[t] : ~UnsatisfiedUpstream(u)'
  BY DEF Waiting, Unsatisfied
<1>2. CASE task'[t] = task[t]
  <2>1. Unsatisfied(t)
    BY <1>1, <1>2 DEF Waiting
  <2>2. PICK u \in Dep[t] : UnsatisfiedUpstream(u)
    BY <2>1 DEF Unsatisfied
  <2>3. u \in Task /\ ~UnsatisfiedUpstream(u)'
    BY <1>1, StageAssumption
  <2>4. PICK s \in Slot : Fire(s, CallOf("defer", u)) \/ Fire(s, CallOf("completed", u))
    BY <2>2, <2>3, SettledAnew
  <2>5. call'[s] = CallOf("defer", u) \/ call'[s] = CallOf("completed", u)
    BY <1>0, <2>4 DEF Fire
  <2>6. Covers(s, t)'
    BY <2>5 DEF CallOf, Covers
  <2> QED BY <2>6
<1>3. ASSUME NEW s \in Slot, Assign(t, s)
      PROVE  \E r \in Slot : Covers(r, t)'
  <2>1. call'[s] = CallOf("born", t)
    BY <1>0, <1>1, <1>3 DEF Assign, Fire
  <2> QED BY <2>1 DEF CallOf, Covers
<1>4. ~(task[t].status = "ABSENT" /\ task'[t] = [task[t] EXCEPT !.status = "OPEN"])
  BY <1>0, <1>1 DEF RowInv, TaskRow
<1>5. task'[t] # [task[t] EXCEPT !.exec = "FAILED"]
  BY <1>0, <1>1 DEF TaskRow
<1> QED BY <1>1, <1>2, <1>3, <1>4, <1>5, RecordMoves

LEMMA LossKept ==
    ASSUME Step
    PROVE  lost' \in {lost, TRUE}
<1>1. ASSUME NEW s \in Slot, CallStep(s) \/ CallDies(s) PROVE lost' \in {lost, TRUE}
  BY <1>1 DEF CallStep, CallDies, Defer, CheckCompleted, Scan, CheckBorn, CheckSatisfied,
              CheckExisting, Queue, Refuse, QueueEnds, CheckStatuses, CheckSettled,
              Execute, Guard
<1>2. ASSUME NEW t \in Task, Create(t) \/ Reenter(t) \/ StartRun(t) \/ EndRun(t)
      PROVE  lost' \in {lost, TRUE}
  BY <1>2 DEF Create, Reenter, StartRun, EndRun, RunSucceeds, RunTerminalized, RunFails
<1>3. ASSUME NEW s \in Slot, NEW t \in Task,
             \/ QueueThrows(s, t) \/ Assign(t, s) \/ BeginExecute(t, s)
             \/ ReleaseGate(t, s) \/ Complete(t, s)
             \/ \E awaited \in BOOLEAN : Reap(t, s, awaited)
      PROVE  lost' \in {lost, TRUE}
  BY <1>3 DEF QueueThrows, Assign, BeginExecute, ReleaseGate, Complete, Reap
<1> QED BY <1>1, <1>2, <1>3 DEF Step

LEMMA CoverInvariance == Spec => [](UnstartedInv /\ AboutInv /\ CoverInv)
<1> DEFINE CInv == UnstartedInv /\ AboutInv /\ CoverInv
<1>1. Init => CInv
  BY DEF Init, NoCall, UnstartedInv, AboutInv, CoverInv, Waiting
<1>2. IInv /\ CInv /\ [Next]_vars => CInv'
  <2> SUFFICES ASSUME IInv, CInv, [Next]_vars PROVE CInv'
    OBVIOUS
  <2>1. CASE UNCHANGED vars
    BY <2>1 DEF vars, UnstartedInv, AboutInv, CoverInv, Covers, Waiting, Unsatisfied,
                UnsatisfiedUpstream
  <2>2. CASE Step
    <3>1. UnstartedInv' /\ AboutInv'
      BY <2>2, UnstartedKept, AboutKept
    <3>2. ASSUME ~lost', NEW t \in Task, Waiting(t)'
          PROVE  \E s \in Slot : Covers(s, t)'
      <4>1. ~lost
        BY <2>2, <3>2, LossKept
      <4>2. CASE Waiting(t)
        <5>1. PICK s \in Slot : Covers(s, t)
          BY <4>1, <4>2 DEF CoverInv
        <5> QED BY <2>2, <3>2, <4>2, <5>1, CoverKept
      <4>3. CASE ~Waiting(t)
        BY <2>2, <3>2, <4>3, CoverAnew
      <4> QED BY <4>2, <4>3
    <3> QED BY <3>1, <3>2 DEF CoverInv
  <2> QED BY <2>1, <2>2 DEF Next
<1> QED BY <1>1, <1>2, Invariance, PTL DEF Spec

(* Unless a call died or failed to queue what it had found, no ready leaf   *)
(* is left OPEN once all calls have returned: whatever the order in which   *)
(* tasks are created, assigned, completed, released and reaped.             *)
THEOREM NobodyForgets == Spec => []NothingForgotten
<1>1. CoverInv => NothingForgotten
  BY DEF CoverInv, NothingForgotten, Covers, IdleCall
<1> QED BY <1>1, CoverInvariance, PTL
-----------------------------------------------------------------------------
(* No call holds a task of the cone of what is not COMPLETED.               *)

LEMMA LeastNatural ==
    ASSUME NEW S \in SUBSET Nat, S # {}
    PROVE  \E n \in S : \A m \in S : n <= m
<1> DEFINE R == {ss \in Nat \X Nat : ss[1] < ss[2]}
<1>1. IsWellFoundedOn(R, Nat)
  BY NatLessThanWellFounded DEF OpToRel
<1> HIDE DEF R
<1>2. PICK n \in S : \A m \in S : <<m, n>> \notin R
  BY <1>1, WFMin
<1>3. ASSUME NEW m \in S, m < n PROVE FALSE
  <2> DEFINE ss == <<m, n>>
  <2>1. ss \in Nat \X Nat /\ ss[1] = m /\ ss[2] = n
    OBVIOUS
  <2>2. ss \notin R
    BY <1>2
  <2> HIDE DEF ss
  <2> QED BY <1>3, <2>1, <2>2 DEF R
<1>4. \A m \in S : n <= m
  BY <1>3
<1> QED BY <1>4

(* Reach, the recursive function of Cone, exists: it is put together from   *)
(* the functions that obey its equation up to a depth.                      *)
Widened(S) == UNION {{t} \cup Dependents(t) : t \in S}

ReachedUpTo(u, g, n) ==
    \A i \in 0..n : g[i] = IF i = 0 THEN Dependents(u) ELSE Widened(g[i - 1])

LEMMA WidenedTyped ==
    ASSUME NEW S \in SUBSET Task
    PROVE  Widened(S) \in SUBSET Task
BY DEF Widened, Dependents

LEMMA ReachUpToExists ==
    ASSUME NEW u \in Task, NEW n \in Nat
    PROVE  \E g \in [Nat -> SUBSET Task] : ReachedUpTo(u, g, n)
<1> DEFINE Bad == {k \in Nat : ~ \E g \in [Nat -> SUBSET Task] : ReachedUpTo(u, g, k)}
<1> SUFFICES ASSUME Bad # {} PROVE FALSE
  OBVIOUS
<1>1. PICK k \in Bad : \A m \in Bad : k <= m
  <2>1. Bad \in SUBSET Nat
    OBVIOUS
  <2> HIDE DEF Bad
  <2> QED BY <2>1, LeastNatural
<1>2. CASE k = 0
  <2> DEFINE g == [i \in Nat |-> Dependents(u)]
  <2>1. g \in [Nat -> SUBSET Task]
    BY DEF Dependents
  <2>2. ReachedUpTo(u, g, k)
    BY <1>2 DEF ReachedUpTo
  <2> QED BY <2>1, <2>2
<1>3. CASE k # 0
  <2>1. k - 1 \in Nat /\ k - 1 \notin Bad
    BY <1>1, <1>3
  <2>2. PICK h \in [Nat -> SUBSET Task] : ReachedUpTo(u, h, k - 1)
    BY <2>1
  <2> DEFINE g == [i \in Nat |-> IF i = k THEN Widened(h[k - 1]) ELSE h[i]]
  <2>3. g \in [Nat -> SUBSET Task]
    BY <2>1, WidenedTyped
  <2>4. ReachedUpTo(u, g, k)
    BY <1>3, <2>1, <2>2 DEF ReachedUpTo
  <2> QED BY <2>3, <2>4
<1> QED BY <1>2, <1>3

LEMMA ReachUpToUnique ==
    ASSUME NEW u \in Task, NEW n \in Nat, NEW m \in Nat, NEW g, NEW h,
           ReachedUpTo(u, g, n), ReachedUpTo(u, h, m)
    PROVE  \A i \in Nat : i <= n /\ i <= m => g[i] = h[i]
<1> DEFINE Bad == {i \in Nat : i <= n /\ i <= m /\ g[i] # h[i]}
<1> SUFFICES ASSUME Bad # {} PROVE FALSE
  OBVIOUS
<1>1. PICK k \in Bad : \A j \in Bad : k <= j
  <2>1. Bad \in SUBSET Nat
    OBVIOUS
  <2> HIDE DEF Bad
  <2> QED BY <2>1, LeastNatural
<1>2. k # 0 => k - 1 \in Nat /\ g[k - 1] = h[k - 1]
  BY <1>1
<1>3. /\ g[k] = IF k = 0 THEN Dependents(u) ELSE Widened(g[k - 1])
      /\ h[k] = IF k = 0 THEN Dependents(u) ELSE Widened(h[k - 1])
  BY DEF ReachedUpTo
<1> QED BY <1>2, <1>3

LEMMA ReachExists ==
    ASSUME NEW u \in Task
    PROVE  \E f : f = [i \in Nat |-> IF i = 0 THEN Dependents(u)
                                     ELSE UNION {{t} \cup Dependents(t) : t \in f[i - 1]}]
<1> DEFINE G(i) == CHOOSE g \in [Nat -> SUBSET Task] : ReachedUpTo(u, g, i)
           f == [i \in Nat |-> G(i)[i]]
<1>1. \A i \in Nat : ReachedUpTo(u, G(i), i)
  BY ReachUpToExists
<1> HIDE DEF G
<1>2. ASSUME NEW i \in Nat
      PROVE  f[i] = IF i = 0 THEN Dependents(u) ELSE Widened(f[i - 1])
  <2>1. G(i)[i] = IF i = 0 THEN Dependents(u) ELSE Widened(G(i)[i - 1])
    BY <1>1 DEF ReachedUpTo
  <2>2. ASSUME i # 0 PROVE G(i)[i - 1] = G(i - 1)[i - 1] /\ i - 1 \in Nat
    <3>1. i - 1 \in Nat /\ i - 1 <= i
      BY <2>2
    <3> QED BY <1>1, <3>1, ReachUpToUnique
  <2> QED BY <2>1, <2>2
<1>3. f = [i \in Nat |-> IF i = 0 THEN Dependents(u) ELSE Widened(f[i - 1])]
  BY <1>2
<1> QED BY <1>3 DEF Widened

LEMMA ConeIsReached ==
    ASSUME NEW u \in Task
    PROVE  \E f : /\ f = [i \in Nat |-> IF i = 0 THEN Dependents(u)
                                        ELSE UNION {{t} \cup Dependents(t) : t \in f[i - 1]}]
                  /\ Cone(u) = f[MaxDepth - 1]
<1> DEFINE f == CHOOSE g : g = [i \in Nat |-> IF i = 0 THEN Dependents(u)
                                ELSE UNION {{t} \cup Dependents(t) : t \in g[i - 1]}]
<1>1. f = [i \in Nat |-> IF i = 0 THEN Dependents(u)
                         ELSE UNION {{t} \cup Dependents(t) : t \in f[i - 1]}]
  BY ReachExists
<1>2. Cone(u) = f[MaxDepth - 1]
  BY DEF Cone
<1> QED BY <1>1, <1>2

(* Where every member's dependencies are members, so is all that a member   *)
(* is reached from.                                                         *)
LEMMA ConeOfMember ==
    ASSUME NEW D, \A t \in D : Dep[t] \subseteq D,
           NEW u \in Task, NEW x \in Cone(u), Dep[x] \subseteq D
    PROVE  u \in D
<1>1. PICK f : /\ f = [i \in Nat |-> IF i = 0 THEN Dependents(u)
                                     ELSE UNION {{t} \cup Dependents(t) : t \in f[i - 1]}]
               /\ Cone(u) = f[MaxDepth - 1]
  BY ConeIsReached
<1>2. \A i \in Nat : f[i] = IF i = 0 THEN Dependents(u) ELSE Widened(f[i - 1])
  BY <1>1 DEF Widened
<1> DEFINE Bad == {i \in Nat : \E y \in f[i] : Dep[y] \subseteq D /\ u \notin D}
<1> SUFFICES ASSUME u \notin D PROVE FALSE
  OBVIOUS
<1>3. MaxDepth - 1 \in Bad
  BY <1>1, StageAssumption
<1>4. PICK k \in Bad : \A j \in Bad : k <= j
  <2>1. Bad \in SUBSET Nat
    OBVIOUS
  <2> HIDE DEF Bad
  <2> QED BY <1>3, <2>1, LeastNatural
<1>5. PICK y \in f[k] : Dep[y] \subseteq D
  OBVIOUS
<1>6. CASE k = 0
  BY <1>2, <1>5, <1>6 DEF Dependents
<1>7. CASE k # 0
  <2>1. k - 1 \in Nat /\ k - 1 \notin Bad
    BY <1>4, <1>7
  <2>2. y \in Widened(f[k - 1])
    BY <1>2, <1>5, <1>7
  <2>3. PICK t \in f[k - 1] : y = t \/ y \in Dependents(t)
    BY <2>2 DEF Widened
  <2>4. Dep[t] \subseteq D
    BY <1>5, <2>3 DEF Dependents
  <2> QED BY <2>1, <2>3, <2>4
<1> QED BY <1>6, <1>7

(* StageOrder keeps what is begun behind what it depends on.                *)
BegunInv == \A t \in Begun : Dep[t] \subseteq delivered

LEMMA BegunInvariance == Spec => []BegunInv
<1>1. Init => BegunInv
  BY DEF Init, BegunInv, Begun
<1>2. IInv /\ BegunInv /\ [Next]_vars => BegunInv'
  <2> SUFFICES ASSUME IInv, BegunInv, [Next]_vars PROVE BegunInv'
    OBVIOUS
  <2>1. [Order!Next]_(Order!vars)
    BY NextRefines
  <2>2. CASE UNCHANGED Order!vars
    BY <2>2 DEF Order!vars, BegunInv
  <2>3. CASE Order!Next
    BY <2>3 DEF Order!Next, Order!Begin, Order!Deliver, Order!Release, BegunInv
  <2> QED BY <2>1, <2>2, <2>3
<1> QED BY <1>1, <1>2, Invariance, PTL DEF Spec

(* Whatever the depth of the walk: what a reactor is about to queue lies in *)
(* the cone of COMPLETED tasks only, so that the walk, which starts at a    *)
(* task that is not, never marks it.                                        *)
THEOREM ConeUnheld == Spec => []ConeNeverHeld
<1>1. IInv /\ BegunInv => ConeNeverHeld
  <2> SUFFICES ASSUME IInv, BegunInv, NEW u \in Task, NEW s \in Slot,
                      NEW x \in call[s].found, x \in Cone(u)
               PROVE  task[u].status = "COMPLETED"
    BY DEF ConeNeverHeld
  <2>1. Dep[x] \subseteq delivered
    BY DEF IInv, CallInv, Relies
  <2>2. \A t \in delivered : Dep[t] \subseteq delivered
    BY DEF IInv, TypeOK, HistoryInv, BegunInv, Begun
  <2>3. u \in delivered
    BY <2>1, <2>2, ConeOfMember
  <2> QED BY <2>3 DEF IInv, HistoryInv
<1> QED BY <1>1, Invariance, BegunInvariance, PTL
=============================================================================
