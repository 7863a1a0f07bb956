----------------------- MODULE ExecutionSelectionProofs -----------------------
(***************************************************************************)
(* What holds of ExecutionSelection for every number of tasks, rows,       *)
(* creates and sweepers, every dependency between the tasks, every budget  *)
(* and every fault: types, that usage is counted once, that what speaks    *)
(* for a task is never lost; and, when no run is quick, that an            *)
(* orchestrator re-executes no child of which a re-execution is left, has  *)
(* no verdict repeated, and that no old verdict outlives one over the      *)
(* present input.  All but the first two with the exceptions that the      *)
(* properties name: the runs whose row is FAILED and that succeed later.   *)
(***************************************************************************)
EXTENDS ExecutionSelection, FiniteSetTheorems, WellFoundedInduction, TLAPS

(* a is what selection picks for t from the table r.                        *)
IsTop(r, t, a) == a \in Candidates(r, t) /\ \A d \in Candidates(r, t) : d <= a

(* It has been cancelled or reaped, and retention has not looked at it yet: *)
(* it may join the candidates.                                              *)
Unweighed(e) == row[e].state = "FAILED" /\ Going(e) /\ ~row[e].weighed

(* A sweeper is after old rows that have ended ...                          *)
FoundInv == \A p \in Sweeper : \A e \in doomed[p] : e <= last /\ ~Live(e)

(* ... and older than every row of their task that may join unweighed.      *)
WeighedInv ==
    \A p \in Sweeper : \A d \in doomed[p], e \in Exec :
        Unweighed(e) /\ row[d].state # "none" /\ row[d].task = row[e].task => d < e

(* It is after none that speaks for a task, unless a weighed run succeeded. *)
SweepInv ==
    \A p \in Sweeper, t \in Task, a \in Exec : IsTop(row, t, a) => a \notin doomed[p]

(* While a re-execution is being created, one that is there already is      *)
(* still active: the index will turn the create down.                       *)
AllowanceInv ==
    \A c \in Call : call[c].step # "idle" /\ call[c].reexec =>
        \A d \in Rows(row, call[c].task) : row[d].reexec => Live(d)

-----------------------------------------------------------------------------
(* Helpers *)

(* A nonempty set of executions has a newest one.                           *)
LEMMA NewestIs ==
    ASSUME NEW S \in SUBSET Exec, S # {}
    PROVE  Newest(S) \in S /\ \A d \in S : d <= Newest(S)
<1>. DEFINE T == {MaxExec - e : e \in S}
<1>1. MaxExec \in Nat /\ S \subseteq 1..MaxExec
  BY SelectionAssumption DEF Exec
<1>2. T \in SUBSET Nat
  BY <1>1
<1>3. T # {}
  OBVIOUS
<1>4. PICK m \in T : \A k \in T : <<k, m>> \notin OpToRel(<, Nat)
  <2>. HIDE DEF T
  <2>. QED
    BY <1>2, <1>3, WFMin, NatLessThanWellFounded, Zenon
<1>5. \A k \in T : ~(k < m)
  <2>. HIDE DEF T
  <2>. QED
    BY <1>2, <1>4, Zenon DEF OpToRel
<1>6. PICK e \in S : m = MaxExec - e
  OBVIOUS
<1>7. ASSUME NEW d \in S
      PROVE  d <= e
  <2>1. MaxExec - d \in T
    OBVIOUS
  <2>2. ~(MaxExec - d < MaxExec - e)
    BY <2>1, <1>5, <1>6
  <2>. QED
    BY <2>2, <1>1
<1>. QED
  BY <1>7, Zenon DEF Newest

LEMMA NewestOrNoneIs ==
    ASSUME NEW S \in SUBSET Exec
    PROVE  NewestOrNone(S) \in Exec \cup {0}
BY NewestIs DEF NewestOrNone

(* The pick is the top candidate, or there is no candidate.                 *)
LEMMA PickIs ==
    ASSUME NEW r, NEW t
    PROVE  /\ NewestOrNone(Candidates(r, t)) \in Nat
           /\ NewestOrNone(Candidates(r, t)) # 0 => IsTop(r, t, NewestOrNone(Candidates(r, t)))
           /\ \A a \in Exec : IsTop(r, t, a) => NewestOrNone(Candidates(r, t)) = a
<1>1. Candidates(r, t) \in SUBSET Exec
  BY DEF Candidates, Successes, Rows
<1>2. CASE Candidates(r, t) = {}
  BY <1>2 DEF NewestOrNone, IsTop
<1>3. CASE Candidates(r, t) # {}
  <2>. DEFINE n == Newest(Candidates(r, t))
  <2>1. NewestOrNone(Candidates(r, t)) = n
    BY <1>3 DEF NewestOrNone
  <2>2. n \in Candidates(r, t) /\ \A d \in Candidates(r, t) : d <= n
    BY <1>1, <1>3, NewestIs
  <2>3. Exec \subseteq Nat
    BY SelectionAssumption DEF Exec
  <2>. HIDE DEF n
  <2>4. n \in Nat /\ IsTop(r, t, n)
    BY <1>1, <2>2, <2>3 DEF IsTop
  <2>5. ASSUME NEW a \in Exec, IsTop(r, t, a)
        PROVE  n = a
    <3>1. n <= a /\ a <= n
      BY <2>2, <2>5 DEF IsTop
    <3>. QED
      BY <3>1, <2>3, <2>4
  <2>. QED
    BY <2>1, <2>4, <2>5
<1>. QED
  BY <1>2, <1>3

(* Retention keeps the top candidate, whatever the budget: no row is        *)
(* retained before it.                                                      *)
LEMMA TopRetained ==
    ASSUME NEW r, NEW t, NEW a, IsTop(r, t, a), NEW u, NEW keep \in Nat \ {0}
    PROVE  a \notin ToDelete(r, u, keep)
<1>1. a \in Exec /\ r[a].task = t /\ r[a].state = "SUCCESS" /\ ~r[a].superseded
  BY DEF IsTop, Candidates, Successes, Rows
<1>2. a \notin Failures(r, u)
  BY <1>1 DEF Failures
<1>3. ASSUME a \in Successes(r, u)
      PROVE  {d \in Successes(r, u) : RetainedBefore(r, d, a)} = {}
  <2>1. t = u
    BY <1>1, <1>3 DEF Successes, Rows
  <2>2. ASSUME NEW d \in Successes(r, u), RetainedBefore(r, d, a)
        PROVE  FALSE
    <3>1. ~r[d].superseded /\ d > a
      BY <2>2, <1>1 DEF RetainedBefore, Superseded, Successes
    <3>2. d \in Candidates(r, t)
      BY <3>1, <2>1, <1>1 DEF Candidates
    <3>3. d <= a
      BY <3>2 DEF IsTop
    <3>. QED
      BY <3>1, <3>3, <1>1, SelectionAssumption DEF Exec, Successes, Rows
  <2>. QED
    BY <2>2
<1>4. ~(Cardinality({}) >= keep)
  BY FS_EmptySet
<1>5. a \notin Overflow(r, Successes(r, u), keep)
  BY <1>3, <1>4 DEF Overflow
<1>6. a \notin Overflow(r, Failures(r, u), keep)
  BY <1>2 DEF Overflow
<1>. QED
  BY <1>5, <1>6 DEF ToDelete

(* Retention does not look at what else tables differ in.                   *)
LEMMA SameRetention ==
    ASSUME NEW r, NEW s,
           \A e \in Exec : /\ r[e].task = s[e].task /\ r[e].state = s[e].state
                           /\ r[e].superseded = s[e].superseded,
           NEW t, NEW keep
    PROVE  /\ Candidates(r, t) = Candidates(s, t)
           /\ \A a : IsTop(r, t, a) <=> IsTop(s, t, a)
           /\ ToDelete(r, t, keep) = ToDelete(s, t, keep)
<1>1. Successes(r, t) = Successes(s, t) /\ Failures(r, t) = Failures(s, t)
  BY DEF Successes, Failures, Rows
<1>2. Candidates(r, t) = Candidates(s, t)
  BY DEF Candidates, Successes, Rows
<1>3. \A d, e \in Exec : RetainedBefore(r, d, e) <=> RetainedBefore(s, d, e)
  BY DEF RetainedBefore, Superseded
<1>4. ASSUME NEW S \in SUBSET Exec
      PROVE  Overflow(r, S, keep) = Overflow(s, S, keep)
  <2>1. \A e \in S : {d \in S : RetainedBefore(r, d, e)} = {d \in S : RetainedBefore(s, d, e)}
    BY <1>3
  <2>. QED
    BY <2>1, Zenon DEF Overflow
<1>5. Successes(s, t) \in SUBSET Exec /\ Failures(s, t) \in SUBSET Exec
  BY DEF Successes, Failures, Rows
<1>. QED
  BY <1>1, <1>2, <1>4, <1>5 DEF IsTop, ToDelete

(* What retention deletes has ended.                                        *)
LEMMA DeletedHaveEnded ==
    ASSUME NEW r, NEW t, NEW keep
    PROVE  \A e \in ToDelete(r, t, keep) : e \in Exec /\ r[e].state \in {"SUCCESS", "FAILED"}
BY DEF ToDelete, Overflow, Successes, Failures, Rows

(* A deletion that spares the tops changes none of them.                    *)
LEMMA SparedTops ==
    ASSUME NEW r, NEW D, NEW s,
           s = [e \in Exec |-> IF e \in D THEN NoRow ELSE r[e]],
           NEW t, \A a \in Exec : IsTop(r, t, a) => a \notin D
    PROVE  \A a \in Exec : IsTop(s, t, a) <=> IsTop(r, t, a)
<1>1. Candidates(s, t) = Candidates(r, t) \ D
  BY DEF Candidates, Successes, Rows, NoRow
<1>2. ASSUME NEW a \in Exec, IsTop(r, t, a)
      PROVE  IsTop(s, t, a)
  BY <1>1, <1>2 DEF IsTop
<1>3. ASSUME NEW a \in Exec, IsTop(s, t, a)
      PROVE  IsTop(r, t, a)
  <2>1. a \in Candidates(r, t) /\ Candidates(r, t) \in SUBSET Exec
    BY <1>1, <1>3 DEF IsTop, Candidates, Successes, Rows
  <2>. DEFINE b == Newest(Candidates(r, t))
  <2>2. b \in Exec /\ IsTop(r, t, b)
    BY <2>1, NewestIs DEF IsTop
  <2>3. b \in Candidates(s, t)
    BY <2>2, <1>1 DEF IsTop
  <2>4. b <= a /\ a <= b
    BY <2>1, <2>2, <2>3, <1>3 DEF IsTop
  <2>5. a = b
    <3>. HIDE DEF b
    <3>. QED
      BY <2>2, <2>4, SelectionAssumption DEF Exec
  <2>. QED
    BY <2>2, <2>5
<1>. QED
  BY <1>2, <1>3

-----------------------------------------------------------------------------
(* Types *)

(* A row that is updated is still a row.                                    *)
LEMMA RowReset ==
    ASSUME NEW x \in Row, NEW y, y = [x EXCEPT !.reexec = FALSE]
    PROVE  /\ y \in Row /\ y.task = x.task /\ y.state = x.state
           /\ y.superseded = x.superseded /\ ~y.reexec
           /\ y.chained = x.chained /\ y.target = x.target /\ y.facts = x.facts
           /\ y.run = x.run /\ y.weighed = x.weighed
BY DEF Row

LEMMA PlainTypes ==
    NoFacts \in Facts /\ NoRow \in Row /\ NoCreate \in Create
BY DEF NoFacts, Facts, NoRow, Row, NoCreate, Create

LEMMA DeleteTypes ==
    ASSUME NEW r \in [Exec -> Row], rolled \in [Exec -> Nat], NEW D, Delete(r, D)
    PROVE  /\ row' \in [Exec -> Row] /\ rolled' \in [Exec -> Nat]
           /\ \A e \in Exec : row'[e] = IF e \in D THEN NoRow ELSE r[e]
BY PlainTypes DEF Delete, RollUp

(* x is the row y, weighed perhaps.                                         *)
SameRow(x, y) ==
    /\ x.task = y.task /\ x.state = y.state /\ x.run = y.run /\ x.chained = y.chained
    /\ x.target = y.target /\ x.reexec = y.reexec /\ x.facts = y.facts
    /\ x.superseded = y.superseded /\ (y.weighed => x.weighed)

(* Weighing marks the ghosts that are no newer than what is picked.         *)
LEMMA WeighedIs ==
    ASSUME NEW r \in [Exec -> Row], NEW D, NEW s, s = Weighed(r, D)
    PROVE  /\ s \in [Exec -> Row]
           /\ \A e \in Exec : SameRow(s[e], r[e])
           /\ \A e \in Exec, d \in D :
                 r[e].state = "FAILED" /\ r[e].run # "over" /\ d >= e /\ r[d].task = r[e].task
                 => s[e].weighed
<1>1. ASSUME NEW x \in Row, NEW w \in BOOLEAN, NEW y, y = [x EXCEPT !.weighed = @ \/ w]
      PROVE  y \in Row /\ SameRow(y, x) /\ (w => y.weighed)
  BY <1>1 DEF Row, SameRow
<1>. DEFINE W(e) == /\ r[e].state = "FAILED" /\ r[e].run # "over"
                    /\ \E d \in D : d >= e /\ r[d].task = r[e].task
<1>2. s = [e \in Exec |-> [r[e] EXCEPT !.weighed = @ \/ W(e)]]
  BY DEF Weighed
<1>3. \A e \in Exec : W(e) \in BOOLEAN
  OBVIOUS
<1>4. \A e \in Exec : \A d \in D :
        r[e].state = "FAILED" /\ r[e].run # "over" /\ d >= e /\ r[d].task = r[e].task => W(e)
  OBVIOUS
<1>. HIDE DEF W
<1>5. \A e \in Exec : s[e] = [r[e] EXCEPT !.weighed = @ \/ W(e)] /\ r[e] \in Row
  BY <1>2
<1>6. \A e \in Exec : s[e] \in Row /\ SameRow(s[e], r[e]) /\ (W(e) => s[e].weighed)
  BY <1>1, <1>3, <1>5
<1>7. s \in [Exec -> Row]
  BY <1>2, <1>6
<1>. QED
  BY <1>4, <1>6, <1>7

(* Types do not depend on how rows change, if they keep their task, none    *)
(* becomes live, and a run goes on only with a row that is active or FAILED.*)
LEMMA RowsKeepTypes ==
    ASSUME TypeOK, row' \in [Exec -> Row], UNCHANGED <<last, doomed>>,
           rolled' \in [Exec -> Nat], raced' \in BOOLEAN,
           call' \in [Call -> Create],
           \A c \in Call : call'[c].step = call[c].step /\ call'[c].task = call[c].task,
           \A e \in Exec : row'[e].state # "none" =>
                row'[e].task = row[e].task /\ row[e].state # "none",
           \A e \in Exec : Live(e)' => Live(e) /\ Going(e)',
           \A e \in Exec : Going(e)' => row'[e].state \in {"active", "FAILED"}
    PROVE  TypeOK'
<1>1. \A e \in Exec : row'[e].state # "none" => row'[e].task \in Task /\ e <= last'
  BY DEF TypeOK
<1>2. ASSUME NEW d \in Exec, NEW e \in Exec, Live(d)', Live(e)', row'[d].task = row'[e].task
      PROVE  d = e
  <2>1. Live(d) /\ Live(e) /\ row'[d].state # "none" /\ row'[e].state # "none"
    BY <1>2 DEF Live
  <2>2. row[d].task = row[e].task
    BY <2>1, <1>2
  <2>. QED
    BY <2>1, <2>2 DEF TypeOK
<1>. QED
  BY <1>1, <1>2 DEF TypeOK

LEMMA TypeInit == Init => TypeOK
<1>. SUFFICES ASSUME Init PROVE TypeOK
  OBVIOUS
<1>. USE DEF Init
<1>1. row \in [Exec -> Row] /\ call \in [Call -> Create]
  BY PlainTypes
<1>2. last \in 0..MaxExec /\ doomed \in [Sweeper -> SUBSET Exec] /\ rolled \in [Exec -> Nat]
  BY SelectionAssumption
<1>3. /\ \A e \in Exec : row[e].state = "none" /\ row[e].run = "over"
      /\ \A c \in Call : call[c].step = "idle"
  BY DEF NoRow, NoCreate
<1>. QED
  BY <1>1, <1>2, <1>3 DEF TypeOK, Live, Going

LEMMA TypeNext == TypeOK /\ [Next]_vars => TypeOK'
<1>. SUFFICES ASSUME TypeOK, [Next]_vars
              PROVE  TypeOK'
  OBVIOUS
<1>. USE SelectionAssumption
<1>1. ASSUME UNCHANGED <<row, last, doomed, rolled, raced>>, NEW c \in Call,
             NEW x \in Create, call' = [call EXCEPT ![c] = x],
             x.step # "idle" => x.task \in Task
      PROVE  TypeOK'
  BY <1>1 DEF TypeOK, Live, Going
<1>2. ASSUME NEW c \in Call, NEW t \in Task, NEW caller \in Caller, Begin(c, t, caller)
      PROVE  TypeOK'
  <2>. DEFINE x == [NoCreate EXCEPT !.step = "prepare", !.task = t, !.agent = caller # "person",
                                    !.reexec = Reexecution(t, caller)]
  <2>1. Reexecution(t, caller) \in BOOLEAN
    BY DEF Reexecution
  <2>2. x \in Create
    BY <2>1, PlainTypes DEF Create
  <2>3. call' = [call EXCEPT ![c] = x]
    BY <1>2 DEF Begin
  <2>4. x.task \in Task
    BY DEF NoCreate
  <2>. HIDE DEF x
  <2>. QED
    BY <2>2, <2>3, <2>4, <1>1, <1>2 DEF Begin
<1>3. ASSUME NEW c \in Call, Prepare(c)
      PROVE  TypeOK'
  <2>1. Chain(call[c].task) \in SUBSET Exec
    <3>1. \A p : Deliverable(p) \in Exec \cup {0}
      BY NewestOrNoneIs DEF Deliverable, Candidates, Successes, Rows
    <3>. QED
      BY <3>1 DEF Chain
  <2>2. PICK chained \in SUBSET Exec :
            call' = [call EXCEPT ![c].chained = chained,
                                 ![c].step = IF call[c].agent THEN "stamp" ELSE "insert"]
    BY <2>1, <1>3 DEF Prepare
  <2>. DEFINE x == [call[c] EXCEPT !.chained = chained,
                                   !.step = IF call[c].agent THEN "stamp" ELSE "insert"]
  <2>3. call[c] \in Create /\ call[c].task \in Task
    BY <1>3 DEF TypeOK, Prepare
  <2>4. x \in Create /\ x.task \in Task
    BY <2>3 DEF Create
  <2>5. call' = [call EXCEPT ![c] = x]
    BY <2>2, <2>3 DEF TypeOK
  <2>. HIDE DEF x
  <2>. QED
    BY <2>4, <2>5, <1>1, <1>3 DEF Prepare
<1>4. ASSUME NEW c \in Call, Stamp(c)
      PROVE  TypeOK'
  <2>1. Authoritative(call[c].task) \in Exec \cup {0}
    BY NewestOrNoneIs DEF Authoritative, Candidates, Successes, Rows
  <2>2. PICK target \in Exec \cup {0} :
            call' = [call EXCEPT ![c].target = target, ![c].step = "insert"]
    BY <2>1, <1>4 DEF Stamp
  <2>. DEFINE x == [call[c] EXCEPT !.target = target, !.step = "insert"]
  <2>3. call[c] \in Create /\ call[c].task \in Task
    BY <1>4 DEF TypeOK, Stamp
  <2>4. x \in Create /\ x.task \in Task
    BY <2>3 DEF Create
  <2>5. call' = [call EXCEPT ![c] = x]
    BY <2>2, <2>3 DEF TypeOK
  <2>. HIDE DEF x
  <2>. QED
    BY <2>4, <2>5, <1>1, <1>4 DEF Stamp
<1>5. ASSUME NEW c \in Call, Insert(c)
      PROVE  TypeOK'
  <2>1. call' = [call EXCEPT ![c] = NoCreate] /\ UNCHANGED <<doomed, rolled, raced>>
    BY <1>5 DEF Insert, Return
  <2>2. NoCreate \in Create /\ NoCreate.step = "idle"
    BY PlainTypes DEF NoCreate
  <2>3. CASE IndexRejects(call[c].task)
    BY <2>1, <2>2, <2>3, <1>1, <1>5 DEF Insert
  <2>4. CASE ~IndexRejects(call[c].task)
    <3>. DEFINE n == last + 1
                x == [NoRow EXCEPT !.task = call[c].task, !.state = "active",
                                   !.run = "working", !.chained = call[c].chained,
                                   !.target = call[c].target,
                                   !.reexec = call[c].reexec]
    <3>1. last' = n /\ n \in Exec /\ n \in 0..MaxExec /\ row' = [row EXCEPT ![n] = x]
      BY <2>4, <1>5 DEF Insert, TypeOK, Exec
    <3>2. call[c] \in Create /\ call[c].task \in Task
      BY <1>5 DEF TypeOK, Insert
    <3>3. x \in Row /\ x.task = call[c].task /\ x.state = "active" /\ x.run = "working"
      BY <3>2 DEF Create, Row, NoRow, NoFacts, Facts
    <3>4. ~\E e \in Exec : row[e].task = call[c].task /\ Live(e)
      BY <2>4 DEF IndexRejects, Active, Rows, Live
    <3>. HIDE DEF n, x
    <3>5. \A e \in Exec : row'[e] = IF e = n THEN x ELSE row[e]
      BY <3>1 DEF TypeOK
    <3>6. row' \in [Exec -> Row]
      BY <3>1, <3>3 DEF TypeOK
    <3>7. \A e \in Exec : row'[e].state # "none" => row'[e].task \in Task /\ e <= last'
      BY <3>1, <3>2, <3>3, <3>5 DEF TypeOK, Exec, n
    <3>8. \A d, e \in Exec : Live(d)' /\ Live(e)' /\ row'[d].task = row'[e].task => d = e
      BY <3>3, <3>4, <3>5 DEF TypeOK, Live
    <3>10. \A e \in Exec : (Live(e)' => Going(e)')
                           /\ (Going(e)' => row'[e].state \in {"active", "FAILED"})
      BY <3>3, <3>5 DEF TypeOK, Live, Going
    <3>9. /\ call' \in [Call -> Create]
          /\ \A k \in Call : call'[k].step # "idle" => call'[k].task \in Task
      BY <2>1, <2>2 DEF TypeOK
    <3>. QED
      BY <2>1, <3>1, <3>6, <3>7, <3>8, <3>9, <3>10 DEF TypeOK
  <2>. QED
    BY <2>3, <2>4
<1>6. ASSUME StartHarness
      PROVE  TypeOK'
  <2>1. \A e \in Exec : row'[e] = [row[e] EXCEPT !.reexec = FALSE] /\ row[e] \in Row
    BY <1>6 DEF StartHarness, TypeOK
  <2>2. \A e \in Exec : row'[e] \in Row
    BY <2>1, RowReset
  <2>3. \A e \in Exec : /\ row'[e].state = row[e].state /\ row'[e].task = row[e].task
                        /\ row'[e].run = row[e].run
    BY <2>1, RowReset
  <2>4. row' \in [Exec -> Row]
    BY <2>2, <1>6 DEF StartHarness
  <2>. QED
    BY <2>3, <2>4, <1>6, RowsKeepTypes DEF StartHarness, Live, Going, TypeOK
<1>7. ASSUME NEW e \in Exec, NEW x \in Row, row' = [row EXCEPT ![e] = x],
             x.task = row[e].task, Going(e), UNCHANGED <<last, call, doomed, rolled, raced>>,
             x.state = "active" => Live(e) /\ x.run # "over",
             x.run # "over" => x.state \in {"active", "FAILED"}
      PROVE  TypeOK'
  <2>1. \A d \in Exec : row'[d] = IF d = e THEN x ELSE row[d]
    BY <1>7 DEF TypeOK
  <2>2. /\ row' \in [Exec -> Row] /\ rolled' \in [Exec -> Nat] /\ raced' \in BOOLEAN
        /\ call' \in [Call -> Create]
    BY <1>7 DEF TypeOK
  <2>3. \A d \in Exec : row'[d].task = row[d].task
    BY <2>1, <1>7
  <2>4. \A d \in Exec : row'[d].state # "none" => row[d].state # "none"
    BY <2>1, <1>7 DEF TypeOK
  <2>5. \A d \in Exec : Live(d)' => Live(d) /\ Going(d)'
    BY <2>1, <1>7 DEF TypeOK, Live, Going
  <2>6. \A d \in Exec : Going(d)' => row'[d].state \in {"active", "FAILED"}
    BY <2>1, <1>7 DEF TypeOK, Going
  <2>. QED
    BY <2>2, <2>3, <2>4, <2>5, <2>6, <1>7, RowsKeepTypes
<1>8. ASSUME NEW e \in Exec, NEW facts \in Fact, Judge(e, facts)
      PROVE  TypeOK'
  <2>1. PICK superseded \in BOOLEAN :
            row' = [row EXCEPT ![e].run = "judged", ![e].facts = facts,
                               ![e].superseded = superseded]
    BY <1>8 DEF Judge, Loses
  <2>. DEFINE x == [row[e] EXCEPT !.run = "judged", !.facts = facts,
                                  !.superseded = superseded]
  <2>2. row' = [row EXCEPT ![e] = x]
    BY <2>1 DEF TypeOK
  <2>3. x \in Row /\ x.task = row[e].task /\ x.state = row[e].state /\ x.run = "judged"
    <3>1. row[e] \in Row /\ facts \in Facts
      BY DEF TypeOK
    <3>. QED
      BY <3>1 DEF Row
  <2>4. row[e].state \in {"active", "FAILED"} /\ Going(e)
    BY <1>8 DEF TypeOK, Judge, Going
  <2>. HIDE DEF x
  <2>. QED
    BY <2>2, <2>3, <2>4, <1>7, <1>8 DEF Judge, Live
<1>9. ASSUME NEW e \in Exec, Succeed(e)
      PROVE  TypeOK'
  <2>. DEFINE x == [row[e] EXCEPT !.state = "SUCCESS", !.run = "over",
                                  !.target = 0, !.weighed = FALSE]
              r == [row EXCEPT ![e] = x]
              D == ToDelete(r, row[e].task, KeepInTx)
              s == Weighed(r, D)
  <2>1. x \in Row /\ x.task = row[e].task /\ x.state = "SUCCESS" /\ x.run = "over"
    <3>1. row[e] \in Row
      BY DEF TypeOK
    <3>. QED
      BY <3>1, PlainTypes DEF Row
  <2>2. r = [row EXCEPT ![e].state = "SUCCESS", ![e].run = "over",
                        ![e].target = 0, ![e].weighed = FALSE]
    BY DEF TypeOK
  <2>3. Delete(s, D) /\ UNCHANGED <<last, doomed>> /\ row[e].state # "none"
    BY <2>2, <1>9 DEF Succeed, TypeOK, Going
  <2>4. raced' \in BOOLEAN
    <3>1. row[e].weighed \in BOOLEAN
      BY DEF TypeOK, Row
    <3>. QED
      BY <3>1, <1>9 DEF Succeed, TypeOK
  <2>5. /\ call' \in [Call -> Create]
        /\ \A c \in Call : call'[c].step = call[c].step /\ call'[c].task = call[c].task
    <3>1. ASSUME NEW c \in Call
          PROVE  /\ call'[c] \in Create
                 /\ call'[c].step = call[c].step /\ call'[c].task = call[c].task
      <4>1. call[c] \in Create
        BY DEF TypeOK
      <4>2. PICK w \in BOOLEAN : call'[c] = [call[c] EXCEPT !.late = @ \/ w]
        BY <1>9 DEF Succeed
      <4>. QED
        BY <4>1, <4>2 DEF Create
    <3>2. DOMAIN call' = Call /\ call' = [c \in Call |-> call'[c]]
      BY <1>9 DEF Succeed
    <3>. QED
      BY <3>1, <3>2
  <2>. HIDE DEF x
  <2>6. r \in [Exec -> Row]
    BY <2>1 DEF TypeOK
  <2>7. \A d \in Exec : r[d] = IF d = e THEN x ELSE row[d]
    BY DEF TypeOK
  <2>8. s \in [Exec -> Row] /\ \A d \in Exec : SameRow(s[d], r[d])
    <3>. HIDE DEF r, D
    <3>. QED
      BY <2>6, WeighedIs
  <2>. HIDE DEF r, D, s
  <2>9. /\ row' \in [Exec -> Row] /\ rolled' \in [Exec -> Nat]
        /\ \A d \in Exec : row'[d] = IF d \in D THEN NoRow ELSE s[d]
    BY <2>3, <2>8, DeleteTypes DEF TypeOK
  <2>10. \A d \in Exec : row'[d].state # "none" =>
            row'[d].task = row[d].task /\ row[d].state # "none"
    BY <2>1, <2>3, <2>7, <2>8, <2>9 DEF NoRow, SameRow
  <2>11. \A d \in Exec : Live(d)' => Live(d) /\ Going(d)'
    BY <2>1, <2>7, <2>8, <2>9 DEF NoRow, Live, Going, SameRow, TypeOK
  <2>12. \A d \in Exec : Going(d)' => row'[d].state \in {"active", "FAILED"}
    BY <2>1, <2>7, <2>8, <2>9 DEF NoRow, Going, SameRow, TypeOK
  <2>. QED
    BY <2>3, <2>4, <2>5, <2>9, <2>10, <2>11, <2>12, RowsKeepTypes
<1>10. ASSUME NEW e \in Exec, Reap(e) \/ Fail(e)
       PROVE  TypeOK'
  <2>1. CASE Reap(e)
    <3>. DEFINE x == [row[e] EXCEPT !.state = "FAILED"]
    <3>1. row' = [row EXCEPT ![e] = x]
      BY <2>1 DEF Reap, TypeOK
    <3>2. x \in Row /\ x.task = row[e].task /\ x.state = "FAILED"
      <4>1. row[e] \in Row
        BY DEF TypeOK
      <4>. QED
        BY <4>1 DEF Row
    <3>3. Going(e)
      BY <2>1 DEF Reap, TypeOK
    <3>. HIDE DEF x
    <3>. QED
      BY <3>1, <3>2, <3>3, <1>7, <2>1 DEF Reap
  <2>2. CASE Fail(e)
    <3>. DEFINE x == [row[e] EXCEPT !.state = "FAILED", !.run = "over", !.target = 0,
                                    !.facts = NoFacts, !.superseded = FALSE,
                                    !.weighed = FALSE]
    <3>1. row' = [row EXCEPT ![e] = x]
      BY <2>2 DEF Fail, TypeOK
    <3>2. x \in Row /\ x.task = row[e].task /\ x.state = "FAILED"
      <4>1. row[e] \in Row
        BY DEF TypeOK
      <4>. QED
        BY <4>1, PlainTypes DEF Row
    <3>. HIDE DEF x
    <3>. QED
      BY <3>1, <3>2, <1>7, <2>2 DEF Fail
  <2>. QED
    BY <1>10, <2>1, <2>2
<1>11. ASSUME NEW p \in Sweeper, SweepReads(p)
       PROVE  TypeOK'
  <2>. DEFINE D == UNION {ToDelete(row, t, KeepDaily) : t \in Task}
  <2>1. D \in SUBSET Exec
    BY DeletedHaveEnded
  <2>2. row' = Weighed(row, D) /\ UNCHANGED <<last, call, rolled, raced>>
        /\ doomed' = [doomed EXCEPT ![p] = D]
    BY <1>11 DEF SweepReads
  <2>. HIDE DEF D
  <2>3. doomed' \in [Sweeper -> SUBSET Exec]
    BY <2>1, <2>2 DEF TypeOK
  <2>4. row' \in [Exec -> Row] /\ \A e \in Exec : SameRow(row'[e], row[e])
    BY <2>2, WeighedIs DEF TypeOK
  <2>5. \A e \in Exec : /\ row'[e].task = row[e].task /\ row'[e].state = row[e].state
                        /\ row'[e].run = row[e].run
    BY <2>4 DEF SameRow
  <2>. QED
    BY <2>2, <2>3, <2>4, <2>5 DEF TypeOK, Live, Going
<1>12. ASSUME NEW p \in Sweeper, SweepDeletes(p)
       PROVE  TypeOK'
  <2>1. /\ row' \in [Exec -> Row] /\ rolled' \in [Exec -> Nat]
        /\ \A d \in Exec : row'[d] = IF d \in doomed[p] THEN NoRow ELSE row[d]
    BY <1>12, DeleteTypes DEF SweepDeletes, TypeOK
  <2>2. doomed' \in [Sweeper -> SUBSET Exec] /\ UNCHANGED <<last, call, raced>>
    BY <1>12 DEF SweepDeletes, TypeOK
  <2>3. \A d \in Exec : row'[d] = row[d] \/ (row'[d].state = "none" /\ row'[d].run = "over")
    <3>1. NoRow.state = "none" /\ NoRow.run = "over"
      BY DEF NoRow
    <3>. QED
      BY <2>1, <3>1
  <2>4. /\ \A d \in Exec : row'[d].state # "none" => row'[d].task \in Task /\ d <= last'
        /\ \A d, e \in Exec : Live(d)' /\ Live(e)' /\ row'[d].task = row'[e].task => d = e
        /\ \A d \in Exec : /\ Live(d)' => Going(d)'
                           /\ Going(d)' => row'[d].state \in {"active", "FAILED"}
    BY <2>2, <2>3 DEF TypeOK, Live, Going
  <2>. QED
    BY <2>1, <2>2, <2>4 DEF TypeOK
<1>13. CASE UNCHANGED vars
  BY <1>13 DEF vars, TypeOK, Live, Going
<1>. QED
  BY <1>2, <1>3, <1>4, <1>5, <1>6, <1>8, <1>9, <1>10, <1>11, <1>12, <1>13 DEF Next

(* Rows, creates and sweeps keep their types; a task has one active row.    *)
THEOREM TypeCorrect == Spec => []TypeOK
BY TypeInit, TypeNext, PTL DEF Spec

-----------------------------------------------------------------------------
(* What every step does to the rows *)

(* Steps of creates that insert nothing                                     *)
LEMMA CallSteps ==
    ASSUME NEW c \in Call,
           \/ \E t \in Task, caller \in Caller : Begin(c, t, caller)
           \/ Prepare(c) \/ Stamp(c)
    PROVE  UNCHANGED <<row, last, doomed, rolled, raced>>
BY DEF Begin, Prepare, Stamp

(* An insert adds an active row after all others, or nothing.               *)
LEMMA Inserted ==
    ASSUME TypeOK, NEW c \in Call, Insert(c)
    PROVE  /\ UNCHANGED <<doomed, rolled, raced>>
           /\ \/ UNCHANGED <<row, last>>
              \/ /\ last' = last + 1 /\ last \in Nat /\ last' \in Exec
                 /\ ~Active(call[c].task)
                 /\ row[last'].state = "none"
                 /\ row'[last'].state = "active" /\ row'[last'].task = call[c].task
                 /\ ~row'[last'].superseded
                 /\ row'[last'].reexec = call[c].reexec
                 /\ row'[last'].chained = call[c].chained
                 /\ row'[last'].target = call[c].target
                 /\ \A e \in Exec : e # last' => row'[e] = row[e]
<1>1. CASE IndexRejects(call[c].task)
  BY <1>1 DEF Insert
<1>2. CASE ~IndexRejects(call[c].task)
  <2>. DEFINE x == [NoRow EXCEPT !.task = call[c].task, !.state = "active",
                                 !.run = "working", !.chained = call[c].chained,
                                 !.target = call[c].target,
                                 !.reexec = call[c].reexec]
  <2>1. /\ last' = last + 1 /\ last \in Nat /\ last' \in Exec
        /\ row' = [row EXCEPT ![last'] = x] /\ UNCHANGED <<doomed, rolled, raced>>
    BY <1>2, SelectionAssumption DEF Insert, TypeOK, Exec
  <2>2. /\ x.task = call[c].task /\ x.state = "active" /\ x.reexec = call[c].reexec
        /\ x.chained = call[c].chained /\ x.target = call[c].target /\ ~x.superseded
    BY DEF NoRow
  <2>3. row[last'].state = "none"
    BY <2>1 DEF TypeOK
  <2>. HIDE DEF x
  <2>. QED
    BY <1>2, <2>1, <2>2, <2>3 DEF TypeOK, IndexRejects
<1>. QED
  BY <1>1, <1>2

LEMMA HarnessStarted ==
    ASSUME TypeOK, StartHarness
    PROVE  /\ UNCHANGED <<last, call, doomed, rolled, raced>>
           /\ \A e \in Exec : /\ row'[e].state = row[e].state /\ row'[e].task = row[e].task
                              /\ row'[e].superseded = row[e].superseded /\ ~row'[e].reexec
                              /\ row'[e].chained = row[e].chained
                              /\ row'[e].target = row[e].target /\ row'[e].facts = row[e].facts
                              /\ row'[e].run = row[e].run /\ row'[e].weighed = row[e].weighed
BY RowReset DEF StartHarness, TypeOK

(* What may become of a run: it is judged, ...                              *)
Judged(e) ==
    /\ row[e].run = "working" /\ row'[e].run = "judged" /\ row'[e].state = row[e].state
    /\ row'[e].target = row[e].target /\ row'[e].weighed = row[e].weighed
    /\ row'[e].superseded => \E facts : Loses(e, facts)

(* ... goes on without its row, ...                                         *)
Reaped(e) ==
    /\ Live(e) /\ MayEnd(e) /\ row'[e].state = "FAILED" /\ row'[e].run = row[e].run
    /\ row'[e].target = row[e].target /\ row'[e].superseded = row[e].superseded

(* ... fails, ...                                                           *)
Failed(e) ==
    /\ Live(e) => MayEnd(e)
    /\ row'[e].state = "FAILED" /\ row'[e].run = "over" /\ ~row'[e].superseded

(* ... or succeeds.                                                         *)
Won(e) ==
    /\ row[e].run = "judged" /\ (Live(e) => MayEnd(e))
    /\ row'[e].state = "SUCCESS" /\ row'[e].run = "over"
    /\ row'[e].superseded = row[e].superseded
    /\ raced' \/ ~row[e].weighed
    /\ \A c \in Call : call[c].task = row[e].task /\ ~Live(e) => call'[c].late

LEMMA Moved ==
    ASSUME TypeOK, NEW e \in Exec, (\E facts \in Fact : Judge(e, facts)) \/ Reap(e) \/ Fail(e)
    PROVE  /\ UNCHANGED <<last, call, doomed, rolled, raced>>
           /\ \A d \in Exec : d # e => row'[d] = row[d]
           /\ Going(e) /\ row[e].state \in {"active", "FAILED"}
           /\ row'[e].state \in {"active", "FAILED"}
           /\ row'[e].task = row[e].task /\ row'[e].reexec = row[e].reexec
           /\ row'[e].chained = row[e].chained
           /\ Judged(e) \/ Reaped(e) \/ Failed(e)
<1>1. row \in [Exec -> Row] /\ row[e] \in Row
  BY DEF TypeOK
<1>2. ASSUME NEW x, row' = [row EXCEPT ![e] = x]
      PROVE  row'[e] = x /\ \A d \in Exec : d # e => row'[d] = row[d]
  BY <1>1, <1>2
<1>3. Going(e) => row[e].state \in {"active", "FAILED"}
  BY DEF TypeOK
<1>4. ASSUME NEW facts \in Fact, Judge(e, facts)
      PROVE  /\ UNCHANGED <<last, call, doomed, rolled, raced>>
             /\ \A d \in Exec : d # e => row'[d] = row[d]
             /\ Going(e) /\ row'[e].state = row[e].state
             /\ row'[e].task = row[e].task /\ row'[e].reexec = row[e].reexec
             /\ row'[e].chained = row[e].chained /\ Judged(e)
  <2>1. PICK superseded \in {Loses(e, facts), FALSE} :
            row' = [row EXCEPT ![e].run = "judged", ![e].facts = facts,
                               ![e].superseded = superseded]
    BY <1>4 DEF Judge
  <2>. DEFINE x == [row[e] EXCEPT !.run = "judged", !.facts = facts,
                                  !.superseded = superseded]
  <2>2. /\ x.task = row[e].task /\ x.reexec = row[e].reexec /\ x.run = "judged"
        /\ x.state = row[e].state /\ x.weighed = row[e].weighed
        /\ x.chained = row[e].chained /\ x.target = row[e].target
        /\ x.superseded = superseded
    BY <1>1 DEF Row
  <2>3. row' = [row EXCEPT ![e] = x]
    BY <1>1, <2>1
  <2>4. row[e].run = "working" /\ UNCHANGED <<last, call, doomed, rolled, raced>>
    BY <1>4 DEF Judge
  <2>. HIDE DEF x
  <2>. QED
    BY <1>2, <2>1, <2>2, <2>3, <2>4 DEF Going, Judged
<1>5. CASE Reap(e)
  <2>. DEFINE x == [row[e] EXCEPT !.state = "FAILED"]
  <2>1. /\ x.task = row[e].task /\ x.reexec = row[e].reexec /\ x.run = row[e].run
        /\ x.state = "FAILED" /\ x.chained = row[e].chained /\ x.target = row[e].target
        /\ x.superseded = row[e].superseded
    BY <1>1 DEF Row
  <2>2. row' = [row EXCEPT ![e] = x]
    BY <1>1, <1>5 DEF Reap
  <2>3. Live(e) /\ MayEnd(e) /\ UNCHANGED <<last, call, doomed, rolled, raced>>
    BY <1>5 DEF Reap
  <2>4. Going(e)
    BY <2>3 DEF TypeOK
  <2>. HIDE DEF x
  <2>. QED
    BY <1>2, <1>3, <2>1, <2>2, <2>3, <2>4 DEF Reaped
<1>6. CASE Fail(e)
  <2>. DEFINE x == [row[e] EXCEPT !.state = "FAILED", !.run = "over", !.target = 0,
                                  !.facts = NoFacts, !.superseded = FALSE,
                                  !.weighed = FALSE]
  <2>1. /\ x.task = row[e].task /\ x.reexec = row[e].reexec /\ x.run = "over"
        /\ x.state = "FAILED" /\ x.chained = row[e].chained /\ ~x.superseded
    BY <1>1 DEF Row
  <2>2. row' = [row EXCEPT ![e] = x]
    BY <1>1, <1>6 DEF Fail
  <2>3. /\ Going(e) /\ (Live(e) => MayEnd(e))
        /\ UNCHANGED <<last, call, doomed, rolled, raced>>
    BY <1>6 DEF Fail
  <2>. HIDE DEF x
  <2>. QED
    BY <1>2, <1>3, <2>1, <2>2, <2>3 DEF Failed
<1>. QED
  BY <1>3, <1>4, <1>5, <1>6

(* A run succeeds: its row is a success, and then rows are weighed and      *)
(* deleted.                                                                 *)
LEMMA Succeeded ==
    ASSUME TypeOK, NEW e \in Exec, Succeed(e)
    PROVE  /\ UNCHANGED <<last, doomed>>
           /\ row[e].run = "judged" /\ row[e].state \in {"active", "FAILED"}
           /\ Live(e) => MayEnd(e)
           /\ raced' \/ ~row[e].weighed
           /\ \A c \in Call : call[c].task = row[e].task /\ ~Live(e) => call'[c].late
           /\ \E s \in [Exec -> Row], D \in SUBSET Exec :
                 /\ D = ToDelete(s, row[e].task, KeepInTx)
                 /\ \A d \in Exec : d # e => SameRow(s[d], row[d])
                 /\ s[e].state = "SUCCESS" /\ s[e].run = "over" /\ s[e].task = row[e].task
                 /\ s[e].reexec = row[e].reexec /\ s[e].chained = row[e].chained
                 /\ s[e].superseded = row[e].superseded
                 /\ \A d \in D, x \in Exec :
                       Unweighed(x) /\ x # e /\ d >= x /\ d # e /\ row[d].task = row[x].task
                       => s[x].weighed
                 /\ Delete(s, D)
<1>. DEFINE x == [row[e] EXCEPT !.state = "SUCCESS", !.run = "over",
                                !.target = 0, !.weighed = FALSE]
            r == [row EXCEPT ![e] = x]
            D == ToDelete(r, row[e].task, KeepInTx)
            s == Weighed(r, D)
<1>1. row \in [Exec -> Row] /\ row[e] \in Row
  BY DEF TypeOK
<1>2. /\ x \in Row /\ x.task = row[e].task /\ x.state = "SUCCESS" /\ x.run = "over"
      /\ x.reexec = row[e].reexec /\ x.chained = row[e].chained
      /\ x.superseded = row[e].superseded
  BY <1>1 DEF Row
<1>3. r = [row EXCEPT ![e].state = "SUCCESS", ![e].run = "over",
                      ![e].target = 0, ![e].weighed = FALSE]
  BY <1>1
<1>4. /\ Delete(s, D) /\ UNCHANGED <<last, doomed>> /\ row[e].run = "judged"
      /\ (Live(e) => MayEnd(e)) /\ raced' = (raced \/ row[e].weighed)
  BY <1>3 DEF Succeed
<1>5. row[e].state \in {"active", "FAILED"}
  BY <1>4 DEF TypeOK, Going
<1>6. raced' \/ ~row[e].weighed
  <2>1. row[e].weighed \in BOOLEAN
    BY <1>1 DEF Row
  <2>. QED
    BY <1>4, <2>1
<1>7. ASSUME NEW c \in Call, call[c].task = row[e].task, ~Live(e)
      PROVE  call'[c].late
  <2>1. call[c] \in Create
    BY DEF TypeOK
  <2>2. call'[c] = [call[c] EXCEPT !.late =
                      @ \/ (call[c].task = row[e].task /\ ~Live(e))]
    BY <1>4 DEF Succeed
  <2>. QED
    BY <2>1, <2>2, <1>7 DEF Create
<1>. HIDE DEF x
<1>8. r \in [Exec -> Row]
  BY <1>1, <1>2
<1>9. (\A d \in Exec : d # e => r[d] = row[d]) /\ r[e] = x
  BY <1>1
<1>. HIDE DEF r
<1>10. /\ s \in [Exec -> Row]
       /\ \A d \in Exec : SameRow(s[d], r[d])
       /\ \A y \in Exec, d \in D :
             r[y].state = "FAILED" /\ r[y].run # "over" /\ d >= y /\ r[d].task = r[y].task
             => s[y].weighed
  <2>. HIDE DEF D
  <2>. QED
    BY <1>8, WeighedIs
<1>. HIDE DEF s
<1>11. D = ToDelete(s, row[e].task, KeepInTx)
  <2>1. \A d \in Exec : /\ s[d].task = r[d].task /\ s[d].state = r[d].state
                        /\ s[d].superseded = r[d].superseded
    BY <1>10 DEF SameRow
  <2>2. \A t, keep : ToDelete(s, t, keep) = ToDelete(r, t, keep)
    BY <2>1, SameRetention
  <2>. QED
    BY <2>2
<1>12. D \subseteq Exec
  BY DeletedHaveEnded
<1>. HIDE DEF D
<1>13. \A d \in Exec : d # e => SameRow(s[d], row[d])
  BY <1>9, <1>10
<1>14. /\ s[e].state = "SUCCESS" /\ s[e].run = "over" /\ s[e].task = row[e].task
       /\ s[e].reexec = row[e].reexec /\ s[e].chained = row[e].chained
       /\ s[e].superseded = row[e].superseded
  BY <1>2, <1>9, <1>10 DEF SameRow
<1>15. \A d \in D, y \in Exec :
          Unweighed(y) /\ y # e /\ d >= y /\ d # e /\ row[d].task = row[y].task => s[y].weighed
  BY <1>9, <1>10, <1>12 DEF Unweighed, Going
<1>. QED
  BY <1>4, <1>5, <1>6, <1>7, <1>10, <1>11, <1>12, <1>13, <1>14, <1>15

(* What a sweeper finds                                                     *)
Found == UNION {ToDelete(row, t, KeepDaily) : t \in Task}

LEMMA SweepRead ==
    ASSUME TypeOK, NEW p \in Sweeper, SweepReads(p)
    PROVE  /\ UNCHANGED <<last, call, rolled, raced>>
           /\ doomed' = [doomed EXCEPT ![p] = Found]
           /\ Found \subseteq Exec
           /\ \A e \in Exec : SameRow(row'[e], row[e])
           /\ \A d \in Found, e \in Exec :
                 Unweighed(e) /\ d >= e /\ row[d].task = row[e].task => row'[e].weighed
<1>1. /\ UNCHANGED <<last, call, rolled, raced>>
      /\ doomed' = [doomed EXCEPT ![p] = Found] /\ row' = Weighed(row, Found)
  BY DEF SweepReads, Found
<1>2. Found \subseteq Exec
  BY DeletedHaveEnded DEF Found
<1>. QED
  BY <1>1, <1>2, WeighedIs DEF TypeOK, Unweighed, Going

-----------------------------------------------------------------------------
(* Usage *)

LEMMA DeleteCountsOnce ==
    ASSUME TypeOK, UsageCountedOnce, last' = last, NEW r \in [Exec -> Row],
           \A e \in Exec : r[e].state = "none" <=> row[e].state = "none",
           NEW D, Delete(r, D)
    PROVE  UsageCountedOnce'
<1>1. \A e \in Exec : row'[e] = IF e \in D THEN NoRow ELSE r[e]
  BY DeleteTypes DEF TypeOK
<1>2. \A e \in Exec : rolled'[e] = rolled[e] + IF e \in D /\ r[e].state # "none" THEN 1 ELSE 0
  BY DEF Delete, RollUp
<1>3. \A e \in Exec : row[e].state # "none" => e <= last
  BY DEF TypeOK
<1>. QED
  BY <1>1, <1>2, <1>3 DEF UsageCountedOnce, NoRow

(* Whichever pruners overlap, an execution is in the usage rollup exactly   *)
(* once, namely from its deletion on: only rows that a delete returns are   *)
(* counted, and only rows that were never created have none.                *)
THEOREM UsageIsCountedOnce == Spec => []UsageCountedOnce
<1>1. Init => UsageCountedOnce
  BY SelectionAssumption DEF Init, UsageCountedOnce, Exec
<1>2. TypeOK /\ UsageCountedOnce /\ [Next]_vars => UsageCountedOnce'
  <2>. SUFFICES ASSUME TypeOK, UsageCountedOnce, [Next]_vars
                PROVE  UsageCountedOnce'
    OBVIOUS
  <2>1. ASSUME UNCHANGED <<last, rolled>>,
               \A e \in Exec : row'[e].state = "none" <=> row[e].state = "none"
        PROVE  UsageCountedOnce'
    BY <2>1 DEF UsageCountedOnce
  <2>2. ASSUME NEW c \in Call,
               \/ \E t \in Task, caller \in Caller : Begin(c, t, caller)
               \/ Prepare(c) \/ Stamp(c)
        PROVE  UsageCountedOnce'
    BY <2>2, <2>1, CallSteps
  <2>3. ASSUME NEW c \in Call, Insert(c)
        PROVE  UsageCountedOnce'
    <3>1. CASE UNCHANGED <<row, last>>
      BY <3>1, <2>3, <2>1, Inserted
    <3>2. CASE ~UNCHANGED <<row, last>>
      <4>1. /\ last' = last + 1 /\ last \in Nat /\ UNCHANGED rolled
            /\ row[last'].state = "none" /\ row'[last'].state = "active"
            /\ \A e \in Exec : e # last' => row'[e] = row[e]
        BY <3>2, <2>3, Inserted
      <4>2. ASSUME NEW e \in Exec
            PROVE  rolled'[e] = IF e <= last' /\ row'[e].state = "none" THEN 1 ELSE 0
        <5>1. rolled[e] = IF e <= last /\ row[e].state = "none" THEN 1 ELSE 0
          BY DEF UsageCountedOnce
        <5>2. e \in Nat
          BY SelectionAssumption DEF Exec
        <5>. QED
          BY <4>1, <5>1, <5>2
      <4>. QED
        BY <4>2 DEF UsageCountedOnce
    <3>. QED
      BY <3>1, <3>2
  <2>4. CASE StartHarness
    BY <2>4, <2>1, HarnessStarted
  <2>5. ASSUME NEW e \in Exec, (\E facts \in Fact : Judge(e, facts)) \/ Reap(e) \/ Fail(e)
        PROVE  UsageCountedOnce'
    <3>1. /\ UNCHANGED <<last, rolled>> /\ row[e].state # "none" /\ row'[e].state # "none"
          /\ \A d \in Exec : d # e => row'[d] = row[d]
      BY <2>5, Moved
    <3>. QED
      BY <3>1, <2>1
  <2>6. ASSUME NEW e \in Exec, Succeed(e)
        PROVE  UsageCountedOnce'
    <3>1. PICK s \in [Exec -> Row], D \in SUBSET Exec :
              /\ \A d \in Exec : d # e => SameRow(s[d], row[d])
              /\ s[e].state = "SUCCESS"
              /\ Delete(s, D)
      BY <2>6, Succeeded
    <3>2. last' = last /\ row[e].state # "none"
      BY <2>6, Succeeded
    <3>. QED
      BY <3>1, <3>2, DeleteCountsOnce DEF SameRow
  <2>7. ASSUME NEW p \in Sweeper, SweepReads(p)
        PROVE  UsageCountedOnce'
    BY <2>7, <2>1, SweepRead DEF SameRow
  <2>8. ASSUME NEW p \in Sweeper, SweepDeletes(p)
        PROVE  UsageCountedOnce'
    <3>1. Delete(row, doomed[p]) /\ last' = last /\ row \in [Exec -> Row]
      BY <2>8 DEF SweepDeletes, TypeOK
    <3>. QED
      BY <3>1, DeleteCountsOnce
  <2>9. CASE UNCHANGED vars
    BY <2>9, <2>1 DEF vars
  <2>. QED
    BY <2>2, <2>3, <2>4, <2>5, <2>6, <2>7, <2>8, <2>9 DEF Next
<1>. QED
  BY <1>1, <1>2, TypeInit, TypeNext, PTL DEF Spec

-----------------------------------------------------------------------------
(* What a step may make of a row that is there afterwards                   *)

Kept(e) ==
    /\ row'[e].task = row[e].task /\ row'[e].state = row[e].state
    /\ row'[e].run = row[e].run /\ row'[e].chained = row[e].chained
    /\ row'[e].target = row[e].target /\ row'[e].facts = row[e].facts
    /\ row'[e].superseded = row[e].superseded
    /\ row[e].weighed => row'[e].weighed

Ran(e) ==
    /\ Going(e) /\ row'[e].task = row[e].task /\ row'[e].chained = row[e].chained
    /\ Judged(e) \/ Reaped(e) \/ Failed(e) \/ Won(e)

Born(e) ==
    /\ e = last' /\ last' = last + 1 /\ row[e].state = "none"
    /\ \E c \in Call :
          /\ call[c].step = "insert" /\ ~Active(call[c].task)
          /\ row'[e].state = "active" /\ row'[e].task = call[c].task
          /\ row'[e].reexec = call[c].reexec
          /\ row'[e].chained = call[c].chained /\ row'[e].target = call[c].target
    /\ ~row'[e].superseded

LEMMA RowFates ==
    ASSUME TypeOK, [Next]_vars, NEW e \in Exec, row'[e].state # "none"
    PROVE  Kept(e) \/ Ran(e) \/ Born(e)
<1>1. ASSUME SameRow(row'[e], row[e])
      PROVE  Kept(e)
  BY <1>1 DEF Kept, SameRow
<1>2. ASSUME row'[e] = row[e]
      PROVE  Kept(e)
  BY <1>2 DEF Kept
<1>3. ASSUME NEW c \in Call, Insert(c)
      PROVE  Kept(e) \/ Born(e)
  <2>1. CASE UNCHANGED <<row, last>>
    BY <2>1, <1>2
  <2>2. CASE ~UNCHANGED <<row, last>>
    <3>1. call[c].step = "insert"
      BY <1>3 DEF Insert
    <3>. QED
      BY <2>2, <3>1, <1>2, <1>3, Inserted DEF Born
  <2>. QED
    BY <2>1, <2>2
<1>4. ASSUME NEW c \in Call,
             \/ \E t \in Task, caller \in Caller : Begin(c, t, caller)
             \/ Prepare(c) \/ Stamp(c)
      PROVE  Kept(e)
  BY <1>2, <1>4, CallSteps
<1>5. CASE StartHarness
  BY <1>5, HarnessStarted DEF Kept
<1>6. ASSUME NEW d \in Exec, (\E facts \in Fact : Judge(d, facts)) \/ Reap(d) \/ Fail(d)
      PROVE  Kept(e) \/ Ran(e)
  <2>1. CASE d = e
    BY <1>6, <2>1, Moved DEF Ran
  <2>2. CASE d # e
    BY <1>6, <2>2, <1>2, Moved
  <2>. QED
    BY <2>1, <2>2
<1>7. ASSUME NEW d \in Exec, Succeed(d)
      PROVE  Kept(e) \/ Ran(e)
  <2>1. PICK s \in [Exec -> Row], D \in SUBSET Exec :
            /\ \A x \in Exec : x # d => SameRow(s[x], row[x])
            /\ s[d].state = "SUCCESS" /\ s[d].run = "over" /\ s[d].task = row[d].task
            /\ s[d].chained = row[d].chained /\ s[d].superseded = row[d].superseded
            /\ Delete(s, D)
    BY <1>7, Succeeded
  <2>2. row'[e] = s[e]
    BY <2>1 DEF Delete, NoRow
  <2>3. /\ row[d].run = "judged" /\ (Live(d) => MayEnd(d)) /\ (raced' \/ ~row[d].weighed)
        /\ \A c \in Call : call[c].task = row[d].task /\ ~Live(d) => call'[c].late
    BY <1>7, Succeeded
  <2>4. CASE d = e
    BY <2>1, <2>2, <2>3, <2>4 DEF Ran, Won, Going
  <2>5. CASE d # e
    BY <2>1, <2>2, <2>5, <1>1
  <2>. QED
    BY <2>4, <2>5
<1>8. ASSUME NEW p \in Sweeper, SweepReads(p)
      PROVE  Kept(e)
  BY <1>8, <1>1, SweepRead
<1>9. ASSUME NEW p \in Sweeper, SweepDeletes(p)
      PROVE  Kept(e)
  <2>1. row'[e] = row[e]
    BY <1>9 DEF SweepDeletes, Delete, NoRow
  <2>. QED
    BY <2>1, <1>2
<1>10. CASE UNCHANGED vars
  BY <1>10, <1>2 DEF vars
<1>. QED
  BY <1>3, <1>4, <1>5, <1>6, <1>7, <1>8, <1>9, <1>10 DEF Next

(* A row whose run went on is there, before and after.                      *)
LEMMA RanIs ==
    ASSUME TypeOK, NEW e \in Exec, Ran(e)
    PROVE  /\ row[e].state \in {"active", "FAILED"}
           /\ row'[e].state \in {"active", "FAILED", "SUCCESS"}
           /\ row'[e].state = "active" => Live(e) /\ Judged(e)
           /\ row'[e].state = "SUCCESS" => Won(e)
<1>1. row[e].state \in {"active", "FAILED"}
  BY DEF Ran, TypeOK
<1>. QED
  BY <1>1 DEF Ran, Judged, Reaped, Failed, Won, Live

LEMMA LastGrows ==
    ASSUME TypeOK, [Next]_vars
    PROVE  last' = last \/ last' = last + 1
<1>1. \A c \in Call : Insert(c) => last' = last \/ last' = last + 1
  BY Inserted
<1>2. ASSUME NEW c \in Call,
             \/ \E t \in Task, caller \in Caller : Begin(c, t, caller)
             \/ Prepare(c) \/ Stamp(c)
      PROVE  last' = last
  BY <1>2, CallSteps
<1>3. ASSUME NEW e \in Exec,
             (\E facts \in Fact : Judge(e, facts)) \/ Reap(e) \/ Fail(e) \/ Succeed(e)
      PROVE  last' = last
  BY <1>3, Moved, Succeeded
<1>4. StartHarness => last' = last
  BY HarnessStarted
<1>5. \A p \in Sweeper : SweepReads(p) \/ SweepDeletes(p) => last' = last
  BY DEF SweepReads, SweepDeletes
<1>6. UNCHANGED vars => last' = last
  BY DEF vars
<1>. QED
  BY <1>1, <1>2, <1>3, <1>4, <1>5, <1>6 DEF Next

Old(x) == x \in Exec /\ x <= last /\ ~Going(x)

(* What ended stays as it is, unless it is deleted, and no number is used   *)
(* again.                                                                   *)
LEMMA EndedKept ==
    ASSUME TypeOK, [Next]_vars, NEW e, Old(e), row'[e].state # "none"
    PROVE  Kept(e)
<1>1. e \in Nat /\ last \in Nat
  BY SelectionAssumption DEF Exec, TypeOK, Old
<1>. QED
  BY <1>1, RowFates DEF Ran, Born, Old

LEMMA OldStays ==
    ASSUME TypeOK, [Next]_vars, NEW e, Old(e)
    PROVE  Old(e)'
<1>1. e \in Exec /\ e \in Nat /\ last \in Nat /\ e <= last
  BY SelectionAssumption DEF Exec, TypeOK, Old
<1>2. e <= last'
  BY <1>1, LastGrows
<1>3. TypeOK'
  BY TypeNext
<1>4. CASE row'[e].state = "none"
  BY <1>1, <1>2, <1>3, <1>4 DEF Old, TypeOK
<1>5. CASE row'[e].state # "none"
  BY <1>1, <1>2, <1>5, EndedKept DEF Old, Kept, Going
<1>. QED
  BY <1>4, <1>5

(* An active run is the newest execution of its task.                       *)
NewestInv ==
    \A e, d \in Exec : Live(e) /\ row[d].state # "none" /\ row[d].task = row[e].task => d <= e

LEMMA NewestNext == TypeOK /\ NewestInv /\ [Next]_vars => NewestInv'
<1>. SUFFICES ASSUME TypeOK, NewestInv, [Next]_vars, NEW e \in Exec, NEW d \in Exec,
                     Live(e)', row'[d].state # "none", row'[d].task = row'[e].task
              PROVE  d <= e
  BY DEF NewestInv
<1>1. Exec \subseteq Nat /\ last \in Nat
  BY SelectionAssumption DEF Exec, TypeOK
<1>2. Kept(e) \/ Ran(e) \/ Born(e)
  BY RowFates DEF Live
<1>3. Kept(d) \/ Ran(d) \/ Born(d)
  BY RowFates
<1>4. Ran(d) => row[d].state # "none" /\ row'[d].task = row[d].task
  BY RanIs DEF Ran
<1>5. CASE Born(e)
  <2>1. row[d].state # "none" => d <= last
    BY DEF TypeOK
  <2>. QED
    <3>1. e = last + 1 /\ (Born(d) => d = last + 1)
      BY <1>5 DEF Born
    <3>2. Kept(d) => row[d].state # "none"
      BY DEF Kept
    <3>. QED
      BY <1>1, <1>3, <1>4, <2>1, <3>1, <3>2
<1>6. CASE ~Born(e)
  <2>1. Live(e) /\ row'[e].task = row[e].task
    BY <1>2, <1>6, RanIs DEF Kept, Ran, Live
  <2>2. ~Born(d)
    <3>. SUFFICES ASSUME Born(d)
                  PROVE  FALSE
      OBVIOUS
    <3>1. ~Active(row'[d].task)
      BY DEF Born
    <3>. QED
      BY <2>1, <3>1 DEF Active, Rows, Live
  <2>3. row[d].state # "none" /\ row'[d].task = row[d].task
    BY <1>3, <1>4, <2>2 DEF Kept
  <2>. QED
    BY <2>1, <2>3 DEF NewestInv
<1>. QED
  BY <1>5, <1>6

(* What a sweeper has found was found now or before.                        *)
LEMMA DoomedFates ==
    ASSUME TypeOK, [Next]_vars, NEW p \in Sweeper
    PROVE  \/ doomed'[p] = doomed[p] \/ doomed'[p] = {}
           \/ doomed'[p] = Found /\ UNCHANGED <<last, raced>> /\ \E q \in Sweeper : SweepReads(q)
<1>1. ASSUME NEW q \in Sweeper, SweepReads(q)
      PROVE  doomed'[p] = doomed[p] \/ (doomed'[p] = Found /\ UNCHANGED <<last, raced>>)
  BY <1>1, SweepRead DEF TypeOK
<1>2. ASSUME NEW q \in Sweeper, SweepDeletes(q)
      PROVE  doomed'[p] = doomed[p] \/ doomed'[p] = {}
  BY <1>2 DEF SweepDeletes, TypeOK
<1>3. ASSUME NEW c \in Call, Insert(c)
      PROVE  doomed' = doomed
  BY <1>3, Inserted
<1>4. ASSUME NEW c \in Call,
             \/ \E t \in Task, caller \in Caller : Begin(c, t, caller)
             \/ Prepare(c) \/ Stamp(c)
      PROVE  doomed' = doomed
  BY <1>4, CallSteps
<1>5. ASSUME NEW e \in Exec,
             (\E facts \in Fact : Judge(e, facts)) \/ Reap(e) \/ Fail(e) \/ Succeed(e)
      PROVE  doomed' = doomed
  BY <1>5, Moved, Succeeded
<1>6. StartHarness => doomed' = doomed
  BY HarnessStarted
<1>7. UNCHANGED vars => doomed' = doomed
  BY DEF vars
<1>. QED
  BY <1>1, <1>2, <1>3, <1>4, <1>5, <1>6, <1>7 DEF Next

LEMMA FoundNext == TypeOK /\ FoundInv /\ [Next]_vars => FoundInv'
<1>. SUFFICES ASSUME TypeOK, FoundInv, [Next]_vars, NEW p \in Sweeper, NEW e \in doomed'[p]
              PROVE  e <= last' /\ ~Live(e)'
  BY DEF FoundInv
<1>1. CASE doomed'[p] = doomed[p]
  <2>1. e \in Exec /\ e <= last /\ ~Live(e)
    BY <1>1 DEF FoundInv, TypeOK
  <2>2. e \in Nat /\ last \in Nat
    BY <2>1, SelectionAssumption DEF Exec, TypeOK
  <2>3. e <= last'
    BY <2>1, <2>2, LastGrows
  <2>4. ASSUME Live(e)'
        PROVE  FALSE
    BY <2>1, <2>2, <2>4, RowFates, RanIs DEF Kept, Born, Live
  <2>. QED
    BY <2>3, <2>4
<1>2. CASE doomed'[p] = Found /\ UNCHANGED last /\ \E q \in Sweeper : SweepReads(q)
  <2>1. e \in Exec /\ row[e].state \in {"SUCCESS", "FAILED"}
    BY <1>2, DeletedHaveEnded DEF Found
  <2>2. row'[e].state = row[e].state
    BY <1>2, <2>1, SweepRead DEF SameRow
  <2>. QED
    BY <1>2, <2>1, <2>2 DEF TypeOK, Live
<1>. QED
  BY <1>1, <1>2, DoomedFates

(* A row that may join unweighed could before, or was the active one.       *)
LEMMA UnweighedBefore ==
    ASSUME TypeOK, [Next]_vars, NEW e \in Exec, Unweighed(e)'
    PROVE  (Unweighed(e) \/ Live(e)) /\ row'[e].task = row[e].task
<1>1. row'[e].state = "FAILED" /\ row'[e].run # "over" /\ ~row'[e].weighed
  BY DEF Unweighed, Going
<1>2. CASE Kept(e)
  BY <1>1, <1>2 DEF Kept, Unweighed, Going
<1>3. CASE Ran(e)
  BY <1>1, <1>3 DEF Ran, Judged, Reaped, Failed, Won, Unweighed, Going, Live
<1>. QED
  BY <1>1, <1>2, <1>3, RowFates DEF Born

LEMMA WeighedNext ==
    TypeOK /\ FoundInv /\ NewestInv /\ WeighedInv /\ [Next]_vars => WeighedInv'
<1>. SUFFICES ASSUME TypeOK, FoundInv, NewestInv, WeighedInv, [Next]_vars,
                     NEW p \in Sweeper, NEW d \in doomed'[p], NEW e \in Exec,
                     Unweighed(e)', row'[d].state # "none", row'[d].task = row'[e].task
              PROVE  d < e
  BY DEF WeighedInv
<1>1. (Unweighed(e) \/ Live(e)) /\ row'[e].task = row[e].task
  BY UnweighedBefore
<1>2. CASE doomed'[p] = doomed[p]
  <2>1. d \in Exec /\ d <= last /\ ~Live(d) /\ d \in Nat /\ last \in Nat /\ e \in Nat
    BY <1>2, SelectionAssumption DEF FoundInv, TypeOK, Exec
  <2>2. row[d].state # "none" /\ row[d].task = row[e].task
    BY <1>1, <2>1, RowFates, RanIs DEF Kept, Ran, Born
  <2>3. CASE Unweighed(e)
    BY <1>2, <2>2, <2>3 DEF WeighedInv
  <2>4. CASE Live(e)
    BY <2>1, <2>2, <2>4 DEF NewestInv
  <2>. QED
    BY <1>1, <2>3, <2>4
<1>3. CASE doomed'[p] = Found /\ \E q \in Sweeper : SweepReads(q)
  <2>1. d \in Exec /\ SameRow(row'[e], row[e]) /\ SameRow(row'[d], row[d])
    BY <1>3, SweepRead
  <2>2. Unweighed(e)
    BY <2>1 DEF SameRow, Unweighed, Going
  <2>3. ~row'[e].weighed
    BY DEF Unweighed
  <2>4. ~(d >= e)
    BY <1>3, <2>1, <2>2, <2>3, SweepRead DEF SameRow
  <2>5. d \in Nat /\ e \in Nat
    BY <2>1, SelectionAssumption DEF Exec
  <2>. QED
    BY <2>4, <2>5
<1>. QED
  BY <1>2, <1>3, DoomedFates

-----------------------------------------------------------------------------
(* What speaks for a task *)

(* Runs that may become candidates as far as retention has not picked them  *)
Joins(e) == Live(e) \/ Unweighed(e)

(* No top is lost, and a new one is a run that went on until now.           *)
Advanced ==
    \A t \in Task :
        /\ \A a \in Exec : IsTop(row, t, a) => \E b \in Exec : a <= b /\ IsTop(row, t, b)'
        /\ \A b \in Exec : IsTop(row, t, b)' => IsTop(row, t, b) \/ Joins(b) \/ raced'

LEMMA SameCandidates ==
    ASSUME \A e \in Exec :
              LET candidate(r) == r[e].state = "SUCCESS" /\ ~r[e].superseded
              IN  /\ candidate(row) <=> candidate(row')
                  /\ candidate(row) => row[e].task = row'[e].task
    PROVE  Advanced
<1>1. \A t \in Task : Candidates(row', t) = Candidates(row, t)
  BY DEF Candidates, Successes, Rows
<1>2. \A t \in Task, a \in Exec : IsTop(row, t, a)' <=> IsTop(row, t, a)
  BY <1>1 DEF IsTop, Candidates, Successes, Rows
<1>3. \A a \in Exec : a <= a
  BY SelectionAssumption DEF Exec
<1>. QED
  BY <1>2, <1>3 DEF Advanced

(* The tops after a success are those that there are before it prunes: at   *)
(* most the new success has joined.                                         *)
LEMMA SucceedTops ==
    ASSUME TypeOK, NEW e \in Exec, Succeed(e)
    PROVE  \E s \in [Exec -> Row] :
              /\ \A t : \A a \in Exec : IsTop(row, t, a)' <=> IsTop(s, t, a)
              /\ \A t : /\ Candidates(row, t) \subseteq Candidates(s, t)
                        /\ Candidates(s, t) \subseteq Candidates(row, t) \cup {e}
                        /\ Candidates(s, t) \in SUBSET Exec
              /\ ~row[e].superseded => e \in Candidates(s, row[e].task)
<1>1. PICK s \in [Exec -> Row], D \in SUBSET Exec :
          /\ D = ToDelete(s, row[e].task, KeepInTx)
          /\ \A d \in Exec : d # e => SameRow(s[d], row[d])
          /\ s[e].state = "SUCCESS" /\ s[e].task = row[e].task
          /\ s[e].superseded = row[e].superseded
          /\ Delete(s, D)
  BY Succeeded
<1>2. row[e].state \in {"active", "FAILED"}
  BY Succeeded
<1>3. row' = [d \in Exec |-> IF d \in D THEN NoRow ELSE s[d]]
  BY <1>1 DEF Delete
<1>4. \A t, a : IsTop(s, t, a) => a \notin D
  BY <1>1, TopRetained, SelectionAssumption
<1>5. ASSUME NEW t, NEW a \in Exec
      PROVE  IsTop(row, t, a)' <=> IsTop(s, t, a)
  <2>1. IsTop(row', t, a) <=> IsTop(s, t, a)
    BY <1>3, <1>4, SparedTops
  <2>. QED
    BY <2>1 DEF IsTop, Candidates, Successes, Rows
<1>6. ASSUME NEW t
      PROVE  /\ Candidates(row, t) \subseteq Candidates(s, t)
             /\ Candidates(s, t) \subseteq Candidates(row, t) \cup {e}
             /\ Candidates(s, t) \in SUBSET Exec
  BY <1>1, <1>2 DEF Candidates, Successes, Rows, SameRow
<1>7. ~row[e].superseded => e \in Candidates(s, row[e].task)
  BY <1>1 DEF Candidates, Successes, Rows
<1>. QED
  BY <1>5, <1>6, <1>7

(* A success replaces the top at most by itself, and its pruning spares it. *)
LEMMA SucceedAdvances ==
    ASSUME TypeOK, NEW e \in Exec, Succeed(e)
    PROVE  /\ Advanced
           /\ \A t : row[e].task = t /\ ~row[e].superseded =>
                 \E b \in Exec : e <= b /\ IsTop(row, t, b)'
<1>1. PICK s \in [Exec -> Row] :
          /\ \A t : \A a \in Exec : IsTop(row, t, a)' <=> IsTop(s, t, a)
          /\ \A t : /\ Candidates(row, t) \subseteq Candidates(s, t)
                    /\ Candidates(s, t) \subseteq Candidates(row, t) \cup {e}
                    /\ Candidates(s, t) \in SUBSET Exec
          /\ ~row[e].superseded => e \in Candidates(s, row[e].task)
  BY SucceedTops
<1>2. Joins(e) \/ raced'
  <2>1. (raced' \/ ~row[e].weighed) /\ row[e].state \in {"active", "FAILED"}
        /\ row[e].run = "judged"
    BY Succeeded
  <2>. QED
    BY <2>1 DEF Joins, Live, Unweighed, Going
<1>3. ASSUME NEW t, NEW a \in Candidates(s, t)
      PROVE  \E b \in Exec : a <= b /\ IsTop(row, t, b)'
  <2>1. PICK b \in Exec : IsTop(s, t, b)
    <3>1. Newest(Candidates(s, t)) \in Exec /\ IsTop(s, t, Newest(Candidates(s, t)))
      BY <1>1, NewestIs DEF IsTop
    <3>. QED
      BY <3>1
  <2>2. a <= b
    BY <2>1 DEF IsTop
  <2>. QED
    BY <2>1, <2>2, <1>1
<1>4. ASSUME NEW t \in Task, NEW a \in Exec, IsTop(row, t, a)
      PROVE  \E b \in Exec : a <= b /\ IsTop(row, t, b)'
  <2>1. a \in Candidates(s, t)
    BY <1>1, <1>4 DEF IsTop
  <2>. QED
    BY <2>1, <1>3
<1>5. ASSUME NEW t \in Task, NEW b \in Exec, IsTop(row, t, b)'
      PROVE  IsTop(row, t, b) \/ Joins(b) \/ raced'
  <2>1. IsTop(s, t, b)
    BY <1>1, <1>5
  <2>2. CASE b = e
    BY <2>2, <1>2
  <2>3. CASE b # e
    BY <2>1, <2>3, <1>1 DEF IsTop
  <2>. QED
    BY <2>2, <2>3
<1>. QED
  BY <1>1, <1>3, <1>4, <1>5 DEF Advanced

(* A sweep deletes no top, although it found its rows earlier.              *)
LEMMA SweepAdvances ==
    ASSUME SweepInv, NEW p \in Sweeper, SweepDeletes(p)
    PROVE  Advanced
<1>1. row' = [e \in Exec |-> IF e \in doomed[p] THEN NoRow ELSE row[e]]
  BY DEF SweepDeletes, Delete
<1>2. ASSUME NEW t \in Task, NEW a \in Exec
      PROVE  IsTop(row, t, a)' <=> IsTop(row, t, a)
  <2>1. \A b \in Exec : IsTop(row, t, b) => b \notin doomed[p]
    BY DEF SweepInv
  <2>2. IsTop(row', t, a) <=> IsTop(row, t, a)
    BY <1>1, <2>1, SparedTops
  <2>. QED
    BY <2>2 DEF IsTop, Candidates, Successes, Rows
<1>3. \A a \in Exec : a <= a
  BY SelectionAssumption DEF Exec
<1>. QED
  BY <1>2, <1>3 DEF Advanced

LEMMA StepAdvances == TypeOK /\ SweepInv /\ [Next]_vars => Advanced
<1>. SUFFICES ASSUME TypeOK, SweepInv, [Next]_vars
              PROVE  Advanced
  OBVIOUS
<1>1. ASSUME UNCHANGED row
      PROVE  Advanced
  BY <1>1, SameCandidates
<1>2. ASSUME NEW c \in Call,
             \/ \E t \in Task, caller \in Caller : Begin(c, t, caller)
             \/ Prepare(c) \/ Stamp(c)
      PROVE  Advanced
  BY <1>1, <1>2, CallSteps
<1>3. ASSUME NEW c \in Call, Insert(c)
      PROVE  Advanced
  <2>1. CASE UNCHANGED row
    BY <2>1, <1>1
  <2>2. CASE ~UNCHANGED row
    <3>1. /\ row[last'].state = "none" /\ row'[last'].state = "active"
          /\ \A e \in Exec : e # last' => row'[e] = row[e]
      BY <2>2, <1>3, Inserted
    <3>. QED
      BY <3>1, SameCandidates
  <2>. QED
    BY <2>1, <2>2
<1>4. CASE StartHarness
  BY <1>4, HarnessStarted, SameCandidates
<1>5. ASSUME NEW e \in Exec, (\E facts \in Fact : Judge(e, facts)) \/ Reap(e) \/ Fail(e)
      PROVE  Advanced
  <2>1. /\ row[e].state # "SUCCESS" /\ row'[e].state # "SUCCESS"
        /\ \A d \in Exec : d # e => row'[d] = row[d]
    BY <1>5, Moved
  <2>. QED
    BY <2>1, SameCandidates
<1>6. ASSUME NEW p \in Sweeper, SweepReads(p)
      PROVE  Advanced
  <2>1. \A e \in Exec : /\ row'[e].state = row[e].state /\ row'[e].task = row[e].task
                        /\ row'[e].superseded = row[e].superseded
    BY <1>6, SweepRead DEF SameRow
  <2>. QED
    BY <2>1, SameCandidates
<1>7. CASE UNCHANGED vars
  BY <1>7, <1>1 DEF vars
<1>. QED
  BY <1>2, <1>3, <1>4, <1>5, <1>6, <1>7, SucceedAdvances, SweepAdvances DEF Next

(* A sweeper has not found what may join.                                   *)
LEMMA JoinsUnfound ==
    ASSUME TypeOK, FoundInv, WeighedInv, NEW p \in Sweeper, NEW e \in Exec, Joins(e)
    PROVE  e \notin doomed[p]
<1>1. CASE Live(e)
  BY <1>1 DEF FoundInv
<1>2. CASE Unweighed(e)
  <2>1. e \in doomed[p] => e < e
    BY <1>2 DEF WeighedInv, Unweighed
  <2>. QED
    BY <2>1, SelectionAssumption DEF Exec
<1>. QED
  BY <1>1, <1>2 DEF Joins

LEMMA SweepNext ==
    TypeOK /\ FoundInv /\ WeighedInv /\ SweepInv /\ [Next]_vars /\ ~raced' => SweepInv'
<1>. SUFFICES ASSUME TypeOK, FoundInv, WeighedInv, SweepInv, [Next]_vars, ~raced',
                     NEW p \in Sweeper, NEW t \in Task, NEW a \in Exec, IsTop(row, t, a)'
              PROVE  a \notin doomed'[p]
  BY DEF SweepInv
<1>1. CASE doomed'[p] = doomed[p]
  <2>1. IsTop(row, t, a) \/ Joins(a)
    BY StepAdvances DEF Advanced
  <2>. QED
    BY <1>1, <2>1, JoinsUnfound DEF SweepInv
<1>2. CASE doomed'[p] = Found /\ \E q \in Sweeper : SweepReads(q)
  <2>1. \A e \in Exec : /\ row'[e].state = row[e].state /\ row'[e].task = row[e].task
                        /\ row'[e].superseded = row[e].superseded
    BY <1>2, SweepRead DEF SameRow
  <2>2. IsTop(row', t, a)
    BY DEF IsTop, Candidates, Successes, Rows
  <2>3. IsTop(row, t, a)
    BY <2>1, <2>2, SameRetention
  <2>4. \A u \in Task : a \notin ToDelete(row, u, KeepDaily)
    BY <2>3, TopRetained, SelectionAssumption
  <2>. QED
    BY <1>2, <2>4 DEF Found
<1>. QED
  BY <1>1, <1>2, DoomedFates

(* What selection picks is the top.                                         *)
LEMMA AuthoritativeIs ==
    ASSUME NEW t
    PROVE  /\ Authoritative(t)' \in Nat
           /\ \A a \in Exec : IsTop(row, t, a)' => Authoritative(t)' = a
<1>1. Authoritative(t)' = NewestOrNone(Candidates(row', t))
  BY DEF Authoritative, NewestOrNone, Newest, Candidates, Successes, Rows
<1>2. \A a : IsTop(row, t, a)' <=> IsTop(row', t, a)
  BY DEF IsTop, Candidates, Successes, Rows
<1>. QED
  BY <1>1, <1>2, PickIs

LEMMA AdvancedIs == TypeOK /\ Advanced =>
    \A t \in Task : Authoritative(t) <= Authoritative(t)'
<1>. SUFFICES ASSUME TypeOK, Advanced, NEW t \in Task
              PROVE  Authoritative(t) <= Authoritative(t)'
  OBVIOUS
<1>1. /\ Authoritative(t) \in Nat
      /\ Authoritative(t) # 0 => IsTop(row, t, Authoritative(t))
      /\ \A a \in Exec : IsTop(row, t, a) => Authoritative(t) = a
  BY PickIs DEF Authoritative
<1>2. CASE Authoritative(t) = 0
  BY <1>2, AuthoritativeIs
<1>3. CASE Authoritative(t) # 0
  <2>1. Authoritative(t) \in Exec
    BY <1>1, <1>3 DEF IsTop, Candidates, Successes, Rows
  <2>. QED
    BY <1>1, <1>3, <2>1, AuthoritativeIs DEF Advanced
<1>. QED
  BY <1>2, <1>3

(* A run that raced retention did, for good.                                *)
LEMMA RacedStays == TypeOK /\ [Next]_vars /\ raced => raced'
<1>. SUFFICES ASSUME TypeOK, [Next]_vars, raced
              PROVE  raced'
  OBVIOUS
<1>1. \A c \in Call : Insert(c) => raced' = raced
  BY Inserted
<1>2. ASSUME NEW c \in Call,
             \/ \E t \in Task, caller \in Caller : Begin(c, t, caller)
             \/ Prepare(c) \/ Stamp(c)
      PROVE  raced' = raced
  BY <1>2, CallSteps
<1>3. ASSUME NEW e \in Exec, (\E facts \in Fact : Judge(e, facts)) \/ Reap(e) \/ Fail(e)
      PROVE  raced' = raced
  BY <1>3, Moved
<1>4. \A e \in Exec : Succeed(e) => raced'
  BY DEF Succeed
<1>5. StartHarness => raced' = raced
  BY HarnessStarted
<1>6. \A p \in Sweeper : SweepReads(p) \/ SweepDeletes(p) => raced' = raced
  BY DEF SweepReads, SweepDeletes
<1>7. UNCHANGED vars => raced' = raced
  BY DEF vars
<1>. QED
  BY <1>1, <1>2, <1>3, <1>4, <1>5, <1>6, <1>7 DEF Next

LEMMA SweepInit == Init => FoundInv /\ NewestInv /\ WeighedInv /\ SweepInv /\ ~raced
BY DEF Init, FoundInv, NewestInv, WeighedInv, SweepInv, Live, NoRow

(* What speaks for a task is never lost, and never replaced by an older     *)
(* execution: the retention order puts it first in every budget, and a      *)
(* sweep that deletes what it found earlier still spares it, because a top  *)
(* that is new since then was active when the sweep looked, or its row was  *)
(* FAILED and the sweep passed over it.  So it holds until a run succeeds   *)
(* that retention has weighed as a failure; that is the only exception.     *)
THEOREM AuthorityNeverRegresses == Spec => AuthorityAdvances
<1>. DEFINE CalmInv == raced \/ SweepInv
<1>1. Init => FoundInv /\ NewestInv /\ WeighedInv /\ CalmInv
  BY SweepInit
<1>2. TypeOK /\ FoundInv /\ WeighedInv /\ CalmInv /\ [Next]_vars => CalmInv'
  BY SweepNext, RacedStays
<1>3. TypeOK /\ CalmInv /\ [Next]_vars =>
        (~raced' => \A t \in Task : Authoritative(t) <= Authoritative(t)')
  BY StepAdvances, AdvancedIs, RacedStays
<1>. HIDE DEF CalmInv
<1>. QED
  BY <1>1, <1>2, <1>3, FoundNext, NewestNext, WeighedNext, TypeInit, TypeNext, PTL
     DEF Spec, AuthorityAdvances

-----------------------------------------------------------------------------
(* The allowance *)

LEMMA AllowanceNext ==
    ASSUME "quick" \notin Env
    PROVE  TypeOK /\ AllowanceInv /\ [Next]_vars => AllowanceInv'
<1>. SUFFICES ASSUME TypeOK, AllowanceInv, [Next]_vars
              PROVE  AllowanceInv'
  OBVIOUS
<1>1. ASSUME \A k \in Call : /\ call'[k].step = call[k].step /\ call'[k].task = call[k].task
                              /\ call'[k].reexec = call[k].reexec,
             \A e \in Exec : row'[e].state # "none" /\ row'[e].reexec =>
                /\ row[e].state # "none" /\ row[e].reexec /\ row'[e].task = row[e].task
                /\ Live(e) => Live(e)' \/ MayEnd(e)
      PROVE  AllowanceInv'
  <2>1. ASSUME NEW k \in Call, call[k].step # "idle", call[k].reexec,
               NEW d \in Rows(row', call[k].task), row'[d].reexec
        PROVE  Live(d)'
    <3>1. d \in Rows(row, call[k].task) /\ row[d].reexec /\ row[d].task = call[k].task
      BY <2>1, <1>1 DEF Rows
    <3>2. Live(d)
      BY <2>1, <3>1 DEF AllowanceInv
    <3>3. ~MayEnd(d)
      BY <2>1, <3>1 DEF MayEnd
    <3>. QED
      BY <2>1, <3>2, <3>3, <1>1 DEF Rows
  <2>. QED
    BY <2>1, <1>1 DEF AllowanceInv, Rows
<1>2. ASSUME NEW c \in Call, NEW t \in Task, NEW caller \in Caller, Begin(c, t, caller)
      PROVE  AllowanceInv'
  <2>1. /\ \A k \in Call : k # c => call'[k] = call[k]
        /\ call'[c].task = t /\ call'[c].reexec = Reexecution(t, caller)
        /\ UNCHANGED row
    BY <1>2 DEF Begin, NoCreate, TypeOK
  <2>2. call'[c].reexec => \A d \in Rows(row, t) : ~row[d].reexec
    BY <1>2, <2>1 DEF Begin, Refused, Capped
  <2>. QED
    BY <2>1, <2>2 DEF AllowanceInv, Rows, Live
<1>3. ASSUME NEW c \in Call, Prepare(c) \/ Stamp(c)
      PROVE  AllowanceInv'
  <2>1. call[c] \in Create /\ call[c].step # "idle" /\ UNCHANGED row
    BY <1>3 DEF Prepare, Stamp, TypeOK
  <2>2. \A k \in Call : k # c => call'[k] = call[k]
    BY <1>3 DEF Prepare, Stamp, TypeOK
  <2>3. call'[c].task = call[c].task /\ call'[c].reexec = call[c].reexec
    <3>1. CASE Prepare(c)
      <4>1. PICK chained, step :
                call' = [call EXCEPT ![c].chained = chained, ![c].step = step]
        BY <3>1 DEF Prepare
      <4>. QED
        BY <4>1, <2>1 DEF TypeOK, Create
    <3>2. CASE Stamp(c)
      <4>1. PICK target :
                call' = [call EXCEPT ![c].target = target, ![c].step = "insert"]
        BY <3>2 DEF Stamp
      <4>. QED
        BY <4>1, <2>1 DEF TypeOK, Create
    <3>. QED
      BY <1>3, <3>1, <3>2
  <2>. QED
    BY <2>1, <2>2, <2>3 DEF AllowanceInv, Rows, Live
<1>4. ASSUME NEW c \in Call, Insert(c)
      PROVE  AllowanceInv'
  <2>1. /\ \A k \in Call : k # c => call'[k] = call[k]
        /\ call'[c].step = "idle"
    BY <1>4 DEF Insert, Return, NoCreate, TypeOK
  <2>2. \A d \in Exec : row'[d] = row[d] \/ Live(d)'
    <3>1. \/ UNCHANGED row
          \/ row'[last'].state = "active" /\ \A d \in Exec : d # last' => row'[d] = row[d]
      BY <1>4, Inserted
    <3>. QED
      BY <3>1 DEF Live
  <2>3. ASSUME NEW k \in Call, k # c, call[k].step # "idle", call[k].reexec,
               NEW d \in Rows(row', call[k].task), row'[d].reexec
        PROVE  Live(d)'
    <3>1. CASE row'[d] = row[d]
      BY <2>3, <3>1 DEF AllowanceInv, Rows, Live
    <3>. QED
      BY <2>2, <2>3, <3>1 DEF Rows
  <2>. QED
    BY <2>1, <2>3 DEF AllowanceInv, Rows
<1>5. CASE StartHarness
  BY <1>5, <1>1, HarnessStarted
<1>6. ASSUME NEW e \in Exec, (\E facts \in Fact : Judge(e, facts)) \/ Reap(e) \/ Fail(e)
      PROVE  AllowanceInv'
  <2>1. /\ UNCHANGED call
        /\ \A d \in Exec : d # e => row'[d] = row[d]
        /\ row[e].state # "none" /\ row'[e].task = row[e].task /\ row'[e].reexec = row[e].reexec
    BY <1>6, Moved
  <2>2. Live(e) => Live(e)' \/ MayEnd(e)
    BY <1>6, Moved DEF Judged, Reaped, Failed, Live
  <2>. QED
    BY <2>1, <2>2, <1>1 DEF Live
<1>7. ASSUME NEW e \in Exec, Succeed(e)
      PROVE  AllowanceInv'
  <2>1. PICK s \in [Exec -> Row], D \in SUBSET Exec :
            /\ \A d \in Exec : d # e => SameRow(s[d], row[d])
            /\ s[e].task = row[e].task /\ s[e].reexec = row[e].reexec
            /\ Delete(s, D)
    BY <1>7, Succeeded
  <2>2. row[e].state # "none" /\ (Live(e) => MayEnd(e))
    BY <1>7, Succeeded
  <2>3. \A d \in Exec : row'[d].state # "none" => row'[d] = s[d]
    BY <2>1 DEF Delete, NoRow
  <2>4. \A k \in Call : /\ call'[k].step = call[k].step /\ call'[k].task = call[k].task
                        /\ call'[k].reexec = call[k].reexec
    <3>1. ASSUME NEW k \in Call
          PROVE  /\ call'[k].step = call[k].step /\ call'[k].task = call[k].task
                 /\ call'[k].reexec = call[k].reexec
      <4>1. call[k] \in Create
        BY DEF TypeOK
      <4>2. PICK w : call'[k] = [call[k] EXCEPT !.late = w]
        BY <1>7 DEF Succeed
      <4>. QED
        BY <4>1, <4>2 DEF Create
    <3>. QED
      BY <3>1
  <2>. QED
    BY <2>1, <2>2, <2>3, <2>4, <1>1 DEF Live, SameRow
<1>8. ASSUME NEW p \in Sweeper, SweepReads(p) \/ SweepDeletes(p)
      PROVE  AllowanceInv'
  <2>1. UNCHANGED call
    BY <1>8 DEF SweepReads, SweepDeletes
  <2>2. \A d \in Exec : row'[d].state # "none" => row'[d] = row[d] \/ SameRow(row'[d], row[d])
    BY <1>8, SweepRead DEF SweepDeletes, Delete, NoRow
  <2>. QED
    BY <2>1, <2>2, <1>1 DEF Live, SameRow
<1>9. CASE UNCHANGED vars
  BY <1>9, <1>1 DEF vars, Live
<1>. QED
  BY <1>2, <1>3, <1>4, <1>5, <1>6, <1>7, <1>8, <1>9 DEF Next

(* Of the active rows, only one that succeeds is deleted at once.           *)
LEMMA ActiveDeleted ==
    ASSUME TypeOK, FoundInv, [Next]_vars, NEW e \in Exec, Live(e), row'[e].state = "none"
    PROVE  Succeed(e)
<1>1. row[e].state = "active"
  BY DEF Live
<1>2. ASSUME NEW d \in Exec, Succeed(d), d # e
      PROVE  FALSE
  <2>1. PICK s \in [Exec -> Row], D \in SUBSET Exec :
            /\ D = ToDelete(s, row[d].task, KeepInTx)
            /\ \A x \in Exec : x # d => SameRow(s[x], row[x])
            /\ Delete(s, D)
    BY <1>2, Succeeded
  <2>2. s[e].state = "active"
    BY <1>1, <1>2, <2>1 DEF SameRow
  <2>3. e \notin D
    BY <2>1, <2>2, DeletedHaveEnded
  <2>. QED
    BY <2>1, <2>2, <2>3 DEF Delete
<1>3. ASSUME NEW p \in Sweeper, SweepDeletes(p)
      PROVE  FALSE
  BY <1>1, <1>3 DEF SweepDeletes, Delete, FoundInv
<1>4. ASSUME NEW p \in Sweeper, SweepReads(p)
      PROVE  FALSE
  BY <1>1, <1>4, SweepRead DEF SameRow
<1>5. ASSUME row'[e].state = row[e].state
      PROVE  FALSE
  BY <1>1, <1>5
<1>6. ASSUME NEW c \in Call, Insert(c)
      PROVE  FALSE
  BY <1>1, <1>5, <1>6, Inserted
<1>7. ASSUME NEW c \in Call,
             \/ \E t \in Task, caller \in Caller : Begin(c, t, caller)
             \/ Prepare(c) \/ Stamp(c)
      PROVE  FALSE
  BY <1>5, <1>7, CallSteps
<1>8. CASE StartHarness
  BY <1>5, <1>8, HarnessStarted
<1>9. ASSUME NEW d \in Exec, (\E facts \in Fact : Judge(d, facts)) \/ Reap(d) \/ Fail(d)
      PROVE  FALSE
  BY <1>5, <1>9, Moved
<1>10. CASE UNCHANGED vars
  BY <1>5, <1>10 DEF vars
<1>. QED
  BY <1>2, <1>3, <1>4, <1>6, <1>7, <1>8, <1>9, <1>10 DEF Next

(* What is deleted and does not speak for its task, and neither failed nor  *)
(* lost, is older than what does.                                           *)
LEMMA DeletedAreOlder ==
    ASSUME TypeOK, FoundInv, SweepInv, [Next]_vars,
           NEW t \in Task, NEW d \in Rows(row, t), row'[d].state = "none"
    PROVE  row[d].state = "FAILED" \/ row[d].superseded \/ d < Authoritative(t)'
<1>. SUFFICES ASSUME row[d].state # "FAILED", ~row[d].superseded
              PROVE  d < Authoritative(t)'
  OBVIOUS
<1>1. d \in Exec /\ row[d].task = t /\ row[d].state \in {"active", "SUCCESS"}
  BY DEF Rows, TypeOK, Row
<1>2. \E b \in Exec : d <= b /\ IsTop(row, t, b)'
  <2>1. CASE row[d].state = "active"
    <3>1. Succeed(d)
      BY <1>1, <2>1, ActiveDeleted DEF Live
    <3>. QED
      BY <1>1, <3>1, SucceedAdvances
  <2>2. CASE row[d].state = "SUCCESS"
    <3>1. d \in Candidates(row, t) /\ Candidates(row, t) \in SUBSET Exec
      BY <1>1, <2>2 DEF Candidates, Successes, Rows
    <3>. DEFINE a == Newest(Candidates(row, t))
    <3>2. a \in Exec /\ IsTop(row, t, a) /\ d <= a
      BY <3>1, NewestIs DEF IsTop
    <3>. HIDE DEF a
    <3>3. PICK b \in Exec : a <= b /\ IsTop(row, t, b)'
      BY <3>2, StepAdvances DEF Advanced
    <3>4. d <= b
      BY <1>1, <3>2, <3>3, SelectionAssumption DEF Exec
    <3>. QED
      BY <3>3, <3>4
  <2>. QED
    BY <1>1, <2>1, <2>2
<1>3. PICK b \in Exec : d <= b /\ IsTop(row, t, b)'
  BY <1>2
<1>4. b # d
  BY <1>3 DEF IsTop, Candidates, Successes, Rows
<1>5. Authoritative(t)' = b
  BY <1>3, AuthoritativeIs
<1>. QED
  BY <1>1, <1>3, <1>4, <1>5, SelectionAssumption DEF Exec

(* An orchestrator re-executes a child only when no re-execution of this    *)
(* run epoch is left, however many of its creates were in flight, as long   *)
(* as a row outlasts the creates that were in flight when it was inserted:  *)
(* a re-execution that the cap did not see is still active, and the index   *)
(* turns the other down.  That is not once per run epoch: retention makes   *)
(* the cap forget a re-execution that failed, lost, or is older than what   *)
(* speaks for the child, and by the second half no other.                   *)
THEOREM CapHoldsWhileRemembered ==
    ASSUME "quick" \notin Env
    PROVE  Spec => ReexecutionCapped
<1>. DEFINE CalmInv == raced \/ SweepInv
<1>1. Init => AllowanceInv
  BY DEF Init, AllowanceInv, NoCreate
<1>2. TypeOK /\ AllowanceInv /\ [Next]_vars =>
        (last' # last /\ row'[last'].reexec =>
            \A d \in Rows(row, row'[last'].task) : ~row[d].reexec)
  <2>. SUFFICES ASSUME TypeOK, AllowanceInv, [Next]_vars, last' # last, row'[last'].reexec
                PROVE  \A d \in Rows(row, row'[last'].task) : ~row[d].reexec
    OBVIOUS
  <2>1. PICK c \in Call : Insert(c)
    BY DEF Next, vars, Begin, Prepare, Stamp, StartHarness, Judge, Succeed, Reap, Fail,
           SweepReads, SweepDeletes
  <2>2. /\ ~Active(call[c].task)
        /\ row'[last'].task = call[c].task /\ row'[last'].reexec = call[c].reexec
    BY <2>1, Inserted
  <2>3. call[c].step # "idle"
    BY <2>1 DEF Insert
  <2>. QED
    BY <2>2, <2>3 DEF AllowanceInv, Active
<1>3. TypeOK /\ AllowanceInv /\ [Next]_vars => AllowanceInv'
  BY AllowanceNext
<1>4. TypeOK /\ FoundInv /\ CalmInv /\ [Next]_vars =>
        (~raced' => \A t \in Task : \A d \in Rows(row, t) :
            row[d].reexec /\ row'[d].state = "none" =>
               \/ row[d].state = "FAILED" \/ row[d].superseded
               \/ d < Authoritative(t)')
  BY DeletedAreOlder, RacedStays
<1>5. Init => FoundInv /\ NewestInv /\ WeighedInv /\ CalmInv
  BY SweepInit
<1>6. TypeOK /\ FoundInv /\ WeighedInv /\ CalmInv /\ [Next]_vars => CalmInv'
  BY SweepNext, RacedStays
<1>. HIDE DEF CalmInv
<1>. QED
  BY <1>1, <1>2, <1>3, <1>4, <1>5, <1>6, FoundNext, NewestNext, WeighedNext, TypeInit,
     TypeNext, PTL DEF Spec, ReexecutionCapped

-----------------------------------------------------------------------------
(* What a deletion takes along *)

(* A budget is filled in the retention order: if z overflows, so does what  *)
(* is retained after it.                                                    *)
LEMMA OverflowDownward ==
    ASSUME NEW r \in [Exec -> Row], NEW S \in SUBSET Exec, NEW keep \in Nat,
           NEW z \in Overflow(r, S, keep), NEW b \in S, RetainedBefore(r, z, b)
    PROVE  b \in Overflow(r, S, keep)
<1>. DEFINE Z == {d \in S : RetainedBefore(r, d, z)}
            B == {d \in S : RetainedBefore(r, d, b)}
<1>1. \A d \in Exec : r[d].superseded \in BOOLEAN /\ d \in Nat
  BY SelectionAssumption DEF Row, Exec
<1>2. Z \subseteq B
  <2>. SUFFICES ASSUME NEW d \in S, RetainedBefore(r, d, z)
                PROVE  RetainedBefore(r, d, b)
    OBVIOUS
  <2>1. d \in Nat /\ z \in Nat /\ b \in Nat /\ z \in Exec /\ b \in Exec /\ d \in Exec
    BY <1>1 DEF Overflow
  <2>. QED
    BY <1>1, <2>1 DEF RetainedBefore, Superseded
<1>3. IsFiniteSet(B)
  <2>1. IsFiniteSet(Exec)
    BY SelectionAssumption, FS_Interval DEF Exec
  <2>. QED
    BY <2>1, FS_Subset
<1>4. Cardinality(Z) <= Cardinality(B) /\ IsFiniteSet(Z)
  BY <1>2, <1>3, FS_Subset
<1>5. Cardinality(Z) \in Nat /\ Cardinality(B) \in Nat
  BY <1>3, <1>4, FS_CardinalityType
<1>6. Cardinality(Z) >= keep
  BY DEF Overflow
<1>. HIDE DEF Z, B
<1>7. Cardinality(B) >= keep
  BY <1>4, <1>5, <1>6
<1>. QED
  BY <1>7 DEF Overflow, B

LEMMA FoundTogether ==
    ASSUME TypeOK, NEW z \in Exec, NEW b \in Exec,
           row[z].state = "SUCCESS", row[b].state = "SUCCESS", row[b].task = row[z].task,
           RetainedBefore(row, z, b), z \in Found
    PROVE  b \in Found
<1>1. PICK t \in Task : z \in ToDelete(row, t, KeepDaily)
  BY DEF Found
<1>. DEFINE S == Successes(row, t)
<1>2. z \in Overflow(row, S, KeepDaily) /\ b \in S /\ S \in SUBSET Exec
  BY <1>1 DEF ToDelete, Overflow, Failures, Successes, Rows
<1>3. row \in [Exec -> Row] /\ KeepDaily \in Nat
  BY SelectionAssumption DEF TypeOK
<1>. HIDE DEF S
<1>4. b \in Overflow(row, S, KeepDaily)
  BY <1>2, <1>3, OverflowDownward
<1>. QED
  BY <1>4 DEF ToDelete, Found, S

(* With a candidate a sweeper is after the older candidates of the task.    *)
DoomedInv ==
    \A p \in Sweeper, t \in Task : \A a, b \in Candidates(row, t) :
        b < a /\ a \in doomed[p] => b \in doomed[p]

(* Between two winners the newer is retained first.                         *)
LEMMA CandidatesRetained ==
    ASSUME TypeOK, NEW t, NEW a \in Candidates(row, t), NEW b \in Candidates(row, t), b < a
    PROVE  /\ a \in Exec /\ row[a].state = "SUCCESS" /\ row[a].task = t
           /\ b \in Exec /\ row[b].state = "SUCCESS" /\ row[b].task = t
           /\ RetainedBefore(row, a, b)
<1>1. /\ a \in Exec /\ row[a].state = "SUCCESS" /\ row[a].task = t /\ ~row[a].superseded
      /\ b \in Exec /\ row[b].state = "SUCCESS" /\ row[b].task = t /\ ~row[b].superseded
  BY DEF Candidates, Successes, Rows
<1>2. row[a].superseded \in BOOLEAN /\ row[b].superseded \in BOOLEAN
  BY <1>1 DEF TypeOK, Row
<1>3. a \in Nat /\ b \in Nat
  BY <1>1, SelectionAssumption DEF Exec
<1>. QED
  BY <1>1, <1>2, <1>3 DEF RetainedBefore, Superseded

(* A candidate was one, or joined.                                          *)
LEMMA CandidateFates ==
    ASSUME TypeOK, [Next]_vars, ~raced', NEW t, NEW a \in Candidates(row', t)
    PROVE  /\ a \in Exec /\ row[a].task = t /\ row[a].state # "none"
           /\ (a \in Candidates(row, t) /\ Kept(a)) \/ (Joins(a) /\ Won(a))
<1>1. a \in Exec /\ row'[a].state = "SUCCESS" /\ row'[a].task = t /\ ~row'[a].superseded
  BY DEF Candidates, Successes, Rows
<1>2. Kept(a) \/ Ran(a) \/ Born(a)
  BY <1>1, RowFates
<1>3. CASE Kept(a)
  BY <1>1, <1>3 DEF Kept, Candidates, Successes, Rows
<1>4. CASE Ran(a)
  <2>1. Won(a) /\ row[a].state \in {"active", "FAILED"} /\ row[a].task = t /\ Going(a)
    BY <1>1, <1>4, RanIs DEF Ran
  <2>. QED
    BY <1>1, <2>1 DEF Joins, Live, Unweighed, Won
<1>5. CASE Born(a)
  BY <1>1, <1>5 DEF Born
<1>. QED
  BY <1>1, <1>2, <1>3, <1>4, <1>5

LEMMA DoomedNext ==
    TypeOK /\ FoundInv /\ NewestInv /\ WeighedInv /\ DoomedInv /\ [Next]_vars /\ ~raced'
    => DoomedInv'
<1>. SUFFICES ASSUME TypeOK, FoundInv, NewestInv, WeighedInv, DoomedInv, [Next]_vars, ~raced',
                     NEW p \in Sweeper, NEW t \in Task,
                     NEW a \in Candidates(row', t), NEW b \in Candidates(row', t),
                     b < a, a \in doomed'[p]
              PROVE  b \in doomed'[p]
  <2>1. \A s : Candidates(row, s)' = Candidates(row', s)
    BY DEF Candidates, Successes, Rows
  <2>. QED
    BY <2>1 DEF DoomedInv
<1>1. CASE doomed'[p] = doomed[p]
  <2>1. /\ a \in Exec /\ row[a].task = t /\ row[a].state # "none"
        /\ a \in Candidates(row, t) \/ Joins(a)
        /\ b \in Exec /\ row[b].task = t /\ row[b].state # "none"
        /\ b \in Candidates(row, t) \/ Joins(b)
    BY CandidateFates
  <2>2. a \in Candidates(row, t)
    BY <1>1, <2>1, JoinsUnfound
  <2>3. a \in Nat /\ b \in Nat
    BY <2>1, SelectionAssumption DEF Exec
  <2>4. ~Live(b)
    BY <2>1, <2>3 DEF NewestInv
  <2>5. ~Unweighed(b)
    BY <1>1, <2>1, <2>3 DEF WeighedInv
  <2>. QED
    BY <1>1, <2>1, <2>2, <2>4, <2>5 DEF DoomedInv, Joins
<1>2. CASE doomed'[p] = Found /\ \E q \in Sweeper : SweepReads(q)
  <2>1. \A e \in Exec : /\ row'[e].state = row[e].state /\ row'[e].task = row[e].task
                        /\ row'[e].superseded = row[e].superseded
    BY <1>2, SweepRead DEF SameRow
  <2>2. a \in Candidates(row, t) /\ b \in Candidates(row, t)
    BY <2>1, SameRetention
  <2>. QED
    BY <1>2, <2>2, CandidatesRetained, FoundTogether
<1>. QED
  BY <1>1, <1>2, DoomedFates

(* While an older row is, or may join, the candidates, no deletion takes a  *)
(* newer candidate.                                                         *)
LEMMA NewerStays ==
    ASSUME TypeOK, WeighedInv, DoomedInv, [Next]_vars,
           NEW t \in Task, NEW w \in Candidates(row, t), NEW e \in Exec, e < w,
           row[e].task = t, e \in Candidates(row, t) \/ Unweighed(e),
           e \in Candidates(row', t) \/ Unweighed(e)'
    PROVE  w \in Candidates(row', t) /\ Kept(w)
<1>1. w \in Exec /\ row[w].state = "SUCCESS" /\ row[w].task = t /\ ~row[w].superseded
  BY DEF Candidates, Successes, Rows
<1>2. e \in Nat /\ w \in Nat /\ row'[e].state # "none"
  BY <1>1, SelectionAssumption DEF Exec, Candidates, Successes, Rows, Unweighed
<1>3. ASSUME row'[w].state = row[w].state
      PROVE  row'[w].state # "none"
  BY <1>1, <1>3
<1>4. ASSUME NEW d \in Exec, Succeed(d), row'[w].state = "none"
      PROVE  FALSE
  <2>1. PICK s \in [Exec -> Row], D \in SUBSET Exec :
            /\ D = ToDelete(s, row[d].task, KeepInTx)
            /\ \A x \in Exec : x # d => SameRow(s[x], row[x])
            /\ s[d].state = "SUCCESS" /\ s[d].task = row[d].task
            /\ \A y \in D, x \in Exec :
                  Unweighed(x) /\ x # d /\ y >= x /\ y # d /\ row[y].task = row[x].task
                  => s[x].weighed
            /\ Delete(s, D)
    BY <1>4, Succeeded
  <2>2. w # d
    BY <1>1, <1>4, Succeeded
  <2>3. s[w].state = "SUCCESS" /\ s[w].task = t /\ ~s[w].superseded
    BY <1>1, <2>1, <2>2 DEF SameRow
  <2>4. w \in D
    BY <1>1, <1>4, <2>1, <2>3 DEF Delete
  <2>5. e \notin D /\ row'[e] = s[e]
    BY <1>2, <2>1 DEF Delete, NoRow
  <2>6. CASE e \in Candidates(row', t)
    <3>. DEFINE S == Successes(s, row[d].task)
    <3>1. s[e].state = "SUCCESS" /\ s[e].task = t /\ ~s[e].superseded
      BY <2>5, <2>6 DEF Candidates, Successes, Rows
    <3>2. w \in Overflow(s, S, KeepInTx) /\ w \in S
      BY <2>1, <2>3, <2>4 DEF ToDelete, Overflow, Failures
    <3>3. e \in S /\ S \in SUBSET Exec
      BY <2>3, <3>1, <3>2 DEF Successes, Rows
    <3>4. RetainedBefore(s, w, e)
      BY <1>2, <2>3, <3>1 DEF RetainedBefore, Superseded
    <3>5. KeepInTx \in Nat
      BY SelectionAssumption
    <3>. HIDE DEF S
    <3>6. e \in Overflow(s, S, KeepInTx)
      BY <3>2, <3>3, <3>4, <3>5, OverflowDownward
    <3>7. e \in D
      BY <2>1, <3>6 DEF ToDelete, S
    <3>. QED
      BY <2>5, <3>7
  <2>7. CASE Unweighed(e)'
    <3>1. s[e].state = "FAILED" /\ ~s[e].weighed
      BY <2>5, <2>7 DEF Unweighed
    <3>2. e # d
      BY <2>1, <3>1
    <3>3. row[e].state = "FAILED"
      BY <2>1, <3>1, <3>2 DEF SameRow
    <3>4. Unweighed(e)
      BY <3>3 DEF Candidates, Successes
    <3>5. w >= e
      BY <1>2
    <3>. QED
      BY <1>1, <2>1, <2>2, <2>4, <3>1, <3>2, <3>4, <3>5
  <2>. QED
    BY <2>6, <2>7
<1>5. ASSUME NEW p \in Sweeper, SweepDeletes(p), row'[w].state = "none"
      PROVE  FALSE
  <2>1. w \in doomed[p] /\ (e \in doomed[p] => row'[e].state = "none")
    BY <1>1, <1>5 DEF SweepDeletes, Delete, NoRow
  <2>2. CASE e \in Candidates(row, t)
    BY <1>2, <2>1, <2>2 DEF DoomedInv
  <2>3. CASE Unweighed(e)
    BY <1>1, <1>2, <2>1, <2>3 DEF WeighedInv
  <2>. QED
    BY <2>2, <2>3
<1>6. ASSUME NEW c \in Call, Insert(c)
      PROVE  row'[w].state # "none"
  BY <1>1, <1>3, <1>6, Inserted
<1>7. ASSUME NEW c \in Call,
             \/ \E u \in Task, caller \in Caller : Begin(c, u, caller)
             \/ Prepare(c) \/ Stamp(c)
      PROVE  row'[w].state # "none"
  BY <1>3, <1>7, CallSteps
<1>8. ASSUME StartHarness
      PROVE  row'[w].state # "none"
  BY <1>1, <1>8, HarnessStarted
<1>9. ASSUME NEW d \in Exec, (\E facts \in Fact : Judge(d, facts)) \/ Reap(d) \/ Fail(d)
      PROVE  row'[w].state # "none"
  BY <1>1, <1>9, Moved
<1>10. ASSUME NEW p \in Sweeper, SweepReads(p)
       PROVE  row'[w].state # "none"
  BY <1>1, <1>10, SweepRead DEF SameRow
<1>11. ASSUME UNCHANGED vars
       PROVE  row'[w].state # "none"
  BY <1>3, <1>11 DEF vars
<1>12. row'[w].state # "none"
  BY <1>4, <1>5, <1>6, <1>7, <1>8, <1>9, <1>10, <1>11 DEF Next
<1>13. Old(w)
  BY <1>1 DEF Old, TypeOK
<1>14. Kept(w)
  BY <1>12, <1>13, EndedKept
<1>. QED
  BY <1>1, <1>14 DEF Kept, Candidates, Successes, Rows

-----------------------------------------------------------------------------
(* What is chosen for chaining *)

Picks(r, t) == {e \in Candidates(r, t) : r[e].facts.chars > 0}

IsPick(r, t, a) == a \in Picks(r, t) /\ \A d \in Picks(r, t) : d <= a

LEMMA DeliverableIs ==
    ASSUME NEW r, NEW t
    PROVE  LET n == NewestOrNone(Picks(r, t)) IN
           /\ n \in Exec \cup {0}
           /\ n # 0 => n \in Exec /\ IsPick(r, t, n)
           /\ \A a \in Exec : IsPick(r, t, a) => n = a /\ n # 0
<1>. DEFINE S == Picks(r, t)
            n == NewestOrNone(S)
<1>1. S \in SUBSET Exec
  BY DEF Picks, Candidates, Successes, Rows
<1>2. Exec \subseteq Nat \ {0}
  BY SelectionAssumption DEF Exec
<1>3. CASE S = {}
  BY <1>3 DEF NewestOrNone, IsPick
<1>4. CASE S # {}
  <2>1. n = Newest(S)
    BY <1>4 DEF NewestOrNone
  <2>2. n \in S /\ \A d \in S : d <= n
    BY <1>1, <1>4, <2>1, NewestIs
  <2>. HIDE DEF n
  <2>3. IsPick(r, t, n) /\ n \in Exec
    BY <1>1, <2>2 DEF IsPick
  <2>4. ASSUME NEW a \in Exec, IsPick(r, t, a)
        PROVE  n = a
    <3>1. n <= a /\ a <= n
      BY <2>2, <2>4 DEF IsPick
    <3>. QED
      BY <1>2, <2>3, <3>1
  <2>. QED
    BY <1>2, <2>3, <2>4 DEF n
<1>. QED
  BY <1>3, <1>4

LEMMA DeliverableDef ==
    /\ \A t : Deliverable(t) = NewestOrNone(Picks(row, t))
    /\ \A t : Deliverable(t)' = NewestOrNone(Picks(row', t))
BY DEF Deliverable, Picks, NewestOrNone, Newest, Candidates, Successes, Rows

(* A new pick went on until now: an old one never returns.                  *)
LEMMA PicksStay ==
    ASSUME TypeOK, WeighedInv, DoomedInv, [Next]_vars, ~raced', NEW t \in Task,
           NEW a \in Exec, IsPick(row', t, a), ~Going(a)
    PROVE  Kept(a) /\ IsPick(row, t, a)
<1>1. a \in Candidates(row', t) /\ row'[a].facts.chars > 0
  BY DEF IsPick, Picks
<1>2. ~Joins(a)
  BY DEF Joins, Unweighed, TypeOK
<1>3. a \in Candidates(row, t) /\ Kept(a) /\ row[a].task = t
  BY <1>1, <1>2, CandidateFates
<1>4. a \in Picks(row, t)
  BY <1>1, <1>3 DEF Picks, Kept
<1>5. ASSUME NEW z \in Picks(row, t)
      PROVE  z <= a
  <2>1. z \in Candidates(row, t) /\ z \in Exec /\ row[z].facts.chars > 0
    BY DEF Picks, Candidates, Successes, Rows
  <2>. SUFFICES ASSUME a < z
                PROVE  FALSE
    BY <2>1, SelectionAssumption DEF Exec
  <2>2. z \in Candidates(row', t) /\ Kept(z)
    BY <1>1, <1>3, <2>1, NewerStays
  <2>3. z \in Picks(row', t)
    BY <2>1, <2>2 DEF Kept, Picks
  <2>4. z <= a
    BY <2>3 DEF IsPick
  <2>. QED
    BY <2>1, <2>4, SelectionAssumption DEF Exec
<1>. QED
  BY <1>3, <1>4, <1>5 DEF IsPick

(* What was current input once and is not now never is again.               *)
LEMMA DeliverableStays ==
    ASSUME TypeOK, WeighedInv, DoomedInv, [Next]_vars, ~raced',
           NEW t \in Task, NEW x, Old(x), Deliverable(t)' = x
    PROVE  Deliverable(t) = x /\ Kept(x)
<1>1. x \in Exec /\ x # 0 /\ ~Going(x)
  BY SelectionAssumption DEF Old, Exec
<1>2. IsPick(row', t, x)
  BY <1>1, DeliverableIs, DeliverableDef
<1>3. IsPick(row, t, x) /\ Kept(x)
  BY <1>1, <1>2, PicksStay
<1>. QED
  BY <1>1, <1>3, DeliverableIs, DeliverableDef

LEMMA DeliverableIsOld ==
    ASSUME TypeOK, NEW t, Deliverable(t) # 0
    PROVE  /\ Old(Deliverable(t)) /\ row[Deliverable(t)].task = t
           /\ Deliverable(t) \in Candidates(row, t)
<1>. DEFINE n == Deliverable(t)
<1>1. n \in Exec /\ IsPick(row, t, n)
  BY DeliverableIs, DeliverableDef
<1>. HIDE DEF n
<1>2. n \in Candidates(row, t) /\ row[n].task = t /\ row[n].state = "SUCCESS"
  BY <1>1 DEF IsPick, Picks, Candidates, Successes, Rows
<1>3. Old(n)
  BY <1>1, <1>2 DEF Old, TypeOK
<1>. QED
  BY <1>2, <1>3 DEF n

-----------------------------------------------------------------------------
(* What a step may make of a create in flight *)

(* Only the history may differ.                                             *)
SameCall(c) ==
    /\ call'[c].step = call[c].step /\ call'[c].task = call[c].task
    /\ call'[c].reexec = call[c].reexec /\ call'[c].chained = call[c].chained
    /\ call'[c].target = call[c].target /\ (call[c].late => call'[c].late)

Begun(c) ==
    /\ call'[c].step = "prepare" /\ call'[c].chained = {} /\ call'[c].target = 0
    /\ call'[c].task \in Task /\ ~Active(call'[c].task)
    /\ call'[c].reexec => ~Refused(call'[c].task)

Prepared(c) ==
    /\ call[c].step = "prepare" /\ call'[c].step # "prepare"
    /\ call'[c].chained \in {Chain(call[c].task), {}}
    /\ call'[c].task = call[c].task /\ call'[c].reexec = call[c].reexec
    /\ call'[c].target = call[c].target /\ call'[c].late = call[c].late

Stamped(c) ==
    /\ call[c].step = "stamp" /\ call'[c].step # "prepare"
    /\ call'[c].target \in {Authoritative(call[c].task), 0}
    /\ call'[c].task = call[c].task /\ call'[c].reexec = call[c].reexec
    /\ call'[c].chained = call[c].chained /\ call'[c].late = call[c].late

LEMMA CallFates ==
    ASSUME TypeOK, [Next]_vars, NEW c \in Call, call'[c].step # "idle"
    PROVE  \/ SameCall(c)
           \/ UNCHANGED row /\ (Begun(c) \/ Prepared(c) \/ Stamped(c))
<1>. USE DEF TypeOK
<1>0. call'[c] = call[c] => SameCall(c)
  BY DEF SameCall
<1>1. ASSUME NEW k \in Call, NEW t \in Task, NEW caller \in Caller, Begin(k, t, caller)
      PROVE  call'[c] = call[c] \/ (UNCHANGED row /\ Begun(c))
  <2>. DEFINE x == [NoCreate EXCEPT !.step = "prepare", !.task = t, !.agent = caller # "person",
                                    !.reexec = Reexecution(t, caller)]
  <2>1. call' = [call EXCEPT ![k] = x] /\ ~Active(t) /\ UNCHANGED row
        /\ (Reexecution(t, caller) => ~Refused(t))
    BY <1>1 DEF Begin
  <2>2. /\ x.step = "prepare" /\ x.chained = {} /\ x.target = 0 /\ x.task = t
        /\ x.reexec = Reexecution(t, caller)
    BY DEF NoCreate
  <2>. HIDE DEF x
  <2>3. CASE c = k
    BY <2>1, <2>2, <2>3 DEF Begun
  <2>. QED
    BY <2>1, <2>3
<1>2. ASSUME NEW k \in Call, Prepare(k)
      PROVE  call'[c] = call[c] \/ (UNCHANGED row /\ Prepared(c))
  <2>1. PICK chained \in {Chain(call[k].task), {}} :
            call' = [call EXCEPT ![k].chained = chained,
                                 ![k].step = IF call[k].agent THEN "stamp" ELSE "insert"]
    BY <1>2 DEF Prepare
  <2>. DEFINE x == [call[k] EXCEPT !.chained = chained,
                                   !.step = IF call[k].agent THEN "stamp" ELSE "insert"]
  <2>2. call' = [call EXCEPT ![k] = x]
    BY <2>1
  <2>3. /\ x.chained = chained /\ x.task = call[k].task /\ x.reexec = call[k].reexec
        /\ x.target = call[k].target /\ x.step # "prepare" /\ x.late = call[k].late
    BY DEF Create
  <2>4. UNCHANGED row /\ call[k].step = "prepare"
    BY <1>2 DEF Prepare
  <2>. HIDE DEF x
  <2>5. CASE c = k
    BY <2>1, <2>2, <2>3, <2>4, <2>5 DEF Prepared
  <2>. QED
    BY <2>2, <2>5
<1>3. ASSUME NEW k \in Call, Stamp(k)
      PROVE  call'[c] = call[c] \/ (UNCHANGED row /\ Stamped(c))
  <2>1. PICK target \in {Authoritative(call[k].task), 0} :
            call' = [call EXCEPT ![k].target = target, ![k].step = "insert"]
    BY <1>3 DEF Stamp
  <2>. DEFINE x == [call[k] EXCEPT !.target = target, !.step = "insert"]
  <2>2. call' = [call EXCEPT ![k] = x]
    BY <2>1
  <2>3. /\ x.chained = call[k].chained /\ x.task = call[k].task /\ x.reexec = call[k].reexec
        /\ x.target = target /\ x.step # "prepare" /\ x.late = call[k].late
    BY DEF Create
  <2>4. UNCHANGED row /\ call[k].step = "stamp"
    BY <1>3 DEF Stamp
  <2>. HIDE DEF x
  <2>5. CASE c = k
    BY <2>1, <2>2, <2>3, <2>4, <2>5 DEF Stamped
  <2>. QED
    BY <2>2, <2>5
<1>4. ASSUME NEW k \in Call, Insert(k)
      PROVE  call'[c] = call[c]
  BY <1>4 DEF Insert, Return, NoCreate
<1>5. CASE StartHarness
  BY <1>0, <1>5, HarnessStarted
<1>6. ASSUME NEW e \in Exec, (\E facts \in Fact : Judge(e, facts)) \/ Reap(e) \/ Fail(e)
      PROVE  call' = call
  BY <1>6, Moved
<1>7. ASSUME NEW e \in Exec, Succeed(e)
      PROVE  SameCall(c)
  <2>. DEFINE late == call[c].late \/ (call[c].task = row[e].task /\ ~Live(e))
  <2>1. call'[c] = [call[c] EXCEPT !.late = late]
    BY <1>7 DEF Succeed
  <2>2. call[c].late => late
    OBVIOUS
  <2>. HIDE DEF late
  <2>. QED
    BY <2>1, <2>2 DEF SameCall, Create
<1>8. ASSUME NEW p \in Sweeper, SweepReads(p) \/ SweepDeletes(p)
      PROVE  call' = call
  BY <1>8 DEF SweepReads, SweepDeletes
<1>9. CASE UNCHANGED vars
  BY <1>0, <1>9 DEF vars
<1>. QED
  BY <1>0, <1>1, <1>2, <1>3, <1>4, <1>5, <1>6, <1>7, <1>8, <1>9 DEF Next

(* An execution that a create in flight must meet is still there.           *)
LEMMA ActiveStays ==
    ASSUME "quick" \notin Env, TypeOK, FoundInv, [Next]_vars,
           NEW c \in Call, NEW e \in Exec, Live(e), call[c].task = row[e].task
    PROVE  Live(e)' /\ row'[e].task = row[e].task
<1>1. ~MayEnd(e)
  BY DEF MayEnd
<1>2. row'[e].state # "none"
  BY <1>1, ActiveDeleted, Succeeded
<1>3. Kept(e) \/ Ran(e)
  BY <1>2, RowFates DEF Born, Live
<1>. QED
  BY <1>1, <1>3 DEF Kept, Ran, Judged, Reaped, Failed, Won, Live

(* What was given to executions and creates has ended.                      *)
ChainedInv ==
    /\ \A e \in Exec : row[e].state # "none" => \A x \in row[e].chained : Old(x)
    /\ \A c \in Call : call[c].step # "idle" => \A x \in call[c].chained : Old(x)

LEMMA ChainedNext == TypeOK /\ ChainedInv /\ [Next]_vars => ChainedInv'
<1>. SUFFICES ASSUME TypeOK, ChainedInv, [Next]_vars
              PROVE  ChainedInv'
  OBVIOUS
<1>1. ASSUME NEW e \in Exec, row'[e].state # "none", NEW x \in row'[e].chained
      PROVE  Old(x)'
  <2>1. CASE Kept(e) \/ Ran(e)
    <3>1. row[e].state # "none" /\ row'[e].chained = row[e].chained
      BY <1>1, <2>1, RanIs DEF Kept, Ran
    <3>. QED
      BY <1>1, <3>1, OldStays DEF ChainedInv
  <2>2. CASE Born(e)
    BY <1>1, <2>2, OldStays DEF Born, ChainedInv
  <2>. QED
    BY <1>1, <2>1, <2>2, RowFates
<1>2. ASSUME NEW c \in Call, call'[c].step # "idle", NEW x \in call'[c].chained
      PROVE  Old(x)'
  <2>1. CASE SameCall(c) \/ Stamped(c)
    BY <1>2, <2>1, OldStays DEF SameCall, Stamped, ChainedInv
  <2>2. CASE Begun(c)
    BY <1>2, <2>2 DEF Begun
  <2>3. CASE Prepared(c)
    <3>1. x \in Chain(call[c].task)
      BY <1>2, <2>3 DEF Prepared
    <3>2. PICK p : x = Deliverable(p) /\ x # 0
      BY <3>1 DEF Chain
    <3>. QED
      BY <3>2, DeliverableIsOld, OldStays
  <2>. QED
    BY <1>2, <2>1, <2>2, <2>3, CallFates
<1>. QED
  BY <1>1, <1>2 DEF ChainedInv

-----------------------------------------------------------------------------
(* Old and present input *)

LEMMA InputStays ==
    ASSUME TypeOK, WeighedInv, DoomedInv, [Next]_vars, ~raced', NEW t \in Task, NEW S,
           \A x \in S : Old(x), S = Input(t)'
    PROVE  Input(t) = S
<1>1. Input(t)' = {Deliverable(p)' : p \in Pred[t]}
  BY DEF Input
<1>2. Pred[t] \subseteq Task
  BY SelectionAssumption
<1>3. ASSUME NEW p \in Pred[t]
      PROVE  Deliverable(p) = Deliverable(p)'
  <2>1. Old(Deliverable(p)')
    BY <1>1
  <2>. QED
    BY <1>2, <2>1, DeliverableStays
<1>. QED
  BY <1>1, <1>3, Zenon DEF Input

(* Whatever was created after an execution over the present input was given *)
(* nothing else; a create in flight that will not meet an active execution  *)
(* neither.                                                                 *)
PresentInv ==
    /\ \A t \in Task : \A d, e \in Rows(row, t) :
          d < e /\ OverPresent(d, t) => row[e].chained \subseteq Input(t)
    /\ \A c \in Call : call[c].step # "idle" /\ ~Active(call[c].task) =>
          \A d \in Rows(row, call[c].task) :
             OverPresent(d, call[c].task) => call[c].chained \subseteq Input(call[c].task)

(* It was over the present input before the step if it was there.           *)
LEMMA PresentStays ==
    ASSUME TypeOK, WeighedInv, DoomedInv, ChainedInv, [Next]_vars, ~raced',
           NEW t \in Task, NEW d \in Exec, row'[d].state # "none", row'[d].task = t, OverPresent(d, t)', ~Born(d)
    PROVE  d \in Rows(row, t) /\ OverPresent(d, t) /\ Input(t)' = Input(t)
<1>1. Kept(d) \/ Ran(d)
  BY RowFates
<1>2. d \in Rows(row, t) /\ row'[d].chained = row[d].chained
  BY <1>1, RanIs DEF Kept, Ran, Rows
<1>3. \A x \in row[d].chained : Old(x)
  BY <1>2 DEF ChainedInv, Rows
<1>4. row[d].chained = Input(t)' /\ row[d].chained # {}
  BY <1>2 DEF OverPresent
<1>5. Input(t) = row[d].chained
  BY <1>3, <1>4, InputStays
<1>. QED
  BY <1>2, <1>4, <1>5 DEF OverPresent

(* No create in flight stops meeting an active execution.                   *)
LEMMA MeetsActive ==
    ASSUME "quick" \notin Env, TypeOK, FoundInv, [Next]_vars,
           NEW c \in Call, NEW t, t = call[c].task, Active(t)
    PROVE  Active(t)'
<1>1. PICK e \in Exec : Live(e) /\ row[e].task = t
  BY DEF Active, Rows
<1>2. Live(e)' /\ row'[e].task = t
  BY <1>1, ActiveStays
<1>. QED
  BY <1>2 DEF Active, Rows, Live

LEMMA PresentNext ==
    ASSUME "quick" \notin Env
    PROVE  /\ TypeOK /\ FoundInv /\ WeighedInv /\ DoomedInv /\ ChainedInv /\ PresentInv
           /\ [Next]_vars /\ ~raced'
           => PresentInv'
<1>. SUFFICES ASSUME TypeOK, FoundInv, WeighedInv, DoomedInv, ChainedInv, PresentInv,
                     [Next]_vars, ~raced'
              PROVE  PresentInv'
  OBVIOUS
<1>0. TypeOK'
  BY TypeNext
<1>1. ASSUME NEW t \in Task, NEW d \in Exec, NEW e \in Exec,
             row'[d].state # "none", row'[d].task = t,
             row'[e].state # "none", row'[e].task = t,
             d < e, OverPresent(d, t)'
      PROVE  row'[e].chained \subseteq Input(t)'
  <2>1. ~Born(d)
    BY <1>0, <1>1, SelectionAssumption DEF TypeOK, Born, Exec
  <2>2. d \in Rows(row, t) /\ OverPresent(d, t) /\ Input(t)' = Input(t)
    BY <1>1, <2>1, PresentStays
  <2>3. CASE Kept(e) \/ Ran(e)
    <3>1. e \in Rows(row, t) /\ row'[e].chained = row[e].chained
      BY <1>1, <2>3, RanIs DEF Kept, Ran, Rows
    <3>. QED
      BY <1>1, <2>2, <3>1 DEF PresentInv
  <2>4. CASE Born(e)
    <3>1. PICK c \in Call : /\ call[c].step = "insert" /\ ~Active(call[c].task)
                            /\ call[c].task = t /\ row'[e].chained = call[c].chained
      BY <1>1, <2>4 DEF Born
    <3>. QED
      BY <2>2, <3>1 DEF PresentInv
  <2>. QED
    BY <1>1, <2>3, <2>4, RowFates
<1>2. ASSUME NEW c \in Call, NEW t, t = call'[c].task, call'[c].step # "idle", ~Active(t)',
             NEW d \in Exec, row'[d].state # "none", row'[d].task = t, OverPresent(d, t)'
      PROVE  call'[c].chained \subseteq Input(t)'
  <2>1. t \in Task
    BY <1>0, <1>2 DEF TypeOK
  <2>2. ~Born(d)
    BY <1>2 DEF Born, Active, Rows, Live
  <2>3. d \in Rows(row, t) /\ OverPresent(d, t) /\ Input(t)' = Input(t)
    BY <1>2, <2>1, <2>2, PresentStays
  <2>4. CASE SameCall(c) \/ Stamped(c)
    <3>1. call[c].task = t /\ call[c].step # "idle" /\ call'[c].chained = call[c].chained
      BY <1>2, <2>4 DEF SameCall, Stamped
    <3>2. ~Active(t)
      BY <1>2, <3>1, MeetsActive
    <3>. QED
      BY <2>3, <3>1, <3>2 DEF PresentInv
  <2>5. CASE Begun(c)
    BY <2>5 DEF Begun
  <2>6. CASE Prepared(c)
    <3>1. call'[c].chained \subseteq Chain(t)
      BY <1>2, <2>6 DEF Prepared
    <3>2. Chain(t) \subseteq Input(t)
      BY DEF Chain, Input
    <3>. QED
      BY <2>3, <3>1, <3>2
  <2>. QED
    BY <1>2, <2>4, <2>5, <2>6, CallFates
<1>3. \A t \in Task : \A d, e \in Rows(row', t) :
          d < e /\ OverPresent(d, t)' => row'[e].chained \subseteq Input(t)'
  BY <1>1 DEF Rows
<1>4. ASSUME NEW c \in Call, call'[c].step # "idle", ~Active(call[c].task)',
             NEW d \in Rows(row', call'[c].task), OverPresent(d, call[c].task)'
      PROVE  call'[c].chained \subseteq Input(call[c].task)'
  <2>1. PICK s : s = call'[c].task
    OBVIOUS
  <2>2. ~Active(s)' /\ OverPresent(d, s)'
    BY <1>4, <2>1 DEF Active, OverPresent, Input
  <2>. QED
    BY <1>2, <1>4, <2>1, <2>2 DEF Rows
<1>5. \A t : Rows(row, t)' = Rows(row', t)
  BY DEF Rows
<1>. QED
  BY <1>3, <1>4, <1>5 DEF PresentInv

(* A re-execution of a reviewer that will not meet an active execution is   *)
(* not given what the verdict that counts was given, unless that came in    *)
(* late: nor could it be, until it is, whatever changes in between.         *)
OtherInput(c, e) ==
    IF call[c].step = "prepare" THEN ~CurrentInputs(e) ELSE row[e].chained # call[c].chained

VerdictInv ==
    \A c \in Call, t \in Reviewer :
        /\ call[c].step # "idle" /\ call[c].reexec /\ call[c].task = t /\ ~Active(t)
        /\ Deliverable(t) # 0 /\ row[Deliverable(t)].chained # {} /\ ~call[c].late
        => OtherInput(c, Deliverable(t))

(* A verdict that is given up in favour of none over old input stays so.    *)
LEMMA NotCurrentStays ==
    ASSUME TypeOK, WeighedInv, DoomedInv, [Next]_vars, ~raced',
           NEW e, row'[e].chained = row[e].chained,
           \A x \in row[e].chained : Old(x), row[e].chained # {}, ~CurrentInputs(e)
    PROVE  ~CurrentInputs(e)'
<1>1. PICK x \in row[e].chained : \A p \in Task : Deliverable(p) # x
  BY DEF CurrentInputs
<1>2. \A p \in Task : Deliverable(p)' # x
  BY <1>1, DeliverableStays
<1>3. CurrentInputs(e)' => x \in {Deliverable(p)' : p \in Task}
  BY DEF CurrentInputs
<1>. QED
  BY <1>2, <1>3

LEMMA VerdictNext ==
    ASSUME "quick" \notin Env
    PROVE  /\ TypeOK /\ FoundInv /\ WeighedInv /\ DoomedInv /\ ChainedInv /\ VerdictInv
           /\ [Next]_vars /\ ~raced'
           => VerdictInv'
<1>. SUFFICES ASSUME TypeOK, FoundInv, WeighedInv, DoomedInv, ChainedInv, VerdictInv,
                     [Next]_vars, ~raced', NEW c \in Call, NEW t \in Reviewer,
                     call'[c].step # "idle", call'[c].reexec, call'[c].task = t, ~Active(t)',
                     ~call'[c].late, NEW e, e = Deliverable(t)', e # 0, row'[e].chained # {}
              PROVE  OtherInput(c, e)'
  BY DEF VerdictInv, OtherInput, CurrentInputs
<1>1. t \in Task
  BY SelectionAssumption
<1>2. e \in Exec /\ row'[e].task = t /\ row'[e].state = "SUCCESS"
  <2>1. e \in Exec /\ IsPick(row', t, e)
    BY DeliverableIs, DeliverableDef
  <2>. QED
    BY <2>1 DEF IsPick, Picks, Candidates, Successes, Rows
<1>3. ASSUME ~Active(t), call[c].task = t \/ UNCHANGED row
      PROVE  /\ e = Deliverable(t) /\ row'[e].chained = row[e].chained
             /\ \A x \in row[e].chained : Old(x)
  <2>1. row[e].state # "none" /\ row[e].task = t /\ (Kept(e) \/ Won(e))
    BY <1>2, RowFates, RanIs DEF Kept, Ran, Born
  <2>2. ~Live(e)
    BY <1>2, <1>3, <2>1 DEF Active, Rows
  <2>3. ~Going(e)
    BY <1>2, <1>3, <2>1, <2>2 DEF Kept, Won, TypeOK, Going
  <2>4. Old(e)
    BY <1>2, <2>1, <2>3 DEF Old, TypeOK
  <2>5. Deliverable(t) = e /\ Kept(e)
    BY <1>1, <2>4, DeliverableStays
  <2>. QED
    BY <1>2, <2>1, <2>5 DEF Kept, ChainedInv
<1>4. CASE SameCall(c) \/ Stamped(c)
  <2>1. /\ call[c].task = t /\ call[c].step # "idle" /\ call[c].reexec /\ ~call[c].late
        /\ call'[c].chained = call[c].chained
        /\ call'[c].step = "prepare" => call[c].step = "prepare"
        /\ call[c].step = "prepare" => call'[c].step = "prepare"
    BY <1>4 DEF SameCall, Stamped
  <2>2. ~Active(t)
    BY <2>1, MeetsActive
  <2>3. e = Deliverable(t) /\ row'[e].chained = row[e].chained /\ \A x \in row[e].chained : Old(x)
    BY <1>3, <2>1, <2>2
  <2>4. OtherInput(c, e)
    BY <2>1, <2>2, <2>3 DEF VerdictInv
  <2>. QED
    BY <2>1, <2>3, <2>4, NotCurrentStays DEF OtherInput
<1>5. CASE UNCHANGED row /\ Begun(c)
  <2>1. ~Active(t) /\ ~SameInput(t) /\ call'[c].step = "prepare"
    BY <1>5 DEF Begun, Refused
  <2>2. ~CurrentInputs(e)
    BY <1>3, <1>5, <2>1 DEF SameInput
  <2>. QED
    BY <1>3, <1>5, <2>1, <2>2, NotCurrentStays DEF OtherInput
<1>6. CASE UNCHANGED row /\ Prepared(c)
  <2>1. /\ call[c].task = t /\ call[c].step = "prepare" /\ call[c].reexec /\ ~call[c].late
        /\ call'[c].chained \in {Chain(t), {}} /\ call'[c].step # "prepare"
    BY <1>6 DEF Prepared
  <2>2. ~Active(t)
    BY <2>1, MeetsActive
  <2>3. ~CurrentInputs(e) /\ row[e].chained # {}
    BY <1>3, <2>1, <2>2 DEF VerdictInv, OtherInput
  <2>4. Chain(t) \subseteq {Deliverable(p) : p \in Task}
    BY <1>1, SelectionAssumption DEF Chain
  <2>5. row[e].chained # call'[c].chained
    BY <2>1, <2>3, <2>4 DEF CurrentInputs
  <2>. QED
    BY <1>3, <2>1, <2>2, <2>5 DEF OtherInput
<1>. QED
  BY <1>4, <1>5, <1>6, CallFates

LEMMA LaterInit == Init => DoomedInv /\ ChainedInv /\ PresentInv /\ VerdictInv
<1>. SUFFICES ASSUME Init
              PROVE  DoomedInv /\ ChainedInv /\ PresentInv /\ VerdictInv
  OBVIOUS
<1>1. /\ \A e \in Exec : row[e].state = "none"
      /\ \A c \in Call : call[c].step = "idle"
  BY DEF Init, NoRow, NoCreate
<1>. QED
  BY <1>1 DEF Init, DoomedInv, ChainedInv, PresentInv, VerdictInv, Rows

(* An orchestrator never has a reviewer judge again what the verdict that   *)
(* counts was given, although the predecessors are read again after the     *)
(* check, as long as a row outlasts the creates that were in flight when it *)
(* was inserted: what was not current input when the create was admitted    *)
(* does not become it again, and with a new verdict the index turns the     *)
(* create down.  Except when the new verdict is of a run whose row was      *)
(* FAILED, which the index does not see (late), or when one succeeded that  *)
(* retention had weighed, and an old input may have come back (raced).      *)
THEOREM VerdictNotRepeated ==
    ASSUME "quick" \notin Env
    PROVE  Spec => NoVerdictRepeated
<1>. DEFINE CalmInv == raced \/ (DoomedInv /\ VerdictInv)
            Fresh == \A c \in Call :
              Insert(c) /\ last' # last /\ call[c].reexec /\ call[c].task \in Reviewer =>
                LET e == Deliverable(call[c].task) IN
                e # 0 /\ row[e].chained # {} /\ ~call[c].late /\ ~raced
                  => row'[last'].chained # row[e].chained
<1>1. TypeOK /\ CalmInv => Fresh
  <2>. SUFFICES ASSUME TypeOK, VerdictInv, NEW c \in Call, Insert(c), last' # last,
                       call[c].reexec, NEW t \in Reviewer, t = call[c].task,
                       Deliverable(t) # 0, row[Deliverable(t)].chained # {}, ~call[c].late
                PROVE  row'[last'].chained # row[Deliverable(t)].chained
    OBVIOUS
  <2>1. ~Active(t) /\ row'[last'].chained = call[c].chained
    BY Inserted
  <2>2. call[c].step = "insert"
    BY DEF Insert
  <2>. QED
    BY <2>1, <2>2 DEF VerdictInv, OtherInput
<1>2. Init => FoundInv /\ NewestInv /\ WeighedInv /\ ChainedInv /\ CalmInv
  BY SweepInit, LaterInit
<1>3. /\ TypeOK /\ FoundInv /\ NewestInv /\ WeighedInv /\ ChainedInv /\ CalmInv /\ [Next]_vars
      => CalmInv'
  BY VerdictNext, DoomedNext, RacedStays
<1>. HIDE DEF CalmInv
<1>4. NoVerdictRepeated <=> [][Fresh]_vars
  BY PTL DEF NoVerdictRepeated
<1>. HIDE DEF Fresh
<1>. QED
  BY <1>1, <1>2, <1>3, <1>4, FoundNext, NewestNext, WeighedNext, ChainedNext, TypeInit,
     TypeNext, PTL DEF Spec

-----------------------------------------------------------------------------
(* What a retry is compared with *)

(* A run, or a create, would replace a winner of its task: if that is still *)
(* there, it is one still.                                                  *)
TargetOf(a, t) == Old(a) /\ (row[a].state = "none" \/ a \in Candidates(row, t))

TargetInv ==
    /\ \A e, a \in Exec, t \in Task :
          Going(e) /\ row[e].target = a /\ row[e].task = t => TargetOf(a, t)
    /\ \A c \in Call, a \in Exec, t \in Task :
          call[c].step # "idle" /\ call[c].target = a /\ call[c].task = t => TargetOf(a, t)

LEMMA TargetStays ==
    ASSUME TypeOK, [Next]_vars, NEW a, NEW t, TargetOf(a, t)
    PROVE  TargetOf(a, t)'
<1>1. Old(a) /\ Old(a)'
  BY OldStays DEF TargetOf
<1>2. ASSUME row'[a].state # "none"
      PROVE  a \in Candidates(row, t)'
  <2>1. Kept(a)
    BY <1>1, <1>2, EndedKept
  <2>. QED
    BY <1>2, <2>1 DEF TargetOf, Kept, Candidates, Successes, Rows
<1>. QED
  BY <1>1, <1>2 DEF TargetOf

LEMMA TargetNext == TypeOK /\ TargetInv /\ [Next]_vars => TargetInv'
<1>. SUFFICES ASSUME TypeOK, TargetInv, [Next]_vars
              PROVE  TargetInv'
  OBVIOUS
<1>1. ASSUME NEW a, NEW t, TargetOf(a, t)
      PROVE  TargetOf(a, t)'
  BY <1>1, TargetStays
<1>2. ASSUME NEW e \in Exec, Going(e)', NEW a \in Exec, row'[e].target = a,
             NEW t \in Task, row'[e].task = t
      PROVE  TargetOf(a, t)'
  <2>1. row'[e].state # "none"
    BY <1>2, TypeNext DEF TypeOK
  <2>2. CASE Kept(e)
    BY <1>1, <1>2, <2>2 DEF Kept, Going, TargetInv
  <2>3. CASE Ran(e)
    <3>1. Going(e) /\ row[e].target = a /\ row[e].task = t
      BY <1>2, <2>3 DEF Ran, Judged, Reaped, Failed, Won, Going
    <3>. QED
      BY <1>1, <1>2, <3>1 DEF TargetInv
  <2>4. CASE Born(e)
    BY <1>1, <1>2, <2>4 DEF Born, TargetInv
  <2>. QED
    BY <2>1, <2>2, <2>3, <2>4, RowFates
<1>3. ASSUME NEW c \in Call, call'[c].step # "idle", NEW a \in Exec, call'[c].target = a,
             NEW t \in Task, call'[c].task = t
      PROVE  TargetOf(a, t)'
  <2>1. CASE SameCall(c) \/ Prepared(c)
    BY <1>1, <1>3, <2>1 DEF SameCall, Prepared, TargetInv
  <2>2. CASE Begun(c)
    BY <1>3, <2>2, SelectionAssumption DEF Begun, Exec
  <2>3. CASE Stamped(c)
    <3>1. a = Authoritative(t) /\ a # 0
      BY <1>3, <2>3, SelectionAssumption DEF Stamped, Exec
    <3>2. IsTop(row, t, a)
      BY <1>3, <3>1, PickIs DEF Authoritative
    <3>3. a \in Candidates(row, t)
      BY <3>2 DEF IsTop
    <3>4. a \in Exec /\ row[a].state = "SUCCESS"
      BY <3>3 DEF Candidates, Successes, Rows
    <3>5. Old(a)
      BY <3>4 DEF Old, TypeOK
    <3>. QED
      BY <1>1, <3>3, <3>5 DEF TargetOf
  <2>. QED
    BY <1>3, <2>1, <2>2, <2>3, CallFates
<1>. QED
  BY <1>2, <1>3 DEF TargetInv

-----------------------------------------------------------------------------
(* What a superseded verdict lost to *)

(* Of a verdict that lost over the present input, an older one that counts, *)
(* or may come to, has an input that is current, or a newer one that counts *)
(* is over the present input.                                               *)
LoserInv ==
    \A t \in Reviewer : \A d, e \in Rows(row, t) :
        /\ row[d].superseded /\ OverPresent(d, t)
        /\ e < d /\ (e \in Candidates(row, t) \/ Unweighed(e))
        => \/ row[e].chained \subseteq Input(t)
           \/ \E w \in Candidates(row, t) : e < w /\ OverPresent(w, t)

(* A verdict lost over an input that is known, to one over the same input.  *)
LEMMA LosesToWinner ==
    ASSUME TypeOK, TargetInv, NEW t \in Reviewer, NEW d \in Exec, row[d].task = t, Going(d),
           NEW facts, Loses(d, facts)
    PROVE  \E a \in Candidates(row, t) :
              row[d].chained # {} /\ row[a].chained = row[d].chained
<1>1. t \in Task
  BY SelectionAssumption
<1>2. row[d].target \in Exec \cup {0}
  BY DEF TypeOK, Row
<1>3. PICK a \in Exec : a = row[d].target
  BY <1>2 DEF Loses
<1>4. row[a].state = "SUCCESS" /\ row[d].chained # {} /\ row[a].chained = row[d].chained
  BY <1>3 DEF Loses
<1>5. a \in Candidates(row, t)
  BY <1>1, <1>3, <1>4 DEF TargetInv, TargetOf
<1>. QED
  BY <1>4, <1>5

LEMMA LoserNext ==
    /\ TypeOK /\ NewestInv /\ WeighedInv /\ DoomedInv /\ ChainedInv /\ PresentInv
    /\ TargetInv /\ LoserInv /\ [Next]_vars /\ ~raced'
    => LoserInv'
<1>. SUFFICES ASSUME TypeOK, NewestInv, WeighedInv, DoomedInv, ChainedInv, PresentInv,
                     TargetInv, LoserInv, [Next]_vars, ~raced', NEW t \in Reviewer,
                     NEW d \in Rows(row', t), NEW e \in Rows(row', t),
                     row'[d].superseded, OverPresent(d, t)', e < d,
                     e \in Candidates(row', t) \/ Unweighed(e)',
                     ~(row'[e].chained \subseteq Input(t)')
              PROVE  \E w \in Candidates(row', t) : e < w /\ OverPresent(w, t)'
  <2>1. \A s : Rows(row, s)' = Rows(row', s) /\ Candidates(row, s)' = Candidates(row', s)
    BY DEF Candidates, Successes, Rows
  <2>. QED
    BY <2>1 DEF LoserInv
<1>1. /\ d \in Exec /\ row'[d].task = t /\ row'[d].state # "none"
      /\ e \in Exec /\ row'[e].task = t /\ row'[e].state # "none"
      /\ d \in Nat /\ e \in Nat /\ t \in Task
  BY SelectionAssumption DEF Rows, Exec
<1>2. ~Born(d)
  BY DEF Born
<1>3. d \in Rows(row, t) /\ OverPresent(d, t) /\ Input(t)' = Input(t)
  BY <1>1, <1>2, PresentStays
<1>4. e \in Rows(row, t) /\ row[e].task = t /\ (e \in Candidates(row, t) \/ Unweighed(e))
  <2>1. row[e].task = t /\ row[e].state # "none" /\ (e \in Candidates(row, t) \/ Joins(e))
    <3>1. CASE e \in Candidates(row', t)
      BY <3>1, CandidateFates
    <3>2. CASE Unweighed(e)'
      BY <1>1, <3>2, UnweighedBefore DEF Joins, Unweighed, Live
    <3>. QED
      BY <3>1, <3>2
  <2>2. ~Live(e)
    BY <1>1, <1>3, <2>1 DEF NewestInv, Rows
  <2>. QED
    BY <1>1, <2>1, <2>2 DEF Joins, Rows
<1>5. row'[e].chained = row[e].chained
  BY <1>1, <1>4, RowFates DEF Kept, Ran, Born, Rows
<1>6. ~(row[e].chained \subseteq Input(t))
  BY <1>3, <1>5
<1>7. SUFFICES \E w \in Candidates(row, t) : e < w /\ OverPresent(w, t)
  <2>1. PICK w \in Candidates(row, t) : e < w /\ OverPresent(w, t)
    BY <1>7
  <2>2. w \in Candidates(row', t) /\ Kept(w)
    BY <1>1, <1>4, <2>1, NewerStays
  <2>3. OverPresent(w, t)'
    BY <1>3, <2>1, <2>2 DEF Kept, OverPresent
  <2>. QED
    BY <2>1, <2>2, <2>3
<1>8. CASE row[d].superseded
  BY <1>3, <1>4, <1>6, <1>8 DEF LoserInv
<1>9. CASE ~row[d].superseded
  <2>1. Kept(d) \/ Ran(d)
    BY <1>1, <1>2, RowFates
  <2>2. Going(d) /\ row[d].task = t /\ \E facts : Loses(d, facts)
    BY <1>1, <1>9, <2>1 DEF Kept, Ran, Judged, Reaped, Failed, Won
  <2>3. PICK a \in Candidates(row, t) : row[d].chained # {} /\ row[a].chained = row[d].chained
    BY <1>1, <2>2, LosesToWinner
  <2>4. a \in Rows(row, t) /\ OverPresent(a, t)
    BY <1>3, <2>3 DEF OverPresent, Candidates, Successes
  <2>5. ~(a < e) /\ a # e
    BY <1>1, <1>4, <1>6, <2>4 DEF PresentInv, OverPresent
  <2>6. e < a
    BY <1>1, <2>4, <2>5, SelectionAssumption DEF Rows, Exec
  <2>. QED
    BY <2>3, <2>4, <2>6
<1>. QED
  BY <1>8, <1>9

(* An old verdict over an old input never speaks for a reviewer once there  *)
(* is one over the present input with a deliverable, truncated or not, as   *)
(* long as a row outlasts the creates that were in flight when it was       *)
(* inserted.  What is newer than the present one was given nothing but the  *)
(* present input; what is older counts only if the present one lost, and    *)
(* then it lost over that same input, to one that counts.  The runs that    *)
(* succeed although their row is FAILED change nothing of that, until one   *)
(* succeeds that retention had weighed.                                     *)
THEOREM OldVerdictIsSilent ==
    ASSUME "quick" \notin Env
    PROVE  Spec => []StaleVerdictIsSilent
<1>. DEFINE CalmInv == raced \/ (DoomedInv /\ PresentInv /\ LoserInv)
<1>1. TypeOK /\ CalmInv => StaleVerdictIsSilent
  <2>. SUFFICES ASSUME TypeOK, PresentInv, LoserInv, NEW t \in Reviewer, NEW e,
                       e = Deliverable(t), e # 0, row[e].chained # {},
                       NEW d \in Successes(row, t), OverPresent(d, t),
                       \A x \in Successes(row, t) : OverPresent(x, t) => row[x].facts.chars > 0
                PROVE  CurrentInputs(e)
    BY DEF StaleVerdictIsSilent
  <2>1. t \in Task /\ Pred[t] \subseteq Task
    BY SelectionAssumption
  <2>2. e \in Exec /\ IsPick(row, t, e)
    BY DeliverableIs, DeliverableDef
  <2>3. e \in Candidates(row, t) /\ e \in Rows(row, t) /\ d \in Rows(row, t)
    BY <2>2 DEF IsPick, Picks, Candidates, Successes
  <2>4. ASSUME NEW w \in Candidates(row, t), OverPresent(w, t)
        PROVE  w <= e
    <3>1. w \in Picks(row, t)
      BY <2>4 DEF Candidates, Picks
    <3>. QED
      BY <2>2, <3>1 DEF IsPick
  <2>5. d \in Nat /\ e \in Nat /\ Candidates(row, t) \subseteq Nat
    BY <2>3, SelectionAssumption DEF Rows, Candidates, Successes, Exec
  <2>6. row[e].chained \subseteq Input(t)
    <3>1. CASE d = e
      BY <3>1 DEF OverPresent
    <3>2. CASE d < e
      BY <2>1, <2>3, <3>2 DEF PresentInv
    <3>3. CASE e < d
      <4>1. d \notin Candidates(row, t)
        BY <2>4, <2>5, <3>3
      <4>2. row[d].superseded
        BY <4>1 DEF Candidates
      <4>3. \A w \in Candidates(row, t) : OverPresent(w, t) => ~(e < w)
        BY <2>4, <2>5
      <4>. QED
        BY <2>3, <3>3, <4>2, <4>3 DEF LoserInv
    <3>. QED
      BY <2>5, <3>1, <3>2, <3>3
  <2>7. Input(t) \subseteq {Deliverable(p) : p \in Task}
    BY <2>1 DEF Input
  <2>. QED
    BY <2>6, <2>7 DEF CurrentInputs
<1>2. Init => FoundInv /\ NewestInv /\ WeighedInv /\ ChainedInv /\ TargetInv /\ CalmInv
  <2>1. Init => TargetInv /\ LoserInv
    BY DEF Init, TargetInv, LoserInv, Rows, Going, NoRow, NoCreate
  <2>. QED
    BY <2>1, SweepInit, LaterInit
<1>3. TypeOK /\ FoundInv /\ NewestInv /\ WeighedInv /\ ChainedInv /\ TargetInv /\ CalmInv
      /\ [Next]_vars => CalmInv'
  BY DoomedNext, PresentNext, LoserNext, RacedStays
<1>. HIDE DEF CalmInv
<1>. QED
  BY <1>1, <1>2, <1>3, FoundNext, NewestNext, WeighedNext, ChainedNext, TargetNext, TypeInit,
     TypeNext, PTL DEF Spec
=============================================================================
