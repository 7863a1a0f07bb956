---------------------------- MODULE EventPoolProofs ----------------------------
(***************************************************************************)
(* What holds of EventPool for every number of systems, sessions and       *)
(* faults: types, the consumers' flags, and that a registered system is    *)
(* LISTENed for unless a reconnect is due or under way.                    *)
(***************************************************************************)
EXTENDS EventPool, WellFoundedInduction, TLAPS

(* Which steps a flow takes, and what its fields point at                   *)
FlowInv ==
    /\ \A s \in System :
          /\ flow[s].step \in {"idle", "wait", "ready", "listen"}
          /\ flow[s].step # "idle" => Registered(s) /\ consumer[s].stage # "in"
    /\ \A c \in Session : flow[c].step \in {"idle", "verify", "connect", "listen"}
    /\ \A f \in System \cup Session : flow[f].step = "listen" =>
          flow[f].via \in Session /\ flow[f].at \in 1..Len(systems)

(* The flags are right, and only registered systems have them.              *)
FlagInv ==
    \A s \in System :
        /\ consumer[s].stage # "new" \/ consumer[s].flag => Registered(s)
        /\ consumer[s].flag => connected
        /\ consumer[s].stage = "in" /\ connected => consumer[s].flag

(* listeningChannels holds what some live session LISTENs for.              *)
ListeningInv == \A s \in listening : Heard(s)

(* f will still see to position j: it has not come to it, or it fails.      *)
Pending(f, j) ==
    \/ flow[f].step \in {"wait", "ready", "verify", "connect"}
    \/ flow[f].step = "listen" /\ (flow[f].at <= j \/ flow[f].failed)

(* A registration that was told that it failed, and has not been retried    *)
GivenUp(s) == consumer[s].stage = "failed" /\ flow[s].step = "idle"

(* Every entry of the map is listened for, or someone will see to it, or    *)
(* its consumer was told that it failed.                                    *)
Covered(j) ==
    \/ systems[j] \in listening
    \/ reconnecting
    \/ \E c \in Session : Pending(c, j)
    \/ Pending(systems[j], j)
    \/ GivenUp(systems[j])

CoverInv == \A j \in 1..Len(systems) : Covered(j)

Typed == TypeOK /\ FlowInv

IInv == Typed /\ FlagInv /\ ListeningInv /\ CoverInv

-----------------------------------------------------------------------------
(* Helpers *)

(* A nonempty set of naturals has a least element.                          *)
LEMMA LeastIs ==
    ASSUME NEW S \in SUBSET Nat, S # {}
    PROVE  Least(S) \in S /\ \A j \in S : Least(S) <= j
<1>1. PICK m \in S : \A k \in S : <<k, m>> \notin OpToRel(<, Nat)
  BY WFMin, NatLessThanWellFounded, Zenon
<1>2. \A k \in S : ~(k < m)
  BY <1>1, Zenon DEF OpToRel
<1>3. m \in S /\ \A k \in S : m <= k
  BY <1>2, SMT
<1>. QED
  BY <1>3, Zenon DEF Least

(* The map after registerEventSystem's set: it keeps its entries in their   *)
(* places, holds s, and holds nothing twice.                                *)
LEMMA AddedIs ==
    ASSUME TypeOK, NEW s \in System, systems' = Added(s)
    PROVE  /\ systems' \in Seq(System)
           /\ \A i, j \in 1..Len(systems') : systems'[i] = systems'[j] => i = j
           /\ Len(systems) <= Len(systems')
           /\ Len(systems) \in Nat /\ Len(systems') \in Nat
           /\ \A i \in 1..Len(systems) : systems'[i] = systems[i]
           /\ \A i \in 1..Len(systems') : i > Len(systems) => systems'[i] = s
           /\ Registered(s)'
           /\ \A t \in System : Registered(t) => Registered(t)'
<1>1. CASE Registered(s)
  BY <1>1 DEF Added, TypeOK, Registered
<1>2. CASE ~Registered(s)
  <2>1. systems' = Append(systems, s) /\ systems \in Seq(System)
    BY <1>2 DEF Added, TypeOK
  <2>2. /\ Len(systems') = Len(systems) + 1 /\ Len(systems) \in Nat
        /\ systems' \in Seq(System)
        /\ \A i \in 1..Len(systems) : systems'[i] = systems[i]
        /\ systems'[Len(systems) + 1] = s
    BY <2>1
  <2>3. \A i \in 1..Len(systems) : systems[i] # s
    BY <1>2 DEF Registered
  <2>4. \A i \in 1..Len(systems') : i \in 1..Len(systems) \/ i = Len(systems) + 1
    BY <2>2
  <2>5. \A i, j \in 1..Len(systems') : systems'[i] = systems'[j] => i = j
    BY <2>2, <2>3, <2>4 DEF TypeOK
  <2>6. \A t \in System : Registered(t) => Registered(t)'
    BY <2>2 DEF Registered
  <2>7. Registered(s)'
    BY <2>2 DEF Registered
  <2>. QED
    BY <2>2, <2>4, <2>5, <2>6, <2>7
<1>. QED
  BY <1>1, <1>2

(* What the consumers know once they were told v                            *)
ToldOne(s, v) ==
    /\ consumer'[s].stage = consumer[s].stage
    /\ Registered(s) => consumer'[s].flag = v
    /\ ~Registered(s) => consumer'[s] = consumer[s]

Told(v) ==
    /\ consumer' \in [System -> ConsumerState]
    /\ \A s \in System : ToldOne(s, v)

LEMMA FlagSet ==
    ASSUME NEW x \in ConsumerState, NEW v \in BOOLEAN
    PROVE  LET y == [x EXCEPT !.flag = v]
           IN  y \in ConsumerState /\ y.stage = x.stage /\ y.flag = v
<1>1. [x EXCEPT !.flag = v] = [stage |-> x.stage, flag |-> v, attached |-> x.attached]
  BY DEF ConsumerState
<1>. QED
  BY <1>1 DEF ConsumerState

LEMMA NotifyIs ==
    ASSUME consumer \in [System -> ConsumerState]
    PROVE  (Notify(TRUE) => Told(TRUE)) /\ (Notify(FALSE) => Told(FALSE))
<1>1. ASSUME Notify(TRUE)
     PROVE  Told(TRUE)
  <2>1. ASSUME NEW s \in System
        PROVE  /\ consumer'[s] \in ConsumerState
               /\ consumer'[s].stage = consumer[s].stage
               /\ Registered(s) => consumer'[s].flag = TRUE
               /\ ~Registered(s) => consumer'[s] = consumer[s]
    <3>1. consumer'[s] = IF Registered(s) THEN [consumer[s] EXCEPT !.flag = TRUE]
                         ELSE consumer[s]
      BY <1>1 DEF Notify
    <3>2. consumer[s] \in ConsumerState
      OBVIOUS
    <3>3. LET y == [consumer[s] EXCEPT !.flag = TRUE]
          IN  y \in ConsumerState /\ y.stage = consumer[s].stage /\ y.flag = TRUE
      BY <3>2, FlagSet
    <3>. QED
      BY <3>1, <3>2, <3>3
  <2>2. consumer' = [s \in System |-> consumer'[s]]
    BY <1>1 DEF Notify
  <2>. QED
    BY <2>1, <2>2 DEF Told, ToldOne
<1>2. ASSUME Notify(FALSE)
     PROVE  Told(FALSE)
  <2>1. ASSUME NEW s \in System
        PROVE  /\ consumer'[s] \in ConsumerState
               /\ consumer'[s].stage = consumer[s].stage
               /\ Registered(s) => consumer'[s].flag = FALSE
               /\ ~Registered(s) => consumer'[s] = consumer[s]
    <3>1. consumer'[s] = IF Registered(s) THEN [consumer[s] EXCEPT !.flag = FALSE]
                         ELSE consumer[s]
      BY <1>2 DEF Notify
    <3>2. consumer[s] \in ConsumerState
      OBVIOUS
    <3>3. LET y == [consumer[s] EXCEPT !.flag = FALSE]
          IN  y \in ConsumerState /\ y.stage = consumer[s].stage /\ y.flag = FALSE
      BY <3>2, FlagSet
    <3>. QED
      BY <3>1, <3>2, <3>3
  <2>2. consumer' = [s \in System |-> consumer'[s]]
    BY <1>2 DEF Notify
  <2>. QED
    BY <2>1, <2>2 DEF Told, ToldOne
<1>. QED
  BY <1>1, <1>2

(* Ended leaves the other flows alone, but for who awaited f.               *)
LEMMA EndedIs ==
    ASSUME flow \in [System \cup Session -> Flow], NEW c \in Session,
           flow' = Ended(c)
    PROVE  /\ flow' \in [System \cup Session -> Flow]
           /\ flow'[c] = NoFlow
           /\ \A f \in System \cup Session : f # c =>
                 \/ flow'[f] = flow[f] /\ (c = promise => flow[f].step # "wait")
                 \/ /\ c = promise /\ flow[f].step = "wait"
                    /\ flow'[f].step = "ready"
<1>1. ASSUME NEW f \in System \cup Session
      PROVE  [flow[f] EXCEPT !.step = "ready"] =
               [step |-> "ready", via |-> flow[f].via, at |-> flow[f].at,
                failed |-> flow[f].failed]
  <2>1. flow[f] \in Flow
    OBVIOUS
  <2>. QED
    BY <2>1 DEF Flow
<1>2. ASSUME NEW f \in System \cup Session
      PROVE  /\ flow'[f] \in Flow
             /\ f = c => flow'[f] = NoFlow
             /\ f # c =>
                 \/ flow'[f] = flow[f] /\ (c = promise => flow[f].step # "wait")
                 \/ /\ c = promise /\ flow[f].step = "wait"
                    /\ flow'[f].step = "ready"
  <2>1. flow[f] \in Flow
    OBVIOUS
  <2>2. flow'[f] = IF f = c THEN NoFlow
                   ELSE IF c = promise /\ flow[f].step = "wait"
                        THEN [flow[f] EXCEPT !.step = "ready"] ELSE flow[f]
    BY DEF Ended
  <2>. QED
    BY <2>1, <2>2, <1>1 DEF Flow, NoFlow
<1>3. flow' = [f \in System \cup Session |-> flow'[f]]
  BY DEF Ended
<1>. QED
  BY <1>2, <1>3

(* A new session is one that nothing refers to.                             *)
LEMMA FreshIs ==
    ASSUME Free # {}
    PROVE  /\ Fresh \in Session /\ session[Fresh].state = "down"
           /\ flow[Fresh].step = "idle" /\ Fresh # promise
BY DEF Fresh, Free, Attempting

-----------------------------------------------------------------------------
(* Types *)

(* Initially everything has its type.                                       *)
LEMMA TypedInit == Init => Typed
<1>. SUFFICES ASSUME Init PROVE Typed
  OBVIOUS
<1>1. Len(systems) = 0 /\ systems \in Seq(System)
  BY DEF Init
<1>2. flow \in [System \cup Session -> Flow]
      /\ \A f \in System \cup Session : flow[f].step = "idle"
  BY DEF Init, Flow, NoFlow
<1>3. consumer \in [System -> ConsumerState] /\ session \in [Session -> SessionState]
  BY DEF Init, ConsumerState, SessionState
<1>4. /\ current = None /\ promise = None /\ connected = FALSE
      /\ reconnecting = FALSE /\ listening = {} /\ faults \in 0..MaxFault
  BY EventPoolAssumption DEF Init
<1>4a. \A i, j \in 1..Len(systems) : systems[i] = systems[j] => i = j
  BY <1>1
<1>4b. TypeOK
  BY <1>1, <1>2, <1>3, <1>4, <1>4a DEF TypeOK
<1>5. FlowInv
  BY <1>2 DEF FlowInv
<1>. QED
  BY <1>4b, <1>5 DEF Typed

(* The end of an attempt keeps the types.                                   *)
LEMMA AttemptEndsTyped ==
    ASSUME Typed, NEW c \in Session, flow[c].step # "idle",
           NEW failed \in BOOLEAN, NEW heard \in SUBSET System,
           AttemptEnds(c, failed, heard),
           session' \in [Session -> SessionState], faults' \in 0..MaxFault
    PROVE  Typed'
<1>. USE EventPoolAssumption DEF Typed
<1>0. consumer \in [System -> ConsumerState]
  BY DEF TypeOK
<1>n. Notify(FALSE) \/ Notify(TRUE)
  BY DEF AttemptEnds, HandleError, Activate
<1>k. Told(FALSE) \/ Told(TRUE)
  BY <1>0, <1>n, NotifyIs
<1>1. consumer' \in [System -> ConsumerState]
  BY <1>k DEF Told
<1>2. \A s \in System : consumer'[s].stage = consumer[s].stage
  BY <1>k DEF Told, ToldOne
<1>3. /\ flow' \in [System \cup Session -> Flow]
      /\ flow'[c] = NoFlow
      /\ \A f \in System \cup Session : f # c =>
            \/ flow'[f] = flow[f] /\ (c = promise => flow[f].step # "wait")
            \/ /\ c = promise /\ flow[f].step = "wait"
               /\ flow'[f].step = "ready"
  BY EndedIs DEF AttemptEnds, TypeOK
<1>4. /\ connected' \in BOOLEAN /\ reconnecting' \in BOOLEAN
      /\ listening' \subseteq System
      /\ promise' = Settled(c) /\ UNCHANGED <<systems, current>>
  BY DEF AttemptEnds, HandleError, Activate, TypeOK
<1>5. /\ promise' \in Session \cup {None}
      /\ promise' # None => flow'[promise'].step # "idle"
      /\ \A s \in System : flow'[s].step = "wait" => promise' # None
  BY <1>3, <1>4 DEF Settled, TypeOK, FlowInv
<1>6. TypeOK'
  BY <1>1, <1>3, <1>4, <1>5 DEF TypeOK
<1>7. FlowInv'
  BY <1>2, <1>3, <1>4 DEF FlowInv, NoFlow, Registered
<1>. QED
  BY <1>6, <1>7

(* One stretch of the replay keeps the types.                               *)
LEMMA VisitTyped ==
    ASSUME Typed, NEW f \in System \cup Session, flow[f].step \notin {"idle", "wait"},
           NEW via \in Session \cup {None}, NEW i \in Nat \ {0},
           NEW failed \in BOOLEAN, NEW heard \in SUBSET System,
           Visit(f, via, i, failed, heard),
           session' \in [Session -> SessionState], faults' \in 0..MaxFault
    PROVE  Typed'
<1>. USE EventPoolAssumption DEF Typed
<1>1. CASE via # None /\ Missing(i, heard) # {}
  <2>1. Missing(i, heard) \subseteq Nat /\ Missing(i, heard) \subseteq 1..Len(systems)
    BY DEF Missing, TypeOK
  <2>2. Least(Missing(i, heard)) \in 1..Len(systems)
    BY <2>1, <1>1, LeastIs
  <2>3. flow' = [flow EXCEPT ![f] = [step |-> "listen", via |-> via,
                   at |-> Least(Missing(i, heard)), failed |-> failed]]
    BY <1>1 DEF Visit
  <2>. DEFINE L == Least(Missing(i, heard))
  <2>4. L \in 1..Len(systems) /\ L \in Nat
    BY <2>2, <2>1
  <2>. HIDE DEF L
  <2>5. flow' = [flow EXCEPT ![f] = [step |-> "listen", via |-> via,
                   at |-> L, failed |-> failed]]
    BY <2>3 DEF L
  <2>6. /\ listening' = heard
        /\ UNCHANGED <<systems, consumer, current, connected, reconnecting, promise>>
    BY <1>1 DEF Visit
  <2>7. TypeOK'
    BY <2>4, <2>5, <2>6, <1>1 DEF TypeOK, Flow
  <2>8. FlowInv'
    BY <2>4, <2>5, <2>6, <1>1 DEF FlowInv, TypeOK, Flow, Registered
  <2>. QED
    BY <2>7, <2>8
<1>2. CASE ~(via # None /\ Missing(i, heard) # {}) /\ f \in Session
  <2>1. AttemptEnds(f, failed \/ via = None, heard)
    BY <1>2 DEF Visit
  <2>. QED
    BY <1>2, <2>1, AttemptEndsTyped
<1>3. CASE ~(via # None /\ Missing(i, heard) # {}) /\ f \notin Session
  <2>1. RegistrationEnds(f, failed \/ via = None, heard) /\ f \in System
    BY <1>3 DEF Visit
  <2>2. consumer' \in [System -> ConsumerState] /\ consumer'[f].stage \in {"failed", "in"}
        /\ \A s \in System : s # f => consumer'[s] = consumer[s]
    BY <2>1 DEF RegistrationEnds, TypeOK, ConsumerState
  <2>3. flow' = [flow EXCEPT ![f] = NoFlow] /\ listening' = heard
        /\ UNCHANGED <<systems, current, connected, reconnecting, promise>>
    BY <2>1 DEF RegistrationEnds
  <2>4. TypeOK'
    BY <2>2, <2>3, <1>3 DEF TypeOK, Flow, NoFlow
  <2>5. FlowInv'
    BY <2>2, <2>3, <1>3 DEF FlowInv, TypeOK, Flow, NoFlow, Registered
  <2>. QED
    BY <2>4, <2>5
<1>. QED
  BY <1>1, <1>2, <1>3

(* Every step keeps the types.                                              *)
LEMMA TypedStep == Typed /\ [Next]_vars => Typed'
<1>. SUFFICES ASSUME Typed, [Next]_vars PROVE Typed'
  OBVIOUS
<1>. USE EventPoolAssumption DEF Typed
<1>0. /\ session \in [Session -> SessionState] /\ faults \in Nat /\ faults <= MaxFault
      /\ consumer \in [System -> ConsumerState] /\ current \in Session \cup {None}
      /\ flow \in [System \cup Session -> Flow] /\ listening \subseteq System
  BY DEF TypeOK
<1>s. /\ \A c \in Session : [state |-> "verify", heard |-> {}] \in SessionState
      /\ \A c \in Session : [state |-> "down", heard |-> {}] \in SessionState
  BY DEF SessionState
<1>1. ASSUME NEW s \in System, InitializeDown(s) PROVE Typed'
  <2>1. systems' = Added(s)
    BY <1>1 DEF InitializeDown
  <2>2. flow[s].step = "idle" /\ s \notin Session
    BY <1>1 DEF InitializeDown, MayInitialize
  <2>3. consumer[s].stage # "in"
    BY <1>1 DEF InitializeDown, MayInitialize
  <2>4. CASE promise = None
    <3>1. Free # {} /\ Attempt(Fresh) /\ promise' = Fresh
          /\ flow' = [flow EXCEPT ![s].step = "wait", ![Fresh].step = "verify"]
      BY <1>1, <2>4 DEF InitializeDown
    <3>. DEFINE n == Fresh
    <3>2. n \in Session /\ flow[n].step = "idle"
      BY <3>1, FreshIs
    <3>. HIDE DEF n
    <3>3. flow' = [flow EXCEPT ![s].step = "wait", ![n].step = "verify"] /\ promise' = n
          /\ session' = [session EXCEPT ![n] = [state |-> "verify", heard |-> {}]]
      BY <3>1 DEF n, Attempt
    <3>4. /\ flow' \in [System \cup Session -> Flow]
          /\ flow'[s].step = "wait" /\ flow'[n].step = "verify"
          /\ \A f \in System \cup Session : f # s /\ f # n => flow'[f] = flow[f]
      BY <1>0, <2>2, <3>2, <3>3 DEF Flow
    <3>5. session' \in [Session -> SessionState]
      BY <1>0, <1>s, <3>2, <3>3
    <3>6. UNCHANGED <<consumer, current, connected, listening, reconnecting, faults>>
      BY <1>1 DEF InitializeDown
    <3>7. TypeOK'
      BY <2>1, <2>2, <2>4, <3>2, <3>3, <3>4, <3>5, <3>6, AddedIs DEF TypeOK
    <3>8. FlowInv'
      BY <2>1, <2>2, <2>3, <3>2, <3>4, <3>6, AddedIs DEF FlowInv
    <3>. QED
      BY <3>7, <3>8
  <2>5. CASE promise # None
    <3>1. flow' = [flow EXCEPT ![s].step = "wait"] /\ UNCHANGED <<session, promise>>
          /\ UNCHANGED <<consumer, current, connected, listening, reconnecting, faults>>
      BY <1>1, <2>5 DEF InitializeDown
    <3>2. /\ flow' \in [System \cup Session -> Flow]
          /\ flow'[s].step = "wait"
          /\ \A f \in System \cup Session : f # s => flow'[f] = flow[f]
      BY <1>0, <2>2, <3>1 DEF Flow
    <3>3. TypeOK'
      BY <2>1, <2>2, <2>5, <3>1, <3>2, AddedIs DEF TypeOK
    <3>4. FlowInv'
      BY <2>1, <2>2, <2>3, <3>1, <3>2, AddedIs DEF FlowInv
    <3>. QED
      BY <3>3, <3>4
  <2>. QED
    BY <2>4, <2>5
<1>2. ASSUME NEW s \in System, InitializeUp(s) PROVE Typed'
  <2>1. /\ systems' = Added(s) /\ UNCHANGED <<consumer, session, faults>>
        /\ UNCHANGED <<current, connected, listening, reconnecting, promise>>
        /\ flow' = [flow EXCEPT ![s].step = "ready"]
    BY <1>2 DEF InitializeUp, pool
  <2>2. /\ flow[s].step = "idle" /\ s \notin Session /\ consumer[s].stage # "in"
    BY <1>2 DEF InitializeUp, MayInitialize
  <2>3. /\ flow' \in [System \cup Session -> Flow]
        /\ flow'[s].step = "ready"
        /\ \A f \in System \cup Session : f # s => flow'[f] = flow[f]
    BY <1>0, <2>1, <2>2 DEF Flow
  <2>4. TypeOK'
    BY <2>1, <2>2, <2>3, AddedIs DEF TypeOK
  <2>5. FlowInv'
    BY <2>1, <2>2, <2>3, AddedIs DEF FlowInv
  <2>. QED
    BY <2>4, <2>5
<1>3. ASSUME NEW s \in System, Proceed(s) PROVE Typed'
  <2>. DEFINE no == FALSE
  <2>0. no \in BOOLEAN /\ 1 \in Nat \ {0} /\ listening \in SUBSET System
    BY <1>0
  <2>1. Visit(s, current, 1, no, listening) /\ flow[s].step \notin {"idle", "wait"}
        /\ UNCHANGED <<session, faults>>
    BY <1>3 DEF Proceed, EstablishListens
  <2>. HIDE DEF no
  <2>2. faults' \in 0..MaxFault /\ session' \in [Session -> SessionState]
    BY <1>0, <2>1
  <2>. QED
    BY <1>0, <2>0, <2>1, <2>2, VisitTyped
<1>4. ASSUME NEW c \in Session, Verified(c) PROVE Typed'
  <2>1. /\ session' = [session EXCEPT ![c].state = "connecting"]
        /\ flow[c].step = "verify" /\ flow' = [flow EXCEPT ![c].step = "connect"]
        /\ current' = c /\ listening' = {}
        /\ UNCHANGED <<systems, consumer, connected, reconnecting, promise, faults>>
    BY <1>4 DEF Verified
  <2>2. session' \in [Session -> SessionState]
    BY <1>0, <2>1 DEF SessionState
  <2>3. /\ flow' \in [System \cup Session -> Flow]
        /\ flow'[c].step = "connect"
        /\ \A f \in System \cup Session : f # c => flow'[f] = flow[f]
    BY <1>0, <2>1 DEF Flow
  <2>4. TypeOK'
    BY <2>1, <2>2, <2>3 DEF TypeOK
  <2>5. FlowInv'
    BY <2>1, <2>3 DEF FlowInv, Registered
  <2>. QED
    BY <2>4, <2>5
<1>5. ASSUME NEW c \in Session, Connected(c) PROVE Typed'
  <2>. DEFINE no == FALSE
  <2>0. no \in BOOLEAN /\ 1 \in Nat \ {0} /\ listening \in SUBSET System
    BY <1>0
  <2>1. Visit(c, current, 1, no, listening) /\ flow[c].step \notin {"idle", "wait"}
        /\ UNCHANGED faults /\ session' = [session EXCEPT ![c].state = "up"]
    BY <1>5 DEF Connected, EstablishListens
  <2>. HIDE DEF no
  <2>2. faults' \in 0..MaxFault /\ session' \in [Session -> SessionState]
    BY <1>0, <2>1 DEF SessionState
  <2>3. c \in System \cup Session /\ current \in Session \cup {None}
    BY <1>0
  <2>. QED
    BY <2>0, <2>1, <2>2, <2>3, VisitTyped
<1>6. ASSUME NEW c \in Session, AttemptFails(c) PROVE Typed'
  <2>1. AttemptEnds(c, TRUE, {}) /\ flow[c].step # "idle"
        /\ faults < MaxFault /\ faults' = faults + 1
        /\ session' = [session EXCEPT ![c].state = "down"]
    BY <1>6 DEF AttemptFails
  <2>2. faults' \in 0..MaxFault /\ session' \in [Session -> SessionState]
    BY <1>0, <2>1 DEF SessionState
  <2>. QED
    BY <2>1, <2>2, AttemptEndsTyped
<1>7. ASSUME NEW c \in Session, SessionDies(c) PROVE Typed'
  <2>1. /\ HandleError /\ UNCHANGED <<systems, current, promise, flow>>
        /\ faults < MaxFault /\ faults' = faults + 1
        /\ session' = [session EXCEPT ![c] = [state |-> "down", heard |-> {}]]
    BY <1>7 DEF SessionDies
  <2>2. faults' \in 0..MaxFault /\ session' \in [Session -> SessionState]
    BY <1>0, <1>s, <2>1
  <2>3. Told(FALSE)
    BY <1>0, <2>1, NotifyIs DEF HandleError
  <2>4. TypeOK'
    BY <2>1, <2>2, <2>3 DEF TypeOK, HandleError, Told
  <2>5. \A s \in System : Registered(s)' = Registered(s)
    BY <2>1 DEF Registered
  <2>6. \A s \in System : consumer'[s].stage = consumer[s].stage
    BY <2>3 DEF Told, ToldOne
  <2>7. FlowInv'
    BY <2>1, <2>5, <2>6 DEF FlowInv
  <2>. QED
    BY <2>4, <2>7
<1>8. ASSUME NEW f \in System \cup Session, Listened(f) PROVE Typed'
  <2>. DEFINE v == flow[f].via  a == flow[f].at  b == flow[f].failed
  <2>1. v \in Session /\ a \in 1..Len(systems) /\ b \in BOOLEAN
        /\ flow[f].step \notin {"idle", "wait"}
    BY <1>8, <1>0 DEF Listened, FlowInv, Flow
  <2>2. systems[a] \in System /\ a + 1 \in Nat \ {0}
    BY <2>1 DEF TypeOK
  <2>3. /\ session' = [session EXCEPT ![v].heard = @ \cup {systems[a]}]
        /\ Visit(f, v, a + 1, b, listening \cup {systems[a]})
        /\ UNCHANGED faults
    BY <1>8 DEF Listened, Awaited
  <2>. HIDE DEF v, a, b
  <2>4. faults' \in 0..MaxFault /\ session' \in [Session -> SessionState]
    BY <1>0, <2>1, <2>2, <2>3 DEF SessionState
  <2>5. listening \cup {systems[a]} \in SUBSET System
    BY <1>0, <2>2
  <2>6. v \in Session \cup {None}
    BY <2>1
  <2>. DEFINE h == listening \cup {systems[a]}
  <2>7. Visit(f, v, a + 1, b, h) /\ h \in SUBSET System
    BY <2>3, <2>5
  <2>. HIDE DEF h
  <2>. QED
    BY <2>1, <2>2, <2>4, <2>5, <2>6, <2>7, VisitTyped
<1>9. ASSUME NEW f \in System \cup Session, ListenRejected(f) PROVE Typed'
  <2>. DEFINE v == flow[f].via  a == flow[f].at  yes == TRUE
  <2>0. yes \in BOOLEAN /\ listening \in SUBSET System
    BY <1>0
  <2>1. v \in Session /\ a \in 1..Len(systems)
        /\ flow[f].step \notin {"idle", "wait"}
    BY <1>9, <1>0 DEF ListenRejected, FlowInv
  <2>2. a + 1 \in Nat \ {0}
    BY <2>1 DEF TypeOK
  <2>3. /\ Visit(f, v, a + 1, yes, listening) /\ UNCHANGED session
        /\ faults' = faults \/ (faults < MaxFault /\ faults' = faults + 1)
    BY <1>9 DEF ListenRejected
  <2>. HIDE DEF v, a, yes
  <2>4. faults' \in 0..MaxFault /\ session' \in [Session -> SessionState]
    BY <1>0, <2>3
  <2>. QED
    BY <2>0, <2>1, <2>2, <2>3, <2>4, VisitTyped
<1>10. ASSUME Timer PROVE Typed'
  <2>. DEFINE n == Fresh
  <2>1. n \in Session /\ flow[n].step = "idle"
    BY <1>10, FreshIs DEF Timer
  <2>2. /\ session' = [session EXCEPT ![n] = [state |-> "verify", heard |-> {}]]
        /\ flow' = [flow EXCEPT ![n].step = "verify"] /\ reconnecting' = FALSE
        /\ UNCHANGED <<systems, consumer, current, connected, listening, promise, faults>>
    BY <1>10 DEF Timer, Attempt
  <2>. HIDE DEF n
  <2>3. session' \in [Session -> SessionState]
    BY <1>0, <1>s, <2>1, <2>2
  <2>4. /\ flow' \in [System \cup Session -> Flow]
        /\ flow'[n].step = "verify"
        /\ \A f \in System \cup Session : f # n => flow'[f] = flow[f]
    BY <1>0, <2>1, <2>2 DEF Flow
  <2>5. TypeOK'
    BY <2>1, <2>2, <2>3, <2>4 DEF TypeOK
  <2>6. FlowInv'
    BY <2>1, <2>2, <2>4 DEF FlowInv, Registered
  <2>. QED
    BY <2>5, <2>6
<1>11. ASSUME UNCHANGED vars PROVE Typed'
  BY <1>11 DEF vars, TypeOK, FlowInv, Registered
<1>. QED
  BY <1>1, <1>2, <1>3, <1>4, <1>5, <1>6, <1>7, <1>8, <1>9, <1>10, <1>11 DEF Next

(* Every reachable state has its types.                                     *)
THEOREM TypeCorrect == Spec => []TypeOK
<1>1. Typed => TypeOK
  BY DEF Typed
<1>. QED
  BY TypedInit, TypedStep, <1>1, PTL DEF Spec

-----------------------------------------------------------------------------
(* The consumers' flags *)

(* A loss takes every flag down.                                            *)
LEMMA ErrorFlags ==
    ASSUME Typed, FlagInv, HandleError, UNCHANGED systems
    PROVE  FlagInv'
<1>1. Told(FALSE)
  BY NotifyIs DEF HandleError, Typed, TypeOK
<1>2. ASSUME NEW s \in System
      PROVE  /\ consumer'[s].stage = consumer[s].stage
             /\ Registered(s) => consumer'[s].flag = FALSE
             /\ ~Registered(s) => consumer'[s] = consumer[s]
  BY <1>1 DEF Told, ToldOne
<1>3. \A s \in System : Registered(s)' = Registered(s)
  BY DEF Registered
<1>. QED
  BY <1>2, <1>3 DEF FlagInv, HandleError

(* One stretch of the replay keeps the flags right.                         *)
LEMMA VisitFlags ==
    ASSUME Typed, FlagInv, NEW f \in System \cup Session, flow[f].step # "idle",
           NEW via, NEW i, NEW failed \in BOOLEAN, NEW heard,
           Visit(f, via, i, failed, heard)
    PROVE  FlagInv'
<1>1. UNCHANGED systems
  BY DEF Visit, AttemptEnds, RegistrationEnds
<1>2. \A s \in System : Registered(s)' = Registered(s)
  BY <1>1 DEF Registered
<1>3. CASE UNCHANGED <<consumer, connected>>
  BY <1>2, <1>3 DEF FlagInv
<1>4. CASE HandleError
  BY <1>1, <1>4, ErrorFlags
<1>5. CASE Activate
  <2>1. Told(TRUE)
    BY <1>5, NotifyIs DEF Activate, Typed, TypeOK
  <2>2. ASSUME NEW s \in System
        PROVE  /\ consumer'[s].stage = consumer[s].stage
               /\ Registered(s) => consumer'[s].flag = TRUE
               /\ ~Registered(s) => consumer'[s] = consumer[s]
    BY <2>1 DEF Told, ToldOne
  <2>. QED
    BY <1>2, <1>5, <2>2 DEF FlagInv, Activate
<1>6. CASE f \in System /\ RegistrationEnds(f, failed \/ via = None, heard)
  <2>1. Registered(f)
    BY <1>6 DEF Typed, FlowInv
  <2>2. /\ consumer'[f].flag => connected
        /\ consumer'[f].stage = "in" /\ connected => consumer'[f].flag
        /\ \A s \in System : s # f => consumer'[s] = consumer[s]
        /\ UNCHANGED connected
    BY <1>6 DEF RegistrationEnds, FlagInv, Typed, TypeOK, ConsumerState
  <2>. QED
    BY <1>2, <2>1, <2>2 DEF FlagInv
<1>. QED
  BY <1>3, <1>4, <1>5, <1>6 DEF Visit, AttemptEnds

(* Every step keeps the flags right.                                        *)
LEMMA FlagStep == Typed /\ FlagInv /\ [Next]_vars => FlagInv'
<1>. SUFFICES ASSUME Typed, FlagInv, [Next]_vars PROVE FlagInv'
  OBVIOUS
<1>0. TypeOK
  BY DEF Typed
<1>1. ASSUME NEW s \in System, InitializeDown(s) \/ InitializeUp(s) PROVE FlagInv'
  <2>1. systems' = Added(s) /\ UNCHANGED <<consumer, connected>>
    BY <1>1 DEF InitializeDown, InitializeUp, pool
  <2>. QED
    BY <1>0, <2>1, AddedIs DEF FlagInv
<1>2. ASSUME NEW s \in System, Proceed(s) PROVE FlagInv'
  <2>. DEFINE no == FALSE
  <2>1. no \in BOOLEAN /\ flow[s].step # "idle" /\ Visit(s, current, 1, no, listening)
    BY <1>2 DEF Proceed, EstablishListens
  <2>. HIDE DEF no
  <2>. QED
    BY <2>1, VisitFlags
<1>3. ASSUME NEW c \in Session, Connected(c) PROVE FlagInv'
  <2>. DEFINE no == FALSE
  <2>1. no \in BOOLEAN /\ flow[c].step # "idle" /\ Visit(c, current, 1, no, listening)
    BY <1>3 DEF Connected, EstablishListens
  <2>. HIDE DEF no
  <2>. QED
    BY <2>1, VisitFlags
<1>4. ASSUME NEW c \in Session, AttemptFails(c) \/ SessionDies(c) PROVE FlagInv'
  BY <1>4, ErrorFlags DEF AttemptFails, AttemptEnds, SessionDies
<1>5. ASSUME NEW f \in System \cup Session, Listened(f) PROVE FlagInv'
  <2>. DEFINE b == flow[f].failed  i == flow[f].at + 1
              h == listening \cup {Awaited(f)}
  <2>1. /\ b \in BOOLEAN /\ flow[f].step # "idle"
        /\ Visit(f, flow[f].via, i, b, h)
    BY <1>5, <1>0 DEF Listened, TypeOK, Flow
  <2>. HIDE DEF b, h, i
  <2>. QED
    BY <2>1, VisitFlags
<1>6. ASSUME NEW f \in System \cup Session, ListenRejected(f) PROVE FlagInv'
  <2>. DEFINE b == TRUE  i == flow[f].at + 1
  <2>1. /\ b \in BOOLEAN /\ flow[f].step # "idle"
        /\ Visit(f, flow[f].via, i, b, listening)
    BY <1>6 DEF ListenRejected
  <2>. HIDE DEF b, i
  <2>. QED
    BY <2>1, VisitFlags
<1>7. CASE (\E c \in Session : Verified(c)) \/ Timer \/ UNCHANGED vars
  <2>1. UNCHANGED <<systems, consumer, connected>>
    BY <1>7 DEF Verified, Timer, vars
  <2>. QED
    BY <2>1 DEF FlagInv, Registered
<1>. QED
  BY <1>1, <1>2, <1>3, <1>4, <1>5, <1>6, <1>7 DEF Next

(* Initially no flag is up.                                                 *)
LEMMA FlagInit == Init => FlagInv
<1>. SUFFICES ASSUME Init PROVE FlagInv
  OBVIOUS
<1>. DEFINE x == [stage |-> "new", flag |-> FALSE, attached |-> FALSE]
<1>1. \A s \in System : consumer[s] = x
  BY DEF Init
<1>2. x.stage = "new" /\ ~x.flag
  OBVIOUS
<1>. HIDE DEF x
<1>. QED
  BY <1>1, <1>2 DEF FlagInv

(* A consumer's flag follows the pool's, for every number of systems,       *)
(* sessions and faults.                                                     *)
THEOREM FlagsAreRight == Spec => []FlagsFollowPool
<1>2. FlagInv => FlagsFollowPool
  BY DEF FlagInv, FlagsFollowPool
<1>. QED
  BY TypedInit, TypedStep, FlagInit, FlagStep, <1>2, PTL DEF Spec

-----------------------------------------------------------------------------
(* Whoever is registered is heard *)

(* A system is heard as long as no session that is up changes.              *)
LEMMA HeardStays ==
    ASSUME \A c \in Session : Up(c) => Up(c)' /\ session[c].heard \subseteq session'[c].heard
    PROVE  \A s \in System : Heard(s) => Heard(s)'
BY DEF Heard

(* One stretch of the replay leaves only heard systems in listeningChannels.*)
LEMMA VisitListening ==
    ASSUME NEW f, NEW via, NEW i, NEW failed, NEW heard,
           \A s \in heard : Heard(s)',
           Visit(f, via, i, failed, heard)
    PROVE  ListeningInv'
BY DEF Visit, AttemptEnds, RegistrationEnds, HandleError, ListeningInv

(* Every step keeps listeningChannels true.                                 *)
LEMMA ListeningStep == Typed /\ ListeningInv /\ [Next]_vars => ListeningInv'
<1>. SUFFICES ASSUME Typed, ListeningInv, [Next]_vars PROVE ListeningInv'
  OBVIOUS
<1>0. session \in [Session -> SessionState] /\ listening \subseteq System
  BY DEF Typed, TypeOK
<1>1. ASSUME Free # {}, Attempt(Fresh) PROVE \A s \in System : Heard(s) => Heard(s)'
  <2>. DEFINE n == Fresh
  <2>1. n \in Session /\ session[n].state = "down"
        /\ session' = [session EXCEPT ![n] = [state |-> "verify", heard |-> {}]]
    BY <1>1, FreshIs DEF Attempt
  <2>. HIDE DEF n
  <2>2. \A c \in Session : c # n => session'[c] = session[c]
    BY <1>0, <2>1
  <2>. QED
    BY <2>1, <2>2 DEF Heard, Up
<1>2. ASSUME NEW s \in System, InitializeDown(s) PROVE ListeningInv'
  <2>1. UNCHANGED listening /\ (UNCHANGED session \/ (Free # {} /\ Attempt(Fresh)))
    BY <1>2 DEF InitializeDown
  <2>2. \A t \in System : Heard(t) => Heard(t)'
    BY <2>1, <1>1 DEF Heard, Up
  <2>. QED
    BY <1>0, <2>1, <2>2 DEF ListeningInv
<1>3. CASE Timer
  <2>1. \A t \in System : Heard(t) => Heard(t)'
    BY <1>1, <1>3 DEF Timer
  <2>. QED
    BY <1>0, <1>3, <2>1 DEF Timer, ListeningInv
<1>4. ASSUME NEW s \in System, InitializeUp(s) PROVE ListeningInv'
  BY <1>4 DEF InitializeUp, pool, ListeningInv, Heard, Up
<1>5. ASSUME NEW s \in System, Proceed(s) PROVE ListeningInv'
  <2>. DEFINE no == FALSE
  <2>1. UNCHANGED session /\ Visit(s, current, 1, no, listening)
    BY <1>5 DEF Proceed, EstablishListens
  <2>. HIDE DEF no
  <2>2. \A t \in listening : Heard(t)'
    BY <2>1 DEF ListeningInv, Heard, Up
  <2>. QED
    BY <2>1, <2>2, VisitListening
<1>6. ASSUME NEW c \in Session, Connected(c) PROVE ListeningInv'
  <2>. DEFINE no == FALSE
  <2>1. /\ session' = [session EXCEPT ![c].state = "up"]
        /\ Visit(c, current, 1, no, listening)
    BY <1>6 DEF Connected, EstablishListens
  <2>. HIDE DEF no
  <2>2. \A d \in Session : session'[d].heard = session[d].heard
                           /\ (Up(d) => session'[d].state = "up")
    BY <1>0, <2>1 DEF SessionState, Up
  <2>3. \A t \in listening : Heard(t)'
    BY <1>0, <2>2 DEF ListeningInv, Heard, Up
  <2>. QED
    BY <2>1, <2>3, VisitListening
<1>7. ASSUME NEW c \in Session, Verified(c) \/ AttemptFails(c) \/ SessionDies(c)
      PROVE  ListeningInv'
  BY <1>7 DEF Verified, AttemptFails, AttemptEnds, SessionDies, HandleError, ListeningInv
<1>8. ASSUME NEW f \in System \cup Session, Listened(f) PROVE ListeningInv'
  <2>. DEFINE v == flow[f].via  a == Awaited(f)  h == listening \cup {a}
              i == flow[f].at + 1  b == flow[f].failed
  <2>1. /\ v \in Session /\ session[v].state = "up"
        /\ session' = [session EXCEPT ![v].heard = @ \cup {a}]
    BY <1>8 DEF Listened, Typed, FlowInv, Up
  <2>2. Visit(f, v, i, b, h)
    BY <1>8 DEF Listened
  <2>3. h = listening \cup {a}
    OBVIOUS
  <2>. HIDE DEF v, a, h, i, b
  <2>4. \A d \in Session : /\ session[d].heard \subseteq session'[d].heard
                           /\ session'[d].state = session[d].state
    BY <1>0, <2>1 DEF SessionState
  <2>5. a \in session'[v].heard /\ session'[v].state = "up"
    BY <1>0, <2>1 DEF SessionState
  <2>6. \A t \in h : Heard(t)'
    BY <1>0, <2>1, <2>3, <2>4, <2>5 DEF ListeningInv, Heard, Up
  <2>. QED
    BY <2>2, <2>6, VisitListening
<1>9. ASSUME NEW f \in System \cup Session, ListenRejected(f) PROVE ListeningInv'
  <2>. DEFINE yes == TRUE  i == flow[f].at + 1
  <2>1. UNCHANGED session /\ Visit(f, flow[f].via, i, yes, listening)
    BY <1>9 DEF ListenRejected
  <2>. HIDE DEF yes, i
  <2>2. \A t \in listening : Heard(t)'
    BY <2>1 DEF ListeningInv, Heard, Up
  <2>. QED
    BY <2>1, <2>2, VisitListening
<1>10. CASE UNCHANGED vars
  BY <1>10 DEF vars, ListeningInv, Heard, Up
<1>. QED
  BY <1>2, <1>3, <1>4, <1>5, <1>6, <1>7, <1>8, <1>9, <1>10 DEF Next

(* What stands in for f's own part before one more stretch of its replay    *)
Left(f, i, failed, heard, j) ==
    \/ systems[j] \in heard
    \/ reconnecting
    \/ \E c \in Session : c # f /\ Pending(c, j)
    \/ systems[j] # f /\ Pending(systems[j], j)
    \/ GivenUp(systems[j])
    \/ (f \in Session \/ systems[j] = f) /\ (i <= j \/ failed)

(* The end of an attempt: it failed, and a reconnect is due, or it has seen *)
(* to every position.                                                       *)
LEMMA AttemptEndsCover ==
    ASSUME Typed, NEW c \in Session, NEW failed \in BOOLEAN,
           NEW heard \in SUBSET System, AttemptEnds(c, failed, heard),
           failed \/ \A j \in 1..Len(systems) :
              \/ systems[j] \in heard \/ reconnecting
              \/ \E d \in Session : d # c /\ Pending(d, j)
              \/ Pending(systems[j], j)
              \/ GivenUp(systems[j])
    PROVE  CoverInv'
<1>1. UNCHANGED systems
  BY DEF AttemptEnds
<1>2. CASE failed
  BY <1>2 DEF AttemptEnds, HandleError, CoverInv, Covered
<1>3. CASE ~failed
  <2>1. listening' = heard /\ UNCHANGED reconnecting /\ Notify(TRUE) /\ flow' = Ended(c)
    BY <1>3 DEF AttemptEnds, Activate
  <2>2. Told(TRUE)
    BY <2>1, NotifyIs DEF Typed, TypeOK
  <2>3. \A s \in System : consumer'[s].stage = consumer[s].stage
    BY <2>2 DEF Told, ToldOne
  <2>4. flow \in [System \cup Session -> Flow]
    BY DEF Typed, TypeOK
  <2>5. \A f \in System \cup Session : f # c =>
              \/ flow'[f] = flow[f]
              \/ flow[f].step = "wait" /\ flow'[f].step = "ready"
    BY <2>1, <2>4, EndedIs
  <2>6. ASSUME NEW j \in 1..Len(systems) PROVE Covered(j)'
    <3>1. systems[j] \in System /\ systems[j] # c /\ systems'[j] = systems[j]
      BY <1>1, EventPoolAssumption DEF Typed, TypeOK
    <3>2. \A f \in System \cup Session : f # c /\ Pending(f, j) => Pending(f, j)'
      BY <2>5 DEF Pending
    <3>3. GivenUp(systems[j]) => GivenUp(systems[j])'
      BY <2>3, <2>5, <3>1 DEF GivenUp
    <3>. QED
      BY <1>3, <2>1, <3>1, <3>2, <3>3 DEF Covered
  <2>. QED
    BY <1>1, <2>6 DEF CoverInv
<1>. QED
  BY <1>2, <1>3

(* One stretch of the replay leaves no position out.                        *)
LEMMA VisitCover ==
    ASSUME Typed, NEW f \in System \cup Session, flow[f].step # "idle",
           NEW via, NEW i \in Nat \ {0},
           NEW failed \in BOOLEAN, NEW heard \in SUBSET System,
           \A j \in 1..Len(systems) : Left(f, i, failed, heard, j),
           Visit(f, via, i, failed, heard)
    PROVE  CoverInv'
<1>0. /\ flow \in [System \cup Session -> Flow] /\ Len(systems) \in Nat
      /\ \A j \in 1..Len(systems) : systems[j] \in System /\ systems[j] \notin Session
      /\ consumer \in [System -> ConsumerState]
  BY EventPoolAssumption DEF Typed, TypeOK
<1>1. CASE via # None /\ Missing(i, heard) # {}
  <2>. DEFINE L == Least(Missing(i, heard))
  <2>1. Missing(i, heard) \in SUBSET Nat
    BY DEF Missing
  <2>2. \A j \in Missing(i, heard) : L <= j
    BY <1>1, <2>1, LeastIs
  <2>3. /\ flow' = [flow EXCEPT ![f] = [step |-> "listen", via |-> via,
                      at |-> L, failed |-> failed]]
        /\ listening' = heard
        /\ UNCHANGED <<systems, consumer, reconnecting>>
    BY <1>1 DEF Visit
  <2>. HIDE DEF L
  <2>4. /\ flow'[f].step = "listen" /\ flow'[f].at = L /\ flow'[f].failed = failed
        /\ \A g \in System \cup Session : g # f => flow'[g] = flow[g]
    BY <1>0, <2>3
  <2>5. ASSUME NEW j \in 1..Len(systems) PROVE Covered(j)'
    <3>1. \A g \in System \cup Session : g # f /\ Pending(g, j) => Pending(g, j)'
      BY <2>4 DEF Pending
    <3>2. i <= j \/ failed => systems[j] \in heard \/ Pending(f, j)'
      BY <2>2, <2>4 DEF Missing, Pending
    <3>3. Left(f, i, failed, heard, j)
      OBVIOUS
    <3>4. GivenUp(systems[j]) => GivenUp(systems[j])'
      BY <1>0, <2>3, <2>4 DEF GivenUp
    <3>. QED
      BY <1>0, <2>3, <3>1, <3>2, <3>3, <3>4 DEF Covered, Left
  <2>. QED
    BY <2>3, <2>5 DEF CoverInv
<1>2. CASE ~(via # None /\ Missing(i, heard) # {}) /\ f \in Session
  <2>. DEFINE bad == failed \/ via = None
  <2>1. AttemptEnds(f, bad, heard) /\ bad \in BOOLEAN
    BY <1>2 DEF Visit
  <2>2. bad \/ (~failed /\ Missing(i, heard) = {})
    BY <1>2
  <2>. HIDE DEF bad
  <2>3. ASSUME ~bad, NEW j \in 1..Len(systems)
        PROVE  \/ systems[j] \in heard \/ reconnecting
               \/ \E d \in Session : d # f /\ Pending(d, j)
               \/ Pending(systems[j], j)
               \/ GivenUp(systems[j])
    <3>1. Left(f, i, failed, heard, j)
      OBVIOUS
    <3>2. i <= j => systems[j] \in heard
      BY <2>2, <2>3 DEF Missing
    <3>. QED
      BY <2>2, <2>3, <3>1, <3>2 DEF Left
  <2>. QED
    BY <1>2, <2>1, <2>3, AttemptEndsCover
<1>3. CASE ~(via # None /\ Missing(i, heard) # {}) /\ f \notin Session
  <2>. DEFINE bad == failed \/ via = None
  <2>1. RegistrationEnds(f, bad, heard) /\ f \in System
    BY <1>3 DEF Visit
  <2>2. bad \/ (~failed /\ Missing(i, heard) = {})
    BY <1>3
  <2>3. /\ bad => consumer'[f].stage = "failed"
        /\ flow'[f].step = "idle"
        /\ \A s \in System : s # f => consumer'[s] = consumer[s]
        /\ listening' = heard /\ UNCHANGED <<systems, reconnecting>>
        /\ \A g \in System \cup Session : g # f => flow'[g] = flow[g]
    BY <1>0, <2>1 DEF RegistrationEnds, ConsumerState, NoFlow
  <2>. HIDE DEF bad
  <2>4. ASSUME NEW j \in 1..Len(systems) PROVE Covered(j)'
    <3>1. \A g \in System \cup Session : g # f /\ Pending(g, j) => Pending(g, j)'
      BY <2>3 DEF Pending
    <3>2. ~bad /\ i <= j => systems[j] \in heard
      BY <2>2 DEF Missing
    <3>3. Left(f, i, failed, heard, j)
      OBVIOUS
    <3>4. CASE systems[j] # f
      <4>1. GivenUp(systems[j]) => GivenUp(systems[j])'
        BY <1>0, <2>3, <3>4 DEF GivenUp
      <4>2. systems[j] \in System \cup Session /\ \A c \in Session : c # f
        BY <1>0, <1>3
      <4>. QED
        BY <1>3, <2>3, <3>1, <3>3, <3>4, <4>1, <4>2 DEF Covered, Left
    <3>5. CASE systems[j] = f /\ bad
      BY <2>3, <3>5 DEF Covered, GivenUp, NoFlow
    <3>6. CASE systems[j] = f /\ ~bad
      <4>1. systems[j] \in heard \/ reconnecting
            \/ \E c \in Session : c # f /\ Pending(c, j)
        BY <2>2, <3>2, <3>3, <3>6 DEF Left, GivenUp
      <4>. QED
        BY <2>3, <3>1, <4>1 DEF Covered
    <3>. QED
      BY <3>4, <3>5, <3>6
  <2>. QED
    BY <2>3, <2>4 DEF CoverInv
<1>. QED
  BY <1>1, <1>2, <1>3

(* Every step keeps every position covered.                                 *)
LEMMA CoverStep == Typed /\ CoverInv /\ [Next]_vars => CoverInv'
<1>. SUFFICES ASSUME Typed, CoverInv, [Next]_vars PROVE CoverInv'
  OBVIOUS
<1>0. /\ flow \in [System \cup Session -> Flow] /\ TypeOK
      /\ Len(systems) \in Nat /\ listening \in SUBSET System
      /\ current \in Session \cup {None}
      /\ \A j \in 1..Len(systems) : systems[j] \in System /\ systems[j] \notin Session
  BY EventPoolAssumption DEF Typed, TypeOK
<1>1. ASSUME NEW s \in System, InitializeDown(s) \/ InitializeUp(s) PROVE CoverInv'
  <2>1. systems' = Added(s) /\ UNCHANGED <<consumer, listening, reconnecting>>
        /\ flow[s].step = "idle" /\ s \notin Session
    BY <1>1, EventPoolAssumption DEF InitializeDown, InitializeUp, MayInitialize, pool
  <2>2. /\ flow'[s].step \in {"wait", "ready"}
        /\ \A f \in System \cup Session : f # s /\ flow[f].step # "idle" => flow'[f] = flow[f]
        /\ \A f \in System : f # s => flow'[f] = flow[f]
    <3>1. CASE InitializeUp(s)
      BY <1>0, <3>1 DEF InitializeUp, Flow
    <3>2. CASE InitializeDown(s) /\ promise # None
      BY <1>0, <3>2 DEF InitializeDown, Flow
    <3>3. CASE InitializeDown(s) /\ promise = None
      <4>. DEFINE n == Fresh
      <4>1. n \in Session /\ flow[n].step = "idle"
        BY <3>3, FreshIs DEF InitializeDown
      <4>2. flow' = [flow EXCEPT ![s].step = "wait", ![n].step = "verify"]
        BY <3>3 DEF InitializeDown
      <4>. HIDE DEF n
      <4>. QED
        BY <1>0, <2>1, <4>1, <4>2, EventPoolAssumption DEF Flow
    <3>. QED
      BY <1>1, <3>1, <3>2, <3>3
  <2>3. ASSUME NEW j \in 1..Len(systems') PROVE Covered(j)'
    <3>1. CASE systems'[j] = s
      BY <2>2, <3>1 DEF Covered, Pending
    <3>2. CASE systems'[j] # s
      <4>1. j \in 1..Len(systems) /\ systems'[j] = systems[j]
        BY <1>0, <2>1, <3>2, AddedIs
      <4>2. \A f \in System \cup Session : f # s /\ Pending(f, j) => Pending(f, j)'
        BY <2>2 DEF Pending
      <4>3. GivenUp(systems[j]) => GivenUp(systems[j])'
        BY <1>0, <2>1, <2>2, <3>2, <4>1 DEF GivenUp
      <4>4. Covered(j)
        BY <4>1 DEF CoverInv
      <4>5. systems[j] \in System /\ \A c \in Session : c # s
        BY <1>0, <2>1, <4>1
      <4>. QED
        BY <2>1, <3>2, <4>1, <4>2, <4>3, <4>4, <4>5 DEF Covered
    <3>. QED
      BY <3>1, <3>2
  <2>. QED
    BY <2>3 DEF CoverInv
<1>2. ASSUME NEW c \in Session, AttemptFails(c) \/ SessionDies(c) PROVE CoverInv'
  <2>1. reconnecting' = TRUE
    BY <1>2 DEF AttemptFails, AttemptEnds, SessionDies, HandleError
  <2>. QED
    BY <2>1 DEF CoverInv, Covered
<1>3. ASSUME NEW c \in Session, flow'[c].step \in {"verify", "connect"} PROVE CoverInv'
  BY <1>3 DEF CoverInv, Covered, Pending
<1>4. ASSUME NEW c \in Session, Verified(c) PROVE CoverInv'
  <2>1. flow'[c].step = "connect"
    BY <1>0, <1>4 DEF Verified, Flow
  <2>. QED
    BY <2>1, <1>3
<1>5. CASE Timer
  <2>. DEFINE n == Fresh
  <2>1. n \in Session /\ flow' = [flow EXCEPT ![n].step = "verify"]
    BY <1>5, FreshIs DEF Timer
  <2>. HIDE DEF n
  <2>2. flow'[n].step = "verify"
    BY <1>0, <2>1 DEF Flow
  <2>. QED
    BY <2>1, <2>2, <1>3
<1>6. ASSUME NEW f \in System \cup Session, flow[f].step \in {"ready", "connect"},
             EstablishListens(f)
      PROVE  CoverInv'
  <2>. DEFINE no == FALSE
  <2>0. 1 \in Nat \ {0}
    OBVIOUS
  <2>1. no \in BOOLEAN /\ Visit(f, current, 1, no, listening)
    BY <1>6 DEF EstablishListens
  <2>. HIDE DEF no
  <2>2. ASSUME NEW j \in 1..Len(systems) PROVE Left(f, 1, no, listening, j)
    <3>1. Covered(j) /\ 1 <= j
      BY DEF CoverInv
    <3>. QED
      BY <1>0, <3>1 DEF Covered, Left
  <2>. QED
    BY <1>0, <1>6, <2>0, <2>1, <2>2, VisitCover
<1>7. ASSUME NEW f \in System \cup Session, Proceed(f) \/ Connected(f) PROVE CoverInv'
  BY <1>6, <1>7 DEF Proceed, Connected
<1>8. ASSUME NEW f \in System \cup Session, Listened(f) PROVE CoverInv'
  <2>. DEFINE v == flow[f].via  a == flow[f].at  b == flow[f].failed
              i == a + 1  h == listening \cup {systems[a]}
  <2>1. /\ flow[f].step = "listen" /\ a \in 1..Len(systems) /\ b \in BOOLEAN
        /\ Visit(f, v, i, b, h)
    BY <1>0, <1>8 DEF Listened, Awaited, Typed, FlowInv, Flow
  <2>2. i \in Nat \ {0} /\ i = a + 1 /\ h = listening \cup {systems[a]}
        /\ h \in SUBSET System
    BY <1>0, <2>1
  <2>. HIDE DEF v, i, h
  <2>3. ASSUME NEW j \in 1..Len(systems) PROVE Left(f, i, b, h, j)
    <3>1. Covered(j)
      BY DEF CoverInv
    <3>2. Pending(f, j) => j = a \/ i <= j \/ b
      BY <1>0, <2>1, <2>2 DEF Pending
    <3>. QED
      BY <1>0, <2>2, <3>1, <3>2 DEF Covered, Left
  <2>. HIDE DEF a, b
  <2>4. flow[f].step # "idle"
    BY <2>1
  <2>. QED
    BY <2>1, <2>2, <2>3, <2>4, VisitCover
<1>9. ASSUME NEW f \in System \cup Session, ListenRejected(f) PROVE CoverInv'
  <2>. DEFINE v == flow[f].via  a == flow[f].at  yes == TRUE  i == a + 1
  <2>1. /\ flow[f].step # "idle" /\ a \in 1..Len(systems) /\ yes \in BOOLEAN
        /\ Visit(f, v, i, yes, listening)
    BY <1>0, <1>9 DEF ListenRejected, Typed, FlowInv
  <2>2. i \in Nat \ {0}
    BY <1>0, <2>1
  <2>3. ASSUME NEW j \in 1..Len(systems) PROVE Left(f, i, yes, listening, j)
    <3>1. Covered(j)
      BY DEF CoverInv
    <3>. QED
      BY <1>0, <3>1 DEF Covered, Left
  <2>. HIDE DEF v, i, yes
  <2>. QED
    BY <1>0, <2>1, <2>2, <2>3, VisitCover
<1>10. CASE UNCHANGED vars
  BY <1>10 DEF vars, CoverInv, Covered, Pending, GivenUp
<1>. QED
  BY <1>1, <1>2, <1>4, <1>5, <1>7, <1>8, <1>9, <1>10 DEF Next

(* No session is lost and no replay is cut short or overtaken without a     *)
(* reconnect: a registered system is LISTENed for on a live session, or the *)
(* pool is healing, for every number of systems, sessions and faults.       *)
THEOREM RegisteredIsHeard == Spec => []HeardOrHealing
<1>1. Init => ListeningInv /\ CoverInv
  BY DEF Init, ListeningInv, CoverInv
<1>2. Typed /\ FlagInv /\ ListeningInv /\ CoverInv => HeardOrHealing
  <2>. SUFFICES ASSUME Typed, FlagInv, ListeningInv, CoverInv, ~Healing,
                       NEW s \in System, consumer[s].stage = "in"
                PROVE  Heard(s)
    BY DEF HeardOrHealing
  <2>1. PICK j \in 1..Len(systems) : systems[j] = s
    BY DEF FlagInv, Registered
  <2>2. flow[s].step = "idle"
    BY DEF Typed, FlowInv
  <2>3. Covered(j)
    BY DEF CoverInv
  <2>4. s \in listening
    BY <2>1, <2>2, <2>3 DEF Covered, Pending, GivenUp, Healing, Attempting
  <2>. QED
    BY <2>4 DEF ListeningInv
<1>3. Init => FlagInv
  BY FlagInit
<1>. QED
  BY TypedInit, TypedStep, FlagStep, ListeningStep, CoverStep,
     <1>1, <1>2, <1>3, PTL DEF Spec
=============================================================================
