------------------------------ MODULE EventPool ------------------------------
(***************************************************************************)
(* The shared PostgreSQL connection of the event systems of one process:   *)
(* registration, the LISTEN replay on every new session, the loss of a     *)
(* session, the reconnect timer, and the consumers' own flags.             *)
(*                                                                         *)
(* Every await on the database is a point where another flow may run; what *)
(* is settled already is dealt with first, as the event loop does (Turn).  *)
(* The flow of a registration is named by its system, the flow of a        *)
(* connection attempt (initializeConnection) by the session it creates.    *)
(* The channels of the systems are disjoint: a system stands for its own.  *)
(***************************************************************************)
EXTENDS Naturals, Sequences

CONSTANTS
    System,    \* the event systems of the process
    Session,   \* sessions to the database: bounds how many are open
    Retries,   \* systems whose emitter lets a failed initialisation be retried
    MaxFault,  \* bounds the faults of the connection and the database
    None       \* no session

ASSUME EventPoolAssumption ==
    /\ Retries \subseteq System /\ MaxFault \in Nat
    /\ System \cap Session = {} /\ None \notin Session

VARIABLES
    systems,      \* connectedSystems: a Map, in the order of insertion
    consumer,     \* what each system knows of itself
    session,      \* the sessions (down: none, or lost) and their LISTENs
    current,      \* pgClient
    connected,    \* isConnected
    listening,    \* listeningChannels
    reconnecting, \* isReconnecting: the timer is set
    promise,      \* initPromise: the attempt that registrations await
    flow,         \* calls in flight
    faults        \* faults so far

vars == <<systems, consumer, session, current, connected, listening,
          reconnecting, promise, flow, faults>>

pool == <<current, connected, listening, reconnecting, promise>>

-----------------------------------------------------------------------------
(* Types *)

(* flag: the consumer's own isConnected; attached: its notification handler *)
(* is on the pool.                                                          *)
ConsumerState == [stage: {"new", "failed", "in"},
                  flag: BOOLEAN, attached: BOOLEAN]

SessionState == [state: {"verify", "connecting", "up", "down"},
                 heard: SUBSET System]

(* via: the client that establishListens captured; at: the position in      *)
(* systems whose LISTEN is awaited; failed: one of them failed.             *)
Flow == [step: {"idle", "wait", "ready", "verify", "connect", "listen"},
         via: Session \cup {None}, at: Nat, failed: BOOLEAN]

NoFlow == [step |-> "idle", via |-> None, at |-> 0, failed |-> FALSE]

(* The state keeps its types; the map holds a system once; who awaits       *)
(* initPromise awaits an attempt that is in flight.                         *)
TypeOK ==
    /\ systems \in Seq(System)
    /\ \A i, j \in 1..Len(systems) : systems[i] = systems[j] => i = j
    /\ consumer \in [System -> ConsumerState]
    /\ session \in [Session -> SessionState]
    /\ current \in Session \cup {None}
    /\ connected \in BOOLEAN /\ reconnecting \in BOOLEAN
    /\ listening \subseteq System
    /\ promise \in Session \cup {None}
    /\ flow \in [System \cup Session -> Flow]
    /\ promise # None => flow[promise].step # "idle"
    /\ \A s \in System : flow[s].step = "wait" => promise # None
    /\ faults \in 0..MaxFault

-----------------------------------------------------------------------------
(* Reading the state *)

Registered(s) == \E i \in 1..Len(systems) : systems[i] = s

Up(c) == session[c].state = "up"

Heard(s) == \E c \in Session : Up(c) /\ s \in session[c].heard

Attempting(c) == flow[c].step # "idle"

(* A query on a dead client is rejected at once.                            *)
Rejected(f) == flow[f].step = "listen" /\ session[flow[f].via].state = "down"

(* A new turn of the event loop: whoever awaited what is settled went on.   *)
Turn == /\ \A s \in System : flow[s].step # "ready"
        /\ \A f \in System \cup Session : ~Rejected(f)

(* Sessions that nothing refers to any more                                 *)
Free == {c \in Session : /\ session[c].state = "down"
                         /\ ~Attempting(c) /\ c # current /\ c # promise
                         /\ \A f \in System \cup Session : flow[f].via # c}

Fresh == CHOOSE c \in Free : TRUE

-----------------------------------------------------------------------------
(* The pool's flags *)

(* Variant: the consumers are not told.                                     *)
NotifyNobody(value) == UNCHANGED consumer

(* The consumers' handlers of 'connected' and 'error-<system>'; they are    *)
(* put on the pool in the same turn that registers the system.              *)
Notify(value) ==
    consumer' = [s \in System |->
        IF Registered(s) THEN [consumer[s] EXCEPT !.flag = value] ELSE consumer[s]]

(* handleConnectionError, and the 'end' event that comes with it            *)
HandleError ==
    /\ connected' = FALSE
    /\ listening' = {}
    /\ Notify(FALSE)
    /\ reconnecting' = TRUE

Activate ==
    /\ connected' = TRUE
    /\ Notify(TRUE)
    /\ UNCHANGED reconnecting

-----------------------------------------------------------------------------
(* establishListens *)

(* Positions from i on whose system is not being listened to                *)
Missing(i, heard) == {j \in i..Len(systems) : systems[j] \notin heard}

Least(S) == CHOOSE i \in S : \A j \in S : i <= j

(* The flows once f is over: who awaited it goes on.                        *)
Ended(f) ==
    [g \in System \cup Session |->
        IF g = f THEN NoFlow
        ELSE IF f = promise /\ flow[g].step = "wait"
             THEN [flow[g] EXCEPT !.step = "ready"]
             ELSE flow[g]]

(* Variant: initPromise is not reset.                                       *)
NeverSettled(f) == promise

Settled(f) == IF promise = f THEN None ELSE promise

(* The end of initializeConnection                                          *)
AttemptEnds(c, failed, heard) ==
    /\ IF failed THEN HandleError ELSE listening' = heard /\ Activate
    /\ promise' = Settled(c)
    /\ flow' = Ended(c)
    /\ UNCHANGED <<systems, current>>

(* The end of registerEventSystem, and of the consumer's initialisation: it *)
(* adopts a pool that was connected before.                                 *)
RegistrationEnds(s, failed, heard) ==
    /\ consumer' = [consumer EXCEPT ![s] =
         IF failed THEN [@ EXCEPT !.stage = "failed", !.flag = FALSE]
         ELSE [stage |-> "in", flag |-> @.flag \/ connected, attached |-> TRUE]]
    /\ listening' = heard
    /\ flow' = [flow EXCEPT ![s] = NoFlow]
    /\ UNCHANGED <<systems, current, connected, reconnecting, promise>>

(* The iteration over the map from position i on: to the next LISTEN, or to *)
(* the end of the call.                                                     *)
Visit(f, via, i, failed, heard) ==
    IF via # None /\ Missing(i, heard) # {}
    THEN /\ flow' = [flow EXCEPT ![f] =
              [step |-> "listen", via |-> via,
               at |-> Least(Missing(i, heard)), failed |-> failed]]
         /\ listening' = heard
         /\ UNCHANGED <<systems, consumer, current, connected, reconnecting, promise>>
    ELSE LET bad == failed \/ via = None
         IN  IF f \in Session THEN AttemptEnds(f, bad, heard)
             ELSE RegistrationEnds(f, bad, heard)

(* Variant: the replay is skipped.                                          *)
EstablishNothing(f) == Visit(f, current, Len(systems) + 1, FALSE, listening)

EstablishListens(f) == Visit(f, current, 1, FALSE, listening)

Awaited(f) == systems[flow[f].at]

(* A LISTEN resolves, or it is rejected: its session is lost or refuses it. *)
Listened(f) ==
    /\ flow[f].step = "listen" /\ Up(flow[f].via) /\ Turn
    /\ session' = [session EXCEPT ![flow[f].via].heard = @ \cup {Awaited(f)}]
    /\ Visit(f, flow[f].via, flow[f].at + 1, flow[f].failed,
             listening \cup {Awaited(f)})
    /\ UNCHANGED faults

ListenRejected(f) ==
    /\ flow[f].step = "listen"
    /\ \/ Rejected(f) /\ UNCHANGED faults
       \/ /\ Up(flow[f].via) /\ Turn
          /\ faults < MaxFault /\ faults' = faults + 1
    /\ Visit(f, flow[f].via, flow[f].at + 1, TRUE, listening)
    /\ UNCHANGED session

-----------------------------------------------------------------------------
(* Registration *)

Added(s) == IF Registered(s) THEN systems ELSE Append(systems, s)

MayInitialize(s) ==
    /\ Turn
    /\ flow[s].step = "idle" /\ ~consumer[s].flag
    /\ \/ consumer[s].stage = "new"
       \/ consumer[s].stage = "failed" /\ s \in Retries

(* The attempt of c begins: it verifies the database through Prisma first.  *)
Attempt(c) ==
    /\ session' = [session EXCEPT ![c] = [state |-> "verify", heard |-> {}]]

(* initialize(), up to its first await: the pool is down.                   *)
InitializeDown(s) ==
    /\ MayInitialize(s) /\ ~connected
    /\ systems' = Added(s)
    /\ IF promise = None
       THEN /\ Free # {}
            /\ Attempt(Fresh)
            /\ promise' = Fresh
            /\ flow' = [flow EXCEPT ![s].step = "wait", ![Fresh].step = "verify"]
       ELSE /\ flow' = [flow EXCEPT ![s].step = "wait"]
            /\ UNCHANGED <<session, promise>>
    /\ UNCHANGED <<consumer, current, connected, listening, reconnecting, faults>>

(* initialize() on a pool that is up goes straight to establishListens.     *)
InitializeUp(s) ==
    /\ MayInitialize(s) /\ connected
    /\ systems' = Added(s)
    /\ flow' = [flow EXCEPT ![s].step = "ready"]
    /\ UNCHANGED <<consumer, session, pool, faults>>

(* The registration goes on, whether the attempt succeeded or not.          *)
Proceed(s) ==
    /\ flow[s].step = "ready"
    /\ EstablishListens(s)
    /\ UNCHANGED <<session, faults>>

-----------------------------------------------------------------------------
(* initializeConnection *)

(* The database answers: there is a new client, and no LISTEN on it yet.    *)
Verified(c) ==
    /\ flow[c].step = "verify" /\ Turn
    /\ session' = [session EXCEPT ![c].state = "connecting"]
    /\ current' = c
    /\ listening' = {}
    /\ flow' = [flow EXCEPT ![c].step = "connect"]
    /\ UNCHANGED <<systems, consumer, connected, reconnecting, promise, faults>>

(* Variant: the session is flagged before anything is replayed on it.       *)
ConnectedFirst(c) ==
    /\ flow[c].step = "connect" /\ Turn
    /\ session' = [session EXCEPT ![c].state = "up"]
    /\ EstablishNothing(c)
    /\ UNCHANGED faults

(* connect() resolves: LISTEN is replayed before anything is flagged.       *)
Connected(c) ==
    /\ flow[c].step = "connect" /\ Turn
    /\ session' = [session EXCEPT ![c].state = "up"]
    /\ EstablishListens(c)
    /\ UNCHANGED faults

(* $connect or connect is rejected.                                         *)
AttemptFails(c) ==
    /\ flow[c].step \in {"verify", "connect"} /\ Turn /\ faults < MaxFault
    /\ faults' = faults + 1
    /\ session' = [session EXCEPT ![c].state = "down"]
    /\ AttemptEnds(c, TRUE, {})

(* Variant: the pool gives up in the end.                                   *)
TimerCapped ==
    /\ reconnecting /\ Turn /\ Free # {} /\ faults < MaxFault
    /\ reconnecting' = FALSE
    /\ Attempt(Fresh)
    /\ flow' = [flow EXCEPT ![Fresh].step = "verify"]
    /\ UNCHANGED <<systems, consumer, current, connected, listening, promise, faults>>

(* The reconnect timer starts an attempt of its own, whatever is in flight. *)
Timer ==
    /\ reconnecting /\ Turn /\ Free # {}
    /\ reconnecting' = FALSE
    /\ Attempt(Fresh)
    /\ flow' = [flow EXCEPT ![Fresh].step = "verify"]
    /\ UNCHANGED <<systems, consumer, current, connected, listening, promise, faults>>

(* A session is lost: any client's event speaks for the whole pool.         *)
SessionDies(c) ==
    /\ Up(c) /\ Turn /\ faults < MaxFault
    /\ faults' = faults + 1
    /\ session' = [session EXCEPT ![c] = [state |-> "down", heard |-> {}]]
    /\ HandleError
    /\ UNCHANGED <<systems, current, promise, flow>>

-----------------------------------------------------------------------------
Init ==
    /\ systems = <<>>
    /\ consumer = [s \in System |->
                     [stage |-> "new", flag |-> FALSE, attached |-> FALSE]]
    /\ session = [c \in Session |-> [state |-> "down", heard |-> {}]]
    /\ current = None /\ promise = None
    /\ connected = FALSE /\ reconnecting = FALSE
    /\ listening = {}
    /\ flow = [f \in System \cup Session |-> NoFlow]
    /\ faults = 0

Next ==
    \/ \E s \in System : InitializeDown(s) \/ InitializeUp(s) \/ Proceed(s)
    \/ \E c \in Session :
          Verified(c) \/ Connected(c) \/ AttemptFails(c) \/ SessionDies(c)
    \/ \E f \in System \cup Session : Listened(f) \/ ListenRejected(f)
    \/ Timer

Spec == Init /\ [][Next]_vars

(* Promises settle and timers fire; consumers need not ever initialise, and *)
(* nothing need go wrong.                                                   *)
FairSpec ==
    /\ Spec
    /\ \A s \in System : WF_vars(Proceed(s))
    /\ \A c \in Session : WF_vars(Verified(c)) /\ WF_vars(Connected(c))
    /\ \A f \in System \cup Session :
          WF_vars(Listened(f)) /\ WF_vars(ListenRejected(f))
    /\ WF_vars(Timer)

-----------------------------------------------------------------------------
(* Properties *)

(* A consumer's own flag never says connected over a pool that is not, and  *)
(* a registered consumer knows of every pool that is: its self-heal is      *)
(* gated on that flag.                                                      *)
FlagsFollowPool ==
    \A s \in System :
        /\ consumer[s].flag => connected
        /\ consumer[s].stage = "in" /\ connected => consumer[s].flag

Healing == reconnecting \/ \E c \in Session : Attempting(c)

(* A registered system is LISTENed for on a live session, unless a          *)
(* reconnect is due or under way: no session is lost, and no replay is cut  *)
(* short or overtaken by another attempt, without one.                      *)
HeardOrHealing ==
    \A s \in System : consumer[s].stage = "in" => Heard(s) \/ Healing

(* However often the connection is lost, a registered system is connected   *)
(* and LISTENed for again, without its help: there is no terminal give-up.  *)
ConsumersRecover ==
    \A s \in System :
        consumer[s].stage = "in" ~> [](consumer[s].flag /\ Heard(s))

(* A consumer that takes itself for connected has its handler on the pool   *)
(* and a live session that LISTENs for it: live-updates are degraded only   *)
(* "until a lazy reconnect succeeds" (server-init.ts).                      *)
ConnectedConsumerHears ==
    \A s \in System :
        consumer[s].flag /\ flow[s].step = "idle" /\ ~Healing
            => consumer[s].attached /\ Heard(s)
=============================================================================
