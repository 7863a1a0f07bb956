----------------------------- MODULE StageOrder -----------------------------
(***************************************************************************)
(* What a stage of dependent tasks promises: a task begins only after each *)
(* task it depends on has delivered, and stays begun and delivered.        *)
(***************************************************************************)
CONSTANTS
    Task,  \* the tasks of the stage
    Dep    \* Dep[t]: the tasks that t depends on

VARIABLES
    begun,     \* tasks that were ever set in motion
    delivered  \* tasks whose deliverable is in

vars == <<begun, delivered>>

Init == begun = {} /\ delivered = {}

Begin(t) ==
    /\ Dep[t] \subseteq delivered
    /\ begun' = begun \cup {t}
    /\ UNCHANGED delivered

Deliver(t) ==
    /\ t \in begun
    /\ delivered' = delivered \cup {t}
    /\ UNCHANGED begun

(* A gate begins and delivers in one step: its release.                     *)
Release(t) ==
    /\ Dep[t] \subseteq delivered
    /\ begun' = begun \cup {t}
    /\ delivered' = delivered \cup {t}

Next == \E t \in Task : Begin(t) \/ Deliver(t) \/ Release(t)

Spec == Init /\ [][Next]_vars

=============================================================================
