---------------------------- MODULE ReaperTiming ----------------------------
(***************************************************************************)
(* The clock behind the stale sweep: one execution from its creation, the  *)
(* run that the watchdog bounds, and the poller that lists old rows and    *)
(* then flips them.  Rows do not influence each other's age, so one is     *)
(* enough.  Time is counted in units of 30 seconds, the budget of one turn.*)
(***************************************************************************)
EXTENDS Integers

CONSTANTS
    Base,        \* EXECUTION_TIMEOUT_BASE_MS
    PerTurn,     \* EXECUTION_TIMEOUT_PER_TURN_MS
    Turns,       \* the tool turns of the run's template, at most MAX_TOOL_TURNS
    ToolCall,    \* TOOL_CALL_TIMEOUT_MS: a tool call outlives the watchdog
    PendingReap, \* EXECUTION_REAPER_PENDING_MS
    RunningReap, \* EXECUTION_REAPER_RUNNING_MS
    MaxAge       \* bounds the clock

Envelope == Base + Turns * PerTurn

(* The ordering that runtime-limits.ts states and test-sdk-request-options  *)
(* pins.                                                                    *)
ASSUME LimitsAssumption ==
    /\ Base \in Nat /\ PerTurn \in Nat /\ Turns \in Nat /\ ToolCall \in Nat
    /\ PendingReap \in Nat /\ RunningReap \in Nat /\ MaxAge \in Nat
    /\ Envelope < RunningReap

VARIABLES
    age,     \* time since createdAt
    status,  \* of the row
    claimed, \* age of the row when it was claimed
    live,    \* is a process running it?
    listed,  \* the status a sweep listed the row with, not flipped yet
    swept    \* history: the listed status with which a live run was flipped

vars == <<age, status, claimed, live, listed, swept>>

Active == status \in {"PENDING", "RUNNING"}

Tiers == {"no", "PENDING", "RUNNING"}

(* The row, the run and the sweep keep their types.                         *)
TypeOK ==
    /\ age \in 0..MaxAge /\ claimed \in 0..MaxAge
    /\ status \in {"PENDING", "RUNNING", "SUCCESS", "FAILED"}
    /\ live \in BOOLEAN
    /\ listed \in Tiers /\ swept \in Tiers

Init ==
    /\ age = 0 /\ claimed = 0
    /\ status = "PENDING" /\ live = FALSE
    /\ listed = "no" /\ swept = "no"

(* Time passes; the watchdog ends a run at its envelope, or after the tool  *)
(* call in flight, which it cannot interrupt.                               *)
WithinWatchdog == age - claimed < Envelope + ToolCall

Tick ==
    /\ age < MaxAge
    /\ live => WithinWatchdog
    /\ age' = age + 1
    /\ UNCHANGED <<status, claimed, live, listed, swept>>

(* Variant: the claim is stamped with a clock that lags.                    *)
ClaimBackdated ==
    /\ status = "PENDING"
    /\ status' = "RUNNING" /\ live' = TRUE /\ claimed' = age - 1
    /\ UNCHANGED <<age, listed, swept>>

Claim ==
    /\ status = "PENDING"
    /\ status' = "RUNNING" /\ live' = TRUE /\ claimed' = age
    /\ UNCHANGED <<age, listed, swept>>

(* The run ends by itself or by its watchdog.  SUCCESS overwrites whatever  *)
(* the row holds, FAILED only an active row.                                *)
Finish ==
    /\ live
    /\ live' = FALSE
    /\ \/ status' = "SUCCESS"
       \/ status' = IF Active THEN "FAILED" ELSE status
    /\ UNCHANGED <<age, claimed, listed, swept>>

(* The process dies, or every persist of its failure throws.                *)
Vanish ==
    /\ live
    /\ live' = FALSE
    /\ UNCHANGED <<age, status, claimed, listed, swept>>

(* Variants: the single literal that predates the two tiers; no RUNNING     *)
(* tier.                                                                    *)
StaleOneTier == Active /\ age > PendingReap
StalePending == status = "PENDING" /\ age > PendingReap

(* The two tiers of the sweep; both count from the creation of the row.     *)
Stale ==
    \/ status = "PENDING" /\ age > PendingReap
    \/ status = "RUNNING" /\ age > RunningReap

Scan ==
    /\ listed = "no" /\ Stale
    /\ listed' = status
    /\ UNCHANGED <<age, status, claimed, live, swept>>

(* The compare-and-swap on PENDING or RUNNING, whichever was listed.        *)
Flip ==
    /\ listed # "no"
    /\ listed' = "no"
    /\ status' = IF Active THEN "FAILED" ELSE status
    /\ swept' = IF Active /\ live THEN listed ELSE swept
    /\ UNCHANGED <<age, claimed, live>>

Next == Tick \/ Claim \/ Finish \/ Vanish \/ Scan \/ Flip

Spec == Init /\ [][Next]_vars

(* The poller runs every ten seconds and time passes; nothing makes a       *)
(* process claim or finish.                                                 *)
FairSpec == Spec /\ WF_vars(Tick) /\ WF_vars(Scan) /\ WF_vars(Flip)

-----------------------------------------------------------------------------
(* A run is flipped under its process only if its row waited long before it *)
(* was claimed: past the PENDING bound, or for more than the reserve that   *)
(* RUNNING_MS keeps over the watchdog.                                      *)
SweptLiveHadWaited ==
    /\ swept = "PENDING" => claimed > PendingReap
    /\ swept = "RUNNING" => claimed > RunningReap - (Envelope + ToolCall)

(* A row whose process vanished, or that nobody claims, does not stay       *)
(* active.                                                                  *)
AbandonedEnds == (Active /\ ~live) ~> (live \/ ~Active)
=============================================================================
