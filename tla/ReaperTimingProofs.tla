------------------------- MODULE ReaperTimingProofs -------------------------
(***************************************************************************)
(* The stale sweep spares runs whose rows did not wait, for all limits.    *)
(***************************************************************************)
EXTENDS ReaperTiming, TLAPS

Limit == Envelope + ToolCall

(* The watchdog bounds a live run; a row listed as PENDING was old then,    *)
(* and if it has been claimed since then it was claimed old.                *)
Waited ==
    /\ claimed <= age
    /\ live => age - claimed <= Limit
    /\ status = "PENDING" => ~live /\ listed # "RUNNING" /\ swept = "no"
    /\ listed = "PENDING" => /\ age > PendingReap
                             /\ status # "PENDING" => claimed > PendingReap
    /\ listed = "RUNNING" => age > RunningReap

Inv == TypeOK /\ Waited /\ SweptLiveHadWaited

LEMMA LimitsAreNumbers == Envelope \in Nat /\ Limit \in Nat
BY LimitsAssumption DEF Envelope, Limit

LEMMA InitInv == Init => Inv
<1> SUFFICES ASSUME Init PROVE Inv
  OBVIOUS
<1> USE LimitsAssumption DEF Init
<1>1. TypeOK
  <2>1. live \in BOOLEAN
    OBVIOUS
  <2>2. /\ age \in 0..MaxAge /\ claimed \in 0..MaxAge
        /\ status = "PENDING" /\ listed \in Tiers /\ swept \in Tiers
    BY DEF Tiers
  <2> QED BY <2>1, <2>2 DEF TypeOK
<1>2. Waited /\ SweptLiveHadWaited
  BY DEF Waited, SweptLiveHadWaited
<1> QED BY <1>1, <1>2 DEF Inv

LEMMA NextInv == Inv /\ [Next]_vars => Inv'
<1> SUFFICES ASSUME Inv, [Next]_vars PROVE Inv'
  OBVIOUS
<1> USE LimitsAssumption, LimitsAreNumbers
    DEF Inv, TypeOK, Waited, SweptLiveHadWaited, Tiers, Active
<1> HIDE DEF Limit
<1>1. Limit = Envelope + ToolCall
  BY DEF Limit
<1> HIDE DEF Envelope
<1>2. CASE Tick
  BY <1>1, <1>2 DEF Tick, WithinWatchdog
<1>3. CASE Claim
  BY <1>3 DEF Claim
<1>4. CASE Finish
  BY <1>4 DEF Finish
<1>5. CASE Vanish
  BY <1>5 DEF Vanish
<1>6. CASE Scan
  BY <1>6 DEF Scan, Stale
<1>7. CASE Flip
  BY <1>1, <1>7 DEF Flip
<1>8. CASE UNCHANGED vars
  BY <1>8 DEF vars
<1> QED BY <1>2, <1>3, <1>4, <1>5, <1>6, <1>7, <1>8 DEF Next

(* The clock, the row, the run and the sweep keep their types.              *)
THEOREM TypeCorrect == Spec => []TypeOK
<1>1. Inv => TypeOK
  BY DEF Inv
<1> QED BY <1>1, InitInv, NextInv, PTL DEF Spec

(* Whatever the watchdog, the tool timeout and the two bounds of the        *)
(* sweep: a run that is flipped under its process had waited, past the      *)
(* PENDING bound or for the whole reserve that RUNNING_MS keeps.            *)
THEOREM SweptHadWaited == Spec => []SweptLiveHadWaited
<1>1. Inv => SweptLiveHadWaited
  BY DEF Inv
<1> QED BY <1>1, InitInv, NextInv, PTL DEF Spec
=============================================================================
