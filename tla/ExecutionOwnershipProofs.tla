---------------------- MODULE ExecutionOwnershipProofs ----------------------
(***************************************************************************)
(* The verdict of classifyOwner can be trusted, for every number of        *)
(* machines, pids, reboots and processes.                                  *)
(***************************************************************************)
EXTENDS ExecutionOwnership, TLAPS

(* Processes are born in the past and numbered in the order of their start. *)
ProcessesCounted ==
    \A h \in Host, p \in Pid :
        Up(h, p) => born[<<h, p>>] <= now /\ serial[<<h, p>>] <= count

(* A stamp is no older than the start of the process that made it, as long  *)
(* as that process lives, and carries the boot id of its time.              *)
StampsFaithful ==
    \A e \in Exec :
        stamp[e] # None =>
            /\ owner[e] <= count
            /\ stamp[e].claimedAt > 0
            /\ stamp[e].bootId = None <=> ~HasBootId
            /\ OwnerAlive(e) => /\ born[<<stamp[e].host, stamp[e].pid>>] <= stamp[e].claimedAt
                                /\ HasBootId => stamp[e].bootId = boots[stamp[e].host]

Inv == TypeOK /\ ProcessesCounted /\ StampsFaithful

LEMMA InitInv == Init => Inv
BY OwnershipAssumption
   DEF Init, Inv, TypeOK, ProcessesCounted, StampsFaithful, Up, Stamp

LEMMA NextInv == Inv /\ [Next]_vars => Inv'
<1> SUFFICES ASSUME Inv, [Next]_vars PROVE Inv'
  OBVIOUS
<1> USE OwnershipAssumption DEF Inv
<1>1. CASE Tick
  BY <1>1 DEF Tick, TypeOK, ProcessesCounted, StampsFaithful, Up, OwnerAlive
<1>2. ASSUME NEW h \in Host, NEW p \in Pid, Start(h, p) PROVE Inv'
  <2>1. TypeOK'
    BY <1>2 DEF Start, TypeOK
  <2>2. ProcessesCounted'
    BY <1>2 DEF Start, TypeOK, ProcessesCounted, Up
  <2>3. ASSUME NEW e \in Exec, stamp[e] # None, OwnerAlive(e)'
        PROVE  /\ OwnerAlive(e)
               /\ born'[<<stamp[e].host, stamp[e].pid>>] = born[<<stamp[e].host, stamp[e].pid>>]
    <3> DEFINE q == <<stamp[e].host, stamp[e].pid>>
    <3>1. q \in Host \X Pid /\ owner[e] <= count
      BY <2>3, OwnershipAssumption DEF TypeOK, Stamp, StampsFaithful
    <3>2. q # <<h, p>>
      <4>1. serial'[<<h, p>>] = count + 1
        BY <1>2 DEF Start, TypeOK
      <4>2. owner[e] \in Nat /\ count \in Nat
        BY DEF TypeOK
      <4>3. serial'[q] = owner[e]
        BY <1>2, <2>3 DEF OwnerAlive, Start
      <4> QED BY <3>1, <4>1, <4>2, <4>3
    <3>3. born'[q] = born[q] /\ serial'[q] = serial[q]
      BY <1>2, <3>1, <3>2 DEF Start, TypeOK
    <3> QED BY <1>2, <2>3, <3>3 DEF Start, OwnerAlive, Up
  <2>4. StampsFaithful'
    BY <1>2, <2>3 DEF Start, StampsFaithful, TypeOK
  <2> QED BY <2>1, <2>2, <2>4
<1>3. ASSUME NEW h \in Host,
             Reboot(h) \/ \E p \in Pid : Exit(h, p)
      PROVE  Inv'
  <2>1. TypeOK'
    <3>1. CASE Reboot(h)
      BY <3>1 DEF Reboot, TypeOK
    <3>2. ASSUME NEW p \in Pid, Exit(h, p) PROVE TypeOK'
      BY <3>2 DEF Exit, TypeOK
    <3> QED BY <1>3, <3>1, <3>2
  <2>2. /\ \A q \in Host \X Pid : born'[q] \in {born[q], None}
        /\ UNCHANGED <<now, serial, count, stamp, owner>>
    BY <1>3 DEF Exit, Reboot, TypeOK
  <2>3. ProcessesCounted'
    BY <2>2 DEF ProcessesCounted, Up
  <2>4. ASSUME NEW e \in Exec, stamp[e] # None, OwnerAlive(e)'
        PROVE  /\ OwnerAlive(e)
               /\ born'[<<stamp[e].host, stamp[e].pid>>] = born[<<stamp[e].host, stamp[e].pid>>]
               /\ boots'[stamp[e].host] = boots[stamp[e].host]
    <3> DEFINE q == <<stamp[e].host, stamp[e].pid>>
    <3>1. q \in Host \X Pid /\ stamp[e].host \in Host
      BY <2>4 DEF TypeOK, Stamp
    <3>2. born'[q] = born[q] /\ born[q] # None
      BY <2>2, <2>4, <3>1 DEF OwnerAlive, Up
    <3>3. boots'[stamp[e].host] = boots[stamp[e].host]
      BY <1>3, <3>1, <3>2 DEF Reboot, Exit, TypeOK
    <3> QED BY <2>2, <2>4, <3>2, <3>3 DEF OwnerAlive, Up
  <2>5. StampsFaithful'
    BY <2>2, <2>4 DEF StampsFaithful
  <2> QED BY <2>1, <2>3, <2>5
<1>4. ASSUME NEW e \in Exec, NEW h \in Host, NEW p \in Pid, Claim(e, h, p) PROVE Inv'
  <2>1. CurrentOwnerStamp(h, p) \in Stamp
    BY DEF CurrentOwnerStamp, BootId, TypeOK, Stamp
  <2>2. TypeOK'
    BY <1>4, <2>1 DEF Claim, TypeOK
  <2>3. ProcessesCounted'
    BY <1>4 DEF Claim, ProcessesCounted, Up
  <2>4. /\ stamp'[e] = CurrentOwnerStamp(h, p) /\ owner'[e] = serial[<<h, p>>]
        /\ \A f \in Exec \ {e} : stamp'[f] = stamp[f] /\ owner'[f] = owner[f]
        /\ UNCHANGED <<now, boots, born, serial, count>>
    BY <1>4 DEF Claim, TypeOK
  <2>5. /\ stamp'[e].host = h /\ stamp'[e].pid = p
        /\ stamp'[e].claimedAt = now
        /\ stamp'[e].bootId = BootId(h)
    BY <2>4 DEF CurrentOwnerStamp
  <2>6. ASSUME NEW f \in Exec \ {e}, stamp'[f] # None
        PROVE  /\ owner'[f] <= count'
               /\ stamp'[f].claimedAt > 0
               /\ stamp'[f].bootId = None <=> ~HasBootId
               /\ OwnerAlive(f)' =>
                     /\ born'[<<stamp'[f].host, stamp'[f].pid>>] <= stamp'[f].claimedAt
                     /\ HasBootId => stamp'[f].bootId = boots'[stamp'[f].host]
    BY <2>4, <2>6 DEF StampsFaithful, OwnerAlive, Up
  <2>7. /\ owner'[e] <= count'
        /\ stamp'[e].claimedAt > 0
        /\ stamp'[e].bootId = None <=> ~HasBootId
        /\ born'[<<stamp'[e].host, stamp'[e].pid>>] <= stamp'[e].claimedAt
        /\ HasBootId => stamp'[e].bootId = boots'[stamp'[e].host]
    BY <1>4, <2>4, <2>5 DEF Claim, ProcessesCounted, BootId, TypeOK
  <2>8. StampsFaithful'
    BY <2>6, <2>7 DEF StampsFaithful
  <2> QED BY <2>2, <2>3, <2>8
<1>5. CASE UNCHANGED vars
  BY <1>5 DEF vars, TypeOK, ProcessesCounted, StampsFaithful, Up, OwnerAlive
<1> QED BY <1>1, <1>2, <1>3, <1>4, <1>5 DEF Next

LEMMA Invariance == Spec => []Inv
BY InitInv, NextInv, PTL DEF Spec

(* Clocks, process tables and stamps keep their types.                      *)
THEOREM TypeCorrect == Spec => []TypeOK
<1>1. Inv => TypeOK
  BY DEF Inv
<1> QED BY <1>1, Invariance, PTL

(* An execution is called orphaned only when the process that claimed it is *)
(* gone, however pids are reused and machines reboot: the other-boot rule   *)
(* and the own-pid rule each contradict what a stamp says of a live owner.  *)
THEOREM OrphanedIsDead == Spec => []OrphanedMeansDead
<1>1. Inv => OrphanedMeansDead
  <2> SUFFICES ASSUME Inv, NEW e \in Exec, NEW h \in Host, NEW p \in Pid,
                      Up(h, p), Verdict(stamp[e], h, p) = "orphaned", OwnerAlive(e)
               PROVE  FALSE
    BY DEF OrphanedMeansDead
  <2>1. /\ stamp[e] # None /\ stamp[e].host = h
        /\ \/ OtherBoot(stamp[e], h) \/ OwnPidReused(stamp[e], h, p)
           \/ ~PidAlive(h, stamp[e].pid)
    BY DEF Verdict
  <2>2. /\ born[<<h, stamp[e].pid>>] <= stamp[e].claimedAt
        /\ HasBootId => stamp[e].bootId = boots[h]
    BY <2>1 DEF Inv, StampsFaithful
  <2>3. ~OtherBoot(stamp[e], h)
    BY <2>2 DEF OtherBoot, BootId
  <2>4. ~OwnPidReused(stamp[e], h, p)
    <3>1. born[<<h, p>>] \in Nat /\ stamp[e].claimedAt \in Nat
      BY <2>1 DEF Inv, TypeOK, Stamp, Up
    <3> QED BY <2>2, <3>1 DEF OwnPidReused
  <2>5. PidAlive(h, stamp[e].pid)
    BY <2>1 DEF PidAlive, OwnerAlive
  <2> QED BY <2>1, <2>3, <2>4, <2>5
<1> QED BY <1>1, Invariance, PTL

(* A dead owner on the judge's machine is missed only while its pid is in   *)
(* use again in the same boot.                                              *)
THEOREM DeadOwnerFound == Spec => []DeadOwnerIsFound
<1>1. Inv => DeadOwnerIsFound
  <2> SUFFICES ASSUME Inv, NEW e \in Exec, NEW h \in Host, NEW p \in Pid,
                      Up(h, p), stamp[e] # None, stamp[e].host = h,
                      Verdict(stamp[e], h, p) # "orphaned"
               PROVE  /\ Up(h, stamp[e].pid)
                      /\ stamp[e].pid = p => born[<<h, p>>] <= stamp[e].claimedAt
                      /\ HasBootId => stamp[e].bootId = boots[h]
    BY DEF DeadOwnerIsFound
  <2>1. /\ ~OtherBoot(stamp[e], h) /\ ~OwnPidReused(stamp[e], h, p)
        /\ Up(h, stamp[e].pid)
    BY DEF Verdict, PidAlive
  <2>2. stamp[e].claimedAt > 0 /\ (HasBootId => stamp[e].bootId # None)
    BY DEF Inv, StampsFaithful
  <2>3. /\ born[<<h, p>>] \in Nat /\ stamp[e].claimedAt \in Nat
        /\ boots[h] \in Nat
    BY DEF Inv, TypeOK, Stamp, Up
  <2> QED BY <2>1, <2>2, <2>3, OwnershipAssumption DEF OtherBoot, OwnPidReused, BootId
<1> QED BY <1>1, Invariance, PTL
=============================================================================
