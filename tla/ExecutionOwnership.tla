------------------------- MODULE ExecutionOwnership -------------------------
(***************************************************************************)
(* Is the process that claimed an execution still alive?  classifyOwner    *)
(* answers from a stamp (pid, host, boot id, time of the claim), while     *)
(* processes die, pids are used again and machines reboot.                 *)
(***************************************************************************)
EXTENDS Naturals

CONSTANTS
    Host,      \* machines that share the database
    Pid,       \* process ids a machine hands out
    Exec,      \* claimed executions
    HasBootId, \* /proc/sys/kernel/random/boot_id is readable
    MaxTime,   \* bounds the clock
    MaxBoot,   \* bounds how often a machine reboots
    MaxSerial, \* bounds how many processes are started
    None

ASSUME OwnershipAssumption ==
    /\ HasBootId \in BOOLEAN
    /\ MaxTime \in Nat /\ MaxBoot \in Nat /\ MaxSerial \in Nat
    /\ None \notin Nat

VARIABLES
    now,    \* the wall clock, common to all machines
    boots,  \* how often each machine has rebooted: its boot id
    born,   \* start time of the process that has a pid, None if none has
    serial, \* which process that is, of all there ever were
    count,  \* how many processes were ever started
    stamp,  \* the _owner of each claimed execution, None before the claim
    owner   \* history: the process that really claimed it

vars == <<now, boots, born, serial, count, stamp, owner>>

Stamp == [pid: Pid, host: Host, bootId: Nat \cup {None}, claimedAt: Nat]

(* Clocks, process tables and stamps keep their types.                      *)
TypeOK ==
    /\ now \in Nat \ {0}
    /\ boots \in [Host -> Nat]
    /\ born \in [Host \X Pid -> Nat \cup {None}]
    /\ serial \in [Host \X Pid -> Nat]
    /\ count \in Nat
    /\ stamp \in [Exec -> Stamp \cup {None}]
    /\ owner \in [Exec -> Nat]

-----------------------------------------------------------------------------
Up(h, p) == born[<<h, p>>] # None

BootId(h) == IF HasBootId THEN boots[h] ELSE None

(* process.kill(pid, 0) on machine h                                        *)
PidAlive(h, pid) == Up(h, pid)

OtherBoot(o, h) == o.bootId # None /\ BootId(h) # None /\ o.bootId # BootId(h)

(* Variants: without the comparison of times; without the rule.             *)
OwnPid(o, h, p) == o.pid = p
OwnPidNever(o, h, p) == FALSE

(* The stamp names the judge's own pid but is older than the judge.         *)
OwnPidReused(o, h, p) ==
    o.pid = p /\ o.claimedAt > 0 /\ o.claimedAt < born[<<h, p>>]

(* classifyOwner, as the process with pid p on machine h evaluates it       *)
Verdict(o, h, p) ==
    IF o = None THEN "unknown"
    ELSE IF o.host # h THEN "alive"
    ELSE IF OtherBoot(o, h) \/ OwnPidReused(o, h, p) THEN "orphaned"
    ELSE IF PidAlive(h, o.pid) THEN "alive" ELSE "orphaned"

-----------------------------------------------------------------------------
Tick ==
    /\ now < MaxTime
    /\ now' = now + 1
    /\ UNCHANGED <<boots, born, serial, count, stamp, owner>>

(* A machine starts a process under any pid that is free.                   *)
Start(h, p) ==
    /\ ~Up(h, p) /\ count < MaxSerial
    /\ born' = [born EXCEPT ![<<h, p>>] = now]
    /\ serial' = [serial EXCEPT ![<<h, p>>] = count + 1]
    /\ count' = count + 1
    /\ UNCHANGED <<now, boots, stamp, owner>>

Exit(h, p) ==
    /\ Up(h, p)
    /\ born' = [born EXCEPT ![<<h, p>>] = None]
    /\ UNCHANGED <<now, boots, serial, count, stamp, owner>>

Reboot(h) ==
    /\ boots[h] < MaxBoot
    /\ boots' = [boots EXCEPT ![h] = @ + 1]
    /\ born' = [q \in Host \X Pid |-> IF q[1] = h THEN None ELSE born[q]]
    /\ UNCHANGED <<now, serial, count, stamp, owner>>

(* Variant: the time of the claim is left out.                              *)
StampWithoutTime(h, p) ==
    [pid |-> p, host |-> h, bootId |-> BootId(h), claimedAt |-> None]

CurrentOwnerStamp(h, p) ==
    [pid |-> p, host |-> h, bootId |-> BootId(h), claimedAt |-> now]

(* The claim stamps the row with currentOwnerStamp().                       *)
Claim(e, h, p) ==
    /\ Up(h, p) /\ stamp[e] = None
    /\ stamp' = [stamp EXCEPT ![e] = CurrentOwnerStamp(h, p)]
    /\ owner' = [owner EXCEPT ![e] = serial[<<h, p>>]]
    /\ UNCHANGED <<now, boots, born, serial, count>>

Init ==
    /\ now = 1
    /\ boots = [h \in Host |-> 0]
    /\ born = [q \in Host \X Pid |-> None]
    /\ serial = [q \in Host \X Pid |-> 0]
    /\ count = 0
    /\ stamp = [e \in Exec |-> None]
    /\ owner = [e \in Exec |-> 0]

Next ==
    \/ Tick
    \/ \E h \in Host : Reboot(h)
    \/ \E h \in Host, p \in Pid :
          \/ Start(h, p) \/ Exit(h, p)
          \/ \E e \in Exec : Claim(e, h, p)

Spec == Init /\ [][Next]_vars

-----------------------------------------------------------------------------
OwnerAlive(e) ==
    /\ stamp[e] # None
    /\ Up(stamp[e].host, stamp[e].pid)
    /\ serial[<<stamp[e].host, stamp[e].pid>>] = owner[e]

(* Whoever judges, an execution it calls orphaned has lost its process:     *)
(* "the owning process is provably gone; safe to reap".                     *)
OrphanedMeansDead ==
    \A e \in Exec, h \in Host, p \in Pid :
        Up(h, p) /\ Verdict(stamp[e], h, p) = "orphaned" => ~OwnerAlive(e)

(* A dead owner on the judge's machine is missed only while its pid is in   *)
(* use again: by a third process, or by a judge as young as the claim.      *)
DeadOwnerIsFound ==
    \A e \in Exec, h \in Host, p \in Pid :
        /\ Up(h, p) /\ stamp[e] # None
        /\ stamp[e].host = h
        /\ ~OwnerAlive(e)
        /\ Verdict(stamp[e], h, p) # "orphaned"
        => /\ Up(h, stamp[e].pid)
           /\ stamp[e].pid = p => born[<<h, p>>] <= stamp[e].claimedAt
           /\ HasBootId => stamp[e].bootId = boots[h]
=============================================================================
