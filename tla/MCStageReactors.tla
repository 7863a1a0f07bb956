-------------------------- MODULE MCStageReactors --------------------------
(* Values for model-checking StageReactors.                                *)
EXTENDS StageReactors, TLC

CONSTANTS leg, gate, leaf, sink, s1, s2

(* A leaf and a leg feed a sink.                                            *)
Join == {leg, leaf, sink}
JoinKind == [t \in Join |-> IF t = leg THEN "PIPELINE" ELSE "LEAF"]
JoinDep == [t \in Join |-> IF t = sink THEN {leg, leaf} ELSE {}]

(* A leg, the gate behind it, and a leaf behind both                        *)
Chain == {leg, gate, sink}
ChainKind == [t \in Chain |->
    IF t = leg THEN "PIPELINE" ELSE IF t = gate THEN "GATE" ELSE "LEAF"]
ChainDep == [t \in Chain |->
    IF t = gate THEN {leg} ELSE IF t = sink THEN {leg, gate} ELSE {}]

OneSlot == {s1}
TwoSlots == {s1, s2}

Calm == {}
Failures == {"fail"}
Trouble == {"crash", "fail"}
=============================================================================
