---------------------------- MODULE MCEventPool ----------------------------
(* Values for model-checking EventPool.                                    *)
EXTENDS EventPool, TLC

CONSTANTS execution, phaseStage, c1, c2, c3, c4, c5, c6, c7

OneSystem == {phaseStage}
TwoSystems == {execution, phaseStage}

(* With two faults no behaviour needs more than seven.                      *)
SevenSessions == {c1, c2, c3, c4, c5, c6, c7}

(* Only the base emitter forgets the promise of a failed initialisation.    *)
BaseEmitters == {phaseStage}
NoEmitters == {}
=============================================================================
