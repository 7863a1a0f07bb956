------------------------- MODULE MCPipelineHarness -------------------------
(* Values for model-checking PipelineHarness.                              *)
EXTENDS PipelineHarness, TLC

CONSTANTS c1, c2, s1, s2, s3

OneChild == {c1}
TwoChildren == {c1, c2}
OneSlot == {s1}
TwoSlots == {s1, s2}
ThreeSlots == {s1, s2, s3}

Machines == {"crash"}
CrashesAndPeople == {"crash", "human"}
People == {"human"}
PeopleAnyTime == {"human", "close"}

Symmetric == Permutations(Child) \cup Permutations(Slot)
=============================================================================
