------------------------ MODULE MCExecutionSelection ------------------------
(* Values for model-checking ExecutionSelection.                           *)
EXTENDS ExecutionSelection, TLC

CONSTANTS author, reviewer, k1, k2, p1, p2

Pair == {author, reviewer}
PairPred == [t \in Pair |-> IF t = reviewer THEN {author} ELSE {}]
Reviewers == {reviewer}

OneCall == {k1}
TwoCalls == {k1, k2}
OneSweeper == {p1}
TwoSweepers == {p1, p2}

Full == [chars |-> 10, fences |-> 3, consistent |-> TRUE, truncated |-> FALSE]
Cut == [chars |-> 1, fences |-> 0, consistent |-> TRUE, truncated |-> TRUE]
Blank == [chars |-> 0, fences |-> 0, consistent |-> TRUE, truncated |-> FALSE]

FullOrCut == {Full, Cut}
AllFacts == {Full, Cut, Blank}

Calm == {}
Faults == {"fault"}
Quick == {"quick"}

Symmetric == Permutations(Call) \cup Permutations(Sweeper)
=============================================================================
