------------------------ MODULE MCExecutionOwnership ------------------------
(* Two machines with two pids each, and one claimed execution.              *)
EXTENDS ExecutionOwnership, TLC

CONSTANTS h1, h2, e1

Hosts == {h1, h2}
Pids == {101, 102}
Rows == {e1}

Symmetric == Permutations(Hosts)
=============================================================================
