-------------------------- MODULE MCAgentExecution --------------------------
(* Constants for model-checking AgentExecution on small instances.          *)
EXTENDS AgentExecution, TLC

CONSTANTS t1, e1, e2, e3, p1, p2, c1, c2

OneTask == {t1}
NoTask == {}
OneRow == {e1}
TwoRows == {e1, e2}
ThreeRows == {e1, e2, e3}
OneProc == {p1}
TwoProcs == {p1, p2}
OneClient == {c1}
TwoClients == {c1, c2}

Users == {"execute", "cancel", "complete", "automations"}
AllButExecute == {"rest", "reactor", "stream", "automations"}
RestOnly == {"rest"}
StreamOnly == {"stream"}
EngineAndStream == {"execute", "stream"}

Symmetric == Permutations(Exec) \cup Permutations(Proc) \cup Permutations(Client)
=============================================================================
