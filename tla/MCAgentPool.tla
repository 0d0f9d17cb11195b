----------------------------- MODULE MCAgentPool -----------------------------
(* AgentPool for TLC: three turns of two contexts, or of none, and room for  *)
(* one agent, so that turns queue, evict and overshoot.                      *)
EXTENDS AgentPool, TLC

CONSTANTS u1, u2, u3, x1, x2
TwoTurns    == {u1, u2}
ThreeTurns  == {u1, u2, u3}
TwoContexts == {x1, x2}
Symmetric   == Permutations(Turns) \cup Permutations(Contexts)
=============================================================================
