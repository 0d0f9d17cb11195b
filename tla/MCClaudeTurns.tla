---------------------------- MODULE MCClaudeTurns ----------------------------
(* ClaudeTurns for TLC: turns of contexts that compete for fewer places in   *)
(* either cache, and lists that outgrow their bound.                         *)
EXTENDS ClaudeTurns, TLC

CONSTANTS u1, u2, u3, x1, x2, x3
ThreeTurns    == {u1, u2, u3}
ThreeContexts == {x1, x2, x3}
Symmetric     == Permutations(Turns) \cup Permutations(Contexts)
=============================================================================
