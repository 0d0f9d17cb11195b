------------------------------ MODULE MCBridge ------------------------------
(* Bridge for TLC: calls, one of which is past the bound, and two commands *)
(* for one terminal, over turns of one connection.                         *)
EXTENDS Bridge, TLC

CONSTANTS a1, a2, c1, c2
TwoCalls    == {a1, a2}
TwoCommands == {c1, c2}
Symmetric == Permutations(Calls) \cup Permutations(Commands)
=============================================================================
