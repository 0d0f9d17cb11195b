------------------------------ MODULE MCLifespan ------------------------------
(* Lifespan for TLC: two turns of two contexts, or of none, that may still be *)
(* under way at shutdown.                                                     *)
EXTENDS Lifespan, TLC

CONSTANTS u1, u2, x1, x2
TwoTurns    == {u1, u2}
TwoContexts == {x1, x2}
=============================================================================
