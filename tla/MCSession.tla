------------------------------ MODULE MCSession ------------------------------
(* Session for TLC: two requests and two outputs, so that prompts of two     *)
(* tasks queue behind each other with events before, between and after.      *)
EXTENDS Session

CONSTANTS r1, r2
MCRequests == {r1, r2}
=============================================================================
