----------------------------- MODULE MCExecutor -----------------------------
(* Executor for TLC.  The cfgs choose the tasks, how many sessions may live, *)
(* how many messages arrive, and which hazards are let loose.                *)
EXTENDS Executor, TLC

CONSTANTS t1, t2, q1, q2
OneTask     == {t1}
OtherTask   == {t2}
TwoTasks    == {t1, t2}
OneRequest  == {q1}
TwoRequests == {q1, q2}
NoTasks     == {}
NoRequests  == {}
Symmetric   == Permutations(Tasks) \cup Permutations(Requests)
=============================================================================
