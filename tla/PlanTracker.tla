------------------------------ MODULE PlanTracker ------------------------------
(***************************************************************************)
(* PlanTracker of the Claude backend (src/a2acode/backends/claude.py): the *)
(* agent's task list, put together from the tool calls that change it.     *)
(*                                                                         *)
(* A call is what it asks for: to create a step, to change one, or to      *)
(* write the whole list, and it lands when its result says it succeeded.   *)
(***************************************************************************)
EXTENDS OrderedDict, FiniteSets

CONSTANTS MaxSteps,     \* _MAX_STEPS
          MaxPending    \* _MAX_PENDING

ASSUME TrackerAssumption == MaxSteps \in Nat \ {0} /\ MaxPending \in Nat \ {0}

\* tasks: a key and whether the step is done; calls: those without a result;
\* keys: the agent's id of a task and the key of its step.
EmptyTracker == [tasks |-> <<>>, calls |-> <<>>, keys |-> <<>>]

\* The tools of _PLAN_TOOLS.  A deletion is a status of TaskUpdate.
Create         == [tool |-> "create"]
Update(id, to) == [tool |-> "update", id |-> id, to |-> to]
Todos(steps)   == [tool |-> "todos", steps |-> steps]

\* absorb of a ToolUse
Noted(tracker, call, change) ==
  [tracker EXCEPT !.calls = Bounded(Assigned(@, call, change), MaxPending)]

\* _todos: a list that is empty is not taken for one.
Rewritten(tracker, steps) ==
  LET kept == SubSeq(steps, 1, IF Len(steps) < MaxSteps THEN Len(steps)
                               ELSE MaxSteps)
  IN  IF kept = <<>> THEN tracker
      ELSE [tracker EXCEPT !.tasks = kept, !.keys = <<>>]

\* _create: the result names the agent's id of the step.
Added(tracker, call, id) ==
  [tracker EXCEPT !.tasks = Bounded(Assigned(@, call, FALSE), MaxSteps),
                  !.keys  = Bounded(Assigned(@, id, call), MaxSteps)]

NoKey == 0

\* The ids that name another step, in the order they have.
OtherNames(keys, key) ==
  LET others  == {i \in 1..Len(keys) : keys[i].value # key}
      Rank(i) == Cardinality({j \in others : j <= i})
  IN  [k \in 1..Cardinality(others) |-> keys[CHOOSE i \in others : Rank(i) = k]]

\* _update: an id that names no step is ignored; one that is deleted names none.
Changed(tracker, id, to) ==
  LET key == Get(tracker.keys, id, NoKey)
  IN  CASE key \notin Keys(tracker.tasks) -> tracker
        [] key \in Keys(tracker.tasks) /\ to = "deleted" ->
             [tracker EXCEPT
                !.tasks = Popped(@, key),
                !.keys  = OtherNames(@, key)]
        [] OTHER -> [tracker EXCEPT !.tasks = Assigned(@, key, TRUE)]

\* slip: a call that failed is applied as if it had succeeded
BugApplied(tracker, call, ok, id) ==
  LET change == Get(tracker.calls, call, [tool |-> "none"])
      rest   == [tracker EXCEPT !.calls = Popped(@, call)]
  IN  CASE change.tool = "create" -> Added(rest, call, id)
        [] change.tool = "update" -> Changed(rest, change.id, change.to)
        [] change.tool = "todos"  -> Rewritten(rest, change.steps)
        [] OTHER -> rest

\* _apply: the result of a call that is not noted, or that failed, changes
\* nothing.
Applied(tracker, call, ok, id) ==
  LET change == Get(tracker.calls, call, [tool |-> "none"])
      rest   == [tracker EXCEPT !.calls = Popped(@, call)]
  IN  CASE ~ok -> rest
        [] ok /\ change.tool = "create" -> Added(rest, call, id)
        [] ok /\ change.tool = "update" -> Changed(rest, change.id, change.to)
        [] ok /\ change.tool = "todos"  -> Rewritten(rest, change.steps)
        [] OTHER -> rest
=============================================================================
