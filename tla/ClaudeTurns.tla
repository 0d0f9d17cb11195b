------------------------------ MODULE ClaudeTurns ------------------------------
(***************************************************************************)
(* The turns of a context with the Claude backend: which conversation a    *)
(* turn goes on with (the continuity cache _session_ids of                 *)
(* src/a2acode/executor.py), which PlanTracker it works on (_plan_for and  *)
(* drive in src/a2acode/backends/claude.py), and what the caller is shown  *)
(* of the agent's task list.                                               *)
(*                                                                         *)
(* External: the agent.  It keeps a task list for each conversation, goes  *)
(* on with it when the conversation is resumed, names each task by an id   *)
(* that is free at the time, and writes its list either whole or task by   *)
(* task.  A conversation is named by the turn that began it; steps are     *)
(* numbered by the calls that create them.                                 *)
(***************************************************************************)
EXTENDS PlanTracker

CONSTANTS Turns, Contexts,
          NoTurn,        \* no conversation
          MaxContexts,   \* _MAX_CONTEXTS
          MaxPlans,      \* _MAX_PLANS
          MaxCalls       \* bound on the calls of the agents

ASSUME TurnsAssumption ==
  /\ NoTurn \notin Turns
  /\ MaxContexts \in Nat \ {0} /\ MaxPlans \in Nat \ {0} /\ MaxCalls \in Nat

VARIABLES turns,        \* the turns
          sessionIds,   \* _session_ids of the executor
          plans,        \* _plans of the backend: the number of a tracker
          trackers,     \* the PlanTracker objects, by the turn that made them
          lists,        \* external: the agent's task list of each conversation
          inFlight,     \* external: calls without a result: [call, turn, change]
          calls,        \* how many calls there were
          clock,        \* history: how often the two caches were used,
          usedIds,      \* when _session_ids was last, by context,
          usedPlans,    \* and _plans
          made,         \* history: the steps in the order they were made, each
                        \* with its conversation
          mixed,        \* history: contexts of which two turns overlapped
          missed        \* history: conversations whose list a tracker lost
                        \* sight of

cacheVars == <<sessionIds, plans, clock, usedIds, usedPlans>>
listVars  == <<lists, inFlight, calls, made>>
vars == <<turns, trackers, cacheVars, listVars, mixed, missed>>

\* requested: resume is read, and the call may wait to be admitted.  ended: the
\* Result is on the session's queue, and the pump has yet to come to it.
TurnStates == {"idle", "requested", "running", "ended", "over"}

NewTurn == [state |-> "idle", context |-> NoTurn, resume |-> NoTurn,
            conversation |-> NoTurn, tracker |-> NoTurn]

Init == /\ turns = [t \in Turns |-> NewTurn]
        /\ sessionIds = <<>> /\ plans = <<>>
        /\ trackers = [t \in Turns |-> EmptyTracker]
        /\ lists = [t \in Turns |-> <<>>]
        /\ inFlight = {}
        /\ calls = 0
        /\ clock = 0
        /\ usedIds = [x \in Contexts |-> 0] /\ usedPlans = [x \in Contexts |-> 0]
        /\ made = <<>>
        /\ mixed = {} /\ missed = {}

UnderWay(x) == {t \in Turns : /\ turns[t].context = x
                              /\ turns[t].state \notin {"idle", "over"}}
-----------------------------------------------------------------------------
(***************************************************************************)
(* The executor and the backend.                                           *)
(***************************************************************************)
\* _execute: resume is read before the run is admitted.
Request(t, x) ==
  /\ turns[t].state = "idle"
  /\ turns' = [turns EXCEPT ![t].state = "requested", ![t].context = x,
                            ![t].resume = Get(sessionIds, x, NoTurn)]
  /\ mixed' = IF UnderWay(x) # {} THEN mixed \cup {x} ELSE mixed
  /\ UNCHANGED <<cacheVars, trackers, listVars, missed>>

\* slip: the list of the context's last turn inherited without a resume
BugInherits(t) == turns[t].context \in Keys(plans)

Inherits(t) == /\ turns[t].context \in Keys(plans)
               /\ turns[t].resume # NoTurn

\* drive: _plan_for, and the client is connected, to the conversation to be
\* resumed or to a new one.  A conversation with steps whose tracker is gone is
\* gone on with without them.
Drive(t) ==
  LET x       == turns[t].context
      resume  == turns[t].resume
      tracker == IF Inherits(t) THEN Get(plans, x, t) ELSE t
  IN  /\ turns[t].state = "requested"
      /\ turns' = [turns EXCEPT
                     ![t].state = "running", ![t].tracker = tracker,
                     ![t].conversation = IF resume # NoTurn THEN resume ELSE t]
      /\ plans' = Touched(plans, x, tracker, MaxPlans)
      /\ clock' = clock + 1
      /\ usedPlans' = [usedPlans EXCEPT ![x] = clock + 1]
      /\ missed' = IF /\ resume # NoTurn /\ ~Inherits(t)
                      /\ lists[resume] # <<>>
                     THEN missed \cup {resume} ELSE missed
      /\ UNCHANGED <<sessionIds, usedIds, trackers, listVars, mixed>>

\* _remember_session: the pump handles the Result.
Remember(t) ==
  LET x == turns[t].context
  IN  /\ turns[t].state = "ended"
      /\ turns' = [turns EXCEPT ![t].state = "over"]
      /\ sessionIds' = Touched(sessionIds, x, turns[t].conversation, MaxContexts)
      /\ clock' = clock + 1
      /\ usedIds' = [usedIds EXCEPT ![x] = clock + 1]
      /\ UNCHANGED <<plans, usedPlans, trackers, listVars, mixed, missed>>

InFlight(t) == {c \in inFlight : c.turn = t}

\* The run is cancelled, or fails.  What its calls did the tracker is not told.
Stop(t) ==
  /\ turns[t].state \in {"requested", "running", "ended"}
  /\ turns' = [turns EXCEPT ![t].state = "over"]
  /\ inFlight' = inFlight \ InFlight(t)
  /\ missed' = IF InFlight(t) = {} THEN missed
               ELSE missed \cup {turns[t].conversation}
  /\ UNCHANGED <<cacheVars, trackers, lists, calls, made, mixed>>
-----------------------------------------------------------------------------
(***************************************************************************)
(* The agent, and what drive emits and absorbs of it.                      *)
(***************************************************************************)
NoId == 0

WritesWhole(list) == \A i \in 1..Len(list) : list[i].id = NoId
WritesTasks(list) == \A i \in 1..Len(list) : list[i].id # NoId

Step(key, id, done) == [key |-> key, id |-> id, done |-> done]

Written(list) == [i \in 1..Len(list) |-> Item(list[i].key, list[i].done)]
Finished(list) == [i \in 1..Len(list) |-> Item(list[i].key, TRUE)]

\* What an agent may call for next: to add a task, to finish or to delete one;
\* or to write its list with one step more, all done, or empty.
Changes(list) ==
  (IF WritesTasks(list)
     THEN {Create}
          \cup {Update(list[i].id, "done") : i \in {j \in 1..Len(list) :
                                                       ~list[j].done}}
          \cup {Update(list[i].id, "deleted") : i \in 1..Len(list)}
     ELSE {})
  \cup
  (IF WritesWhole(list)
     THEN {Todos(Append(Written(list), Item(calls + 1, FALSE)))}
          \cup (IF list = <<>> THEN {} ELSE {Todos(Finished(list)), Todos(<<>>)})
     ELSE {})

\* The least id the agent does not use: a deleted task's is used again.
FreeId(list) == CHOOSE n \in 1..(Len(list) + 1) :
                  /\ \A i \in 1..Len(list) : list[i].id # n
                  /\ \A k \in 1..(n - 1) : \E i \in 1..Len(list) : list[i].id = k

\* The agent's list once the change is made, and whether it can be.
Possible(list, change) ==
  CASE change.tool = "create" -> WritesTasks(list)
    [] change.tool = "update" -> \E i \in 1..Len(list) : list[i].id = change.id
    [] change.tool = "todos"  -> WritesWhole(list)

After(list, change, call) ==
  CASE change.tool = "create" -> Append(list, Step(call, FreeId(list), FALSE))
    [] change.tool = "update" /\ change.to = "deleted" ->
         LET i == CHOOSE i \in 1..Len(list) : list[i].id = change.id
         IN  Popped(list, list[i].key)
    [] change.tool = "update" /\ change.to = "done" ->
         [i \in 1..Len(list) |-> IF list[i].id = change.id
                                   THEN [list[i] EXCEPT !.done = TRUE] ELSE list[i]]
    [] change.tool = "todos" ->
         [i \in 1..Len(change.steps) |->
            Step(change.steps[i].key, NoId, change.steps[i].value)]

\* A ToolUse: the call is noted.
Use(t, change) ==
  LET c        == [call |-> calls + 1, turn |-> t, change |-> change]
      noted    == Noted(trackers[turns[t].tracker], c.call, change)
      dropped  == {d \in InFlight(t) : d.call \notin Keys(noted.calls)}
  IN  /\ calls < MaxCalls
      /\ calls' = c.call
      /\ inFlight' = inFlight \cup {c}
      /\ trackers' = [trackers EXCEPT ![turns[t].tracker] = noted]
      /\ missed' = IF dropped = {} THEN missed
                   ELSE missed \cup {turns[t].conversation}
      /\ UNCHANGED <<turns, cacheVars, lists, made, mixed>>

\* A ToolResult: the call succeeds, or fails or is denied, and the tracker has
\* its result.
Settle(c, ok) ==
  LET t    == c.turn
      conv == turns[t].conversation
      list == lists[conv]
  IN  /\ turns[t].state = "running"
      /\ ok => Possible(list, c.change)
      /\ inFlight' = inFlight \ {c}
      /\ lists' = IF ok THEN [lists EXCEPT ![conv] = After(list, c.change, c.call)]
                  ELSE lists
      /\ trackers' = [trackers EXCEPT ![turns[t].tracker] =
                        Applied(@, c.call, ok, FreeId(list))]
      /\ made' = IF \E i \in 1..Len(lists'[conv]) : lists'[conv][i].key = c.call
                   THEN Append(made, Item(c.call, conv)) ELSE made
      /\ missed' = IF ok /\ c.change = Todos(<<>>) THEN missed \cup {conv}
                   ELSE missed
      /\ UNCHANGED <<turns, cacheVars, calls, mixed>>

\* The Result, and the end of drive.
End(t) ==
  /\ turns[t].state = "running" /\ InFlight(t) = {}
  /\ turns' = [turns EXCEPT ![t].state = "ended"]
  /\ UNCHANGED <<cacheVars, trackers, listVars, mixed, missed>>

Next == \/ \E t \in Turns : \/ \E x \in Contexts : Request(t, x)
                            \/ Drive(t) \/ End(t) \/ Remember(t) \/ Stop(t)
                            \/ /\ turns[t].state = "running"
                               /\ \E change \in
                                      Changes(lists[turns[t].conversation]) :
                                    Use(t, change)
        \/ \E c \in inFlight : \E ok \in BOOLEAN : Settle(c, ok)

Spec == Init /\ [][Next]_vars
-----------------------------------------------------------------------------
(***************************************************************************)
(* Properties.                                                             *)
(***************************************************************************)
Values(dict) == {dict[i].value : i \in 1..Len(dict)}

TypeOK ==
  /\ \A t \in Turns :
       /\ turns[t].state \in TurnStates
       /\ turns[t].context \in Contexts \cup {NoTurn}
       /\ {turns[t].resume, turns[t].conversation, turns[t].tracker}
            \subseteq Turns \cup {NoTurn}
       /\ Keys(trackers[t].tasks) \subseteq 1..MaxCalls
       /\ Keys(trackers[t].calls) \subseteq 1..MaxCalls
       /\ Values(trackers[t].keys) \subseteq 1..MaxCalls
  /\ Keys(sessionIds) \cup Keys(plans) \cup mixed \subseteq Contexts
  /\ Values(sessionIds) \cup Values(plans) \cup missed \subseteq Turns
  /\ calls \in 0..MaxCalls /\ clock \in Nat

\* A cache that has the contexts used last: within its bound, oldest first, and
\* what it lost was used before all that it has, and had to make room.
KeepsRecent(cache, used, cap) ==
  /\ Len(cache) <= cap
  /\ \A i \in 1..Len(cache) : used[cache[i].key] > 0
  /\ \A i, j \in 1..Len(cache) : i < j => used[cache[i].key] < used[cache[j].key]
  /\ \A x \in Contexts : used[x] > 0 /\ x \notin Keys(cache) =>
       /\ Len(cache) = cap
       /\ \A i \in 1..Len(cache) : used[x] < used[cache[i].key]

\* Both caches lose the least recently used context and no other, also when a
\* context is used again (_remember_session, _plan_for).
RecentAreKept == /\ KeepsRecent(sessionIds, usedIds, MaxContexts)
                 /\ KeepsRecent(plans, usedPlans, MaxPlans)

AtWork(t) == turns[t].state = "running" /\ turns[t].context \notin mixed

\* A turn works on a list whose every step was made in the conversation it goes
\* on with, whatever turns of the context were cancelled, forgotten or begun
\* anew before it, as long as no two overlapped (_plan_for).
ListIsOwn ==
  \A t \in Turns : AtWork(t) =>
    \A key \in Keys(trackers[turns[t].tracker].tasks) :
      \E i \in 1..Len(made) : made[i] = Item(key, turns[t].conversation)

\* The steps made last in a conversation: fewer than MaxSteps were made after.
Latest(conv) ==
  LET Since(i) == {j \in (i + 1)..Len(made) : made[j].value = conv}
  IN  {made[i].key : i \in {i \in 1..Len(made) :
                              /\ made[i].value = conv
                              /\ Cardinality(Since(i)) < MaxSteps}}

\* What the caller is shown of the list is what the agent has, over turns,
\* failed calls and results in any order: of a list written whole its head, of
\* one kept task by task its end, which has each of the last MaxSteps there is
\* (absorb).  A conversation is excepted from when its tracker was dropped, a
\* run of it stopped or too many calls waited, or its list was written empty.
ShownIsAgents ==
  \A t \in Turns : AtWork(t) /\ turns[t].conversation \notin missed =>
    LET shown == trackers[turns[t].tracker].tasks
        list  == lists[turns[t].conversation]
        has(i, j) == shown[i] = Item(list[j].key, list[j].done)
        less  == Len(list) - Len(shown)
    IN  IF WritesWhole(list)
          THEN /\ Len(shown) = IF Len(list) < MaxSteps THEN Len(list) ELSE MaxSteps
               /\ \A i \in 1..Len(shown) : has(i, i)
          ELSE /\ less >= 0
               /\ \A i \in 1..Len(shown) : has(i, less + i)
               /\ \A i \in 1..Len(list) :
                    list[i].key \in Latest(turns[t].conversation) => i > less
=============================================================================
