------------------------------ MODULE AgentPool ------------------------------
(***************************************************************************)
(* ACPBackend (src/a2acode/backends/acp.py): turns, each a run of drive(),  *)
(* that share a pool of agent subprocesses, one per context, under one      *)
(* lock for the pool and one lock for each agent.  A turn is the driver of  *)
(* the session that module Session describes.                               *)
(*                                                                         *)
(* A step is the code between two suspension points.  CancelledError may    *)
(* reach a turn wherever it is suspended, more than once.                   *)
(*                                                                         *)
(* External: the ACP library and the process it runs.  Each of their        *)
(* answers may come, fail or not come; closing an agent's AsyncExitStack    *)
(* twice is closing it once; a process may die at any time.                 *)
(***************************************************************************)
EXTENDS Naturals, Sequences, FiniteSets

CONSTANTS Turns,          \* the calls of drive()
          NoTurn,         \* nobody's turn
          Contexts,       \* context ids
          NoContext,      \* context_id is None: nothing to pool under
          MaxAgents,      \* _MAX_AGENTS
          MaxDeaths,      \* bound: agent processes that die by themselves
          Loads,          \* may an agent advertise load_session? may one not?
          Stops           \* may the server be shut down?

ASSUME PoolAssumption == /\ NoTurn \notin Turns /\ NoContext \notin Contexts
                         /\ MaxAgents \in Nat \ {0}
                         /\ MaxDeaths \in Nat /\ Stops \in BOOLEAN
                         /\ IsFiniteSet(Turns)
                         /\ Loads \subseteq BOOLEAN

NoAgent   == 0
NoSession == 0

VARIABLES turns,     \* the turns
          agents,    \* the _Agent objects, in the order they were made
          pool,      \* _agents: agents, least recently used first
          poolLock,  \* _pool_lock: its holder, then those waiting for it
          known,     \* the executor's _session_ids
          opened,    \* how many ACP sessions were created
          leaving,   \* agents aclose() has taken and not yet closed
          stopped,   \* aclose() was called
          peak       \* history: the most turns that were under way at once

vars == <<turns, agents, pool, poolLock, known, opened, leaving, stopped, peak>>

\* What only the executor, shutdown and the histories change.
aside == <<known, opened, leaving, stopped, peak>>

Agents == 1..Len(agents)

\* Where a turn is suspended.
Places == {"idle",
           "locking",     \* waiting for _pool_lock
           "choosing",    \* holding it, between two tests of _evict_if_full
           "replacing",   \* holding it, closing its context's unusable agent
           "evicting",    \* holding it, closing a victim
           "spawning",    \* launching an agent; holding it, if pooled
           "queued",      \* waiting for agent.lock
           "opening",     \* in _open_session
           "prompting",   \* in conn.prompt
           "unbinding",   \* in unbind, its terminals being closed
           "closing",     \* agent.lock and claim given back, closing the agent
           "done"}

\* resume: the session id the executor asked for; ran: the one prompted in;
\* told: the caller was told that the session is a fresh one.
TurnInfo == [pc      : Places,
             context : Contexts \cup {NoContext},
             agent   : Nat,
             resume  : Nat,
             ran     : Nat,
             told    : BOOLEAN]

\* stack: whether the AsyncExitStack is open, being closed, closed, or was
\* left by a cancel in the middle of closing; lock: agent.lock, its holder (or
\* the turn it was just handed to) first; bound: whose session client has.
AgentInfo == [context : Contexts \cup {NoContext},
              stack   : {"open", "closing", "closed", "torn"},
              alive   : BOOLEAN,
              broken  : BOOLEAN,
              canLoad : BOOLEAN,
              session : Nat,
              claims  : Nat,
              lock    : Seq(Turns),
              bound   : Turns \cup {NoTurn}]

Init == /\ turns = [t \in Turns |->
                      [pc |-> "idle", context |-> NoContext, agent |-> NoAgent,
                       resume |-> NoSession, ran |-> NoSession, told |-> FALSE]]
        /\ agents = <<>>
        /\ pool = <<>>
        /\ poolLock = <<>>
        /\ known = [x \in Contexts |-> NoSession]
        /\ opened = 0
        /\ leaving = {}
        /\ stopped = FALSE
        /\ peak = 0
-----------------------------------------------------------------------------
Usable(a) == ~agents[a].broken /\ agents[a].alive

\* s with its one x, if it has it, taken out.
Without(s, x) ==
  IF \E i \in 1..Len(s) : s[i] = x
    THEN LET at == CHOOSE i \in 1..Len(s) : s[i] = x
         IN  [i \in 1..(Len(s) - 1) |-> IF i < at THEN s[i] ELSE s[i + 1]]
    ELSE s

\* The agent the pool has for a context, NoAgent when it has none.
Pooled(x) == IF \E i \in 1..Len(pool) : agents[pool[i]].context = x
               THEN pool[CHOOSE i \in 1..Len(pool) : agents[pool[i]].context = x]
               ELSE NoAgent

UnderWay(ts) == Cardinality({t \in Turns : ts[t].pc \notin {"idle", "done"}})

\* _close_agent, up to where it suspends: a stack that is closed, or being
\* closed by another, has nothing left to unwind.
ClosingSuspends(agent) == agent.stack = "open"
BeginClosing(agent) ==
  IF ClosingSuspends(agent) THEN [agent EXCEPT !.stack = "closing"] ELSE agent

Closed(agent) == [agent EXCEPT !.stack = "closed", !.alive = FALSE]

\* slip: the session bound before the lock is taken
BugClaimed(agent, t) == [agent EXCEPT !.claims = @ + 1,
                                      !.lock   = Append(@, t),
                                      !.bound  = t]

\* _acquire counts the claim; drive asks for the agent's lock, which a free
\* agent grants at once, binding the turn's session.
Claimed(agent, t) ==
  [agent EXCEPT !.claims = @ + 1,
                !.lock   = Append(@, t),
                !.bound  = IF agent.lock = <<>> THEN t ELSE @]

\* _open_session up to its first suspension: a conversation the process holds
\* is gone on with; one it cannot load is replaced, and the caller told.
Entered(turn, agent) ==
  IF agent.session # NoSession /\ turn.resume \in {NoSession, agent.session}
    THEN [turn EXCEPT !.pc = "prompting", !.ran = agent.session]
    ELSE [turn EXCEPT !.pc = "opening",
                      !.told = turn.resume # NoSession /\ ~agent.canLoad]

\* The turn with its claim: at work on the agent, or in the queue for it.
Holding(turn, a, agent) ==
  LET mine == [turn EXCEPT !.agent = a]
  IN  IF agent.lock = <<>> THEN Entered(mine, agent)
                           ELSE [mine EXCEPT !.pc = "queued"]
-----------------------------------------------------------------------------
(***************************************************************************)
(* _acquire.                                                               *)
(***************************************************************************)
\* drive() begins, with the session id the executor knew when execute read it.
Start(t) ==
  /\ turns[t].pc = "idle"
  /\ \E x \in Contexts \cup {NoContext} :
       \E resume \in {NoSession} \cup (IF x = NoContext THEN {} ELSE {known[x]}) :
         /\ turns' = [turns EXCEPT
                        ![t].pc = IF x = NoContext THEN "spawning" ELSE "locking",
                        ![t].context = x,
                        ![t].resume = resume]
         /\ poolLock' = IF x = NoContext THEN poolLock ELSE Append(poolLock, t)
  /\ peak' = IF UnderWay(turns') > peak THEN UnderWay(turns') ELSE peak
  /\ UNCHANGED <<agents, pool, known, opened, leaving, stopped>>

HasPool(t) == poolLock # <<>> /\ Head(poolLock) = t

\* The context has a usable agent, which becomes the most recently used.
Reuse(t) ==
  LET a == Pooled(turns[t].context)
  IN  /\ turns[t].pc = "locking" /\ HasPool(t)
      /\ a # NoAgent /\ Usable(a)
      /\ pool' = Append(Without(pool, a), a)
      /\ poolLock' = Tail(poolLock)
      /\ agents' = [agents EXCEPT ![a] = Claimed(@, t)]
      /\ turns' = [turns EXCEPT ![t] = Holding(@, a, agents[a])]
      /\ UNCHANGED aside

\* It has one that is not usable: that one leaves the pool and is closed.
Replace(t) ==
  LET a == Pooled(turns[t].context)
  IN  /\ turns[t].pc = "locking" /\ HasPool(t)
      /\ a # NoAgent /\ ~Usable(a)
      /\ pool' = Without(pool, a)
      /\ agents' = [agents EXCEPT ![a] = BeginClosing(@)]
      /\ turns' = [turns EXCEPT
                     ![t].pc = IF ClosingSuspends(agents[a]) THEN "replacing"
                                                             ELSE "choosing",
                     ![t].agent = a]
      /\ UNCHANGED <<poolLock, aside>>

\* It has none.
Miss(t) == /\ turns[t].pc = "locking" /\ HasPool(t)
           /\ Pooled(turns[t].context) = NoAgent
           /\ turns' = [turns EXCEPT ![t].pc = "choosing"]
           /\ UNCHANGED <<agents, pool, poolLock, aside>>

\* slip: the pool let grow to one more than its limit
BugFull == Len(pool) > MaxAgents

\* _evict_if_full: as many as may be kept are in the pool, ...
Full == Len(pool) >= MaxAgents

\* slip: an agent whose turns have yet to begin, or to leave, taken for idle
BugVictims == {i \in 1..Len(pool) : agents[pool[i]].bound = NoTurn}

\* ... and those that nobody claims may go.
Victims == {i \in 1..Len(pool) : agents[pool[i]].claims = 0}

Evict(t) ==
  LET a == pool[CHOOSE i \in Victims : \A j \in Victims : i <= j]
  IN  /\ turns[t].pc = "choosing"
      /\ Full /\ Victims # {}
      /\ pool' = Without(pool, a)
      /\ agents' = [agents EXCEPT ![a] = BeginClosing(@)]
      /\ turns' = [turns EXCEPT
                     ![t].pc = IF ClosingSuspends(agents[a]) THEN "evicting"
                                                             ELSE "choosing",
                     ![t].agent = a]
      /\ UNCHANGED <<poolLock, aside>>

\* The close the turn awaits, of the agent it replaces or evicts, is over.
ClosedForRoom(t) ==
  /\ turns[t].pc \in {"replacing", "evicting"}
  /\ agents' = [agents EXCEPT ![turns[t].agent] = Closed(@)]
  /\ turns' = [turns EXCEPT ![t].pc = "choosing", ![t].agent = NoAgent]
  /\ UNCHANGED <<pool, poolLock, aside>>

\* There is room, or every agent is claimed and the pool overshoots.
Launch(t) == /\ turns[t].pc = "choosing"
             /\ ~Full \/ Victims = {}
             /\ turns' = [turns EXCEPT ![t].pc = "spawning", ![t].agent = NoAgent]
             /\ UNCHANGED <<agents, pool, poolLock, aside>>

NewAgent(x, loads) == [context |-> x, stack |-> "open", alive |-> TRUE,
                       broken |-> FALSE, canLoad |-> loads,
                       session |-> NoSession, claims |-> 0, lock |-> <<>>,
                       bound |-> NoTurn]

\* The handshake is done: the agent is claimed and, with a context, pooled.
Spawned(t) ==
  LET x == turns[t].context
      a == Len(agents) + 1
  IN  /\ turns[t].pc = "spawning"
      /\ \E loads \in Loads :
           /\ agents' = Append(agents, Claimed(NewAgent(x, loads), t))
           /\ turns' = [turns EXCEPT ![t] = Holding(@, a, NewAgent(x, loads))]
      /\ pool' = IF x = NoContext THEN pool ELSE Append(pool, a)
      /\ poolLock' = Without(poolLock, t)
      /\ UNCHANGED aside

\* It failed: _spawn has closed what it had opened, and the turn raises.
SpawnFails(t) == /\ turns[t].pc = "spawning"
                 /\ turns' = [turns EXCEPT ![t].pc = "done"]
                 /\ poolLock' = Without(poolLock, t)
                 /\ UNCHANGED <<agents, pool, aside>>
-----------------------------------------------------------------------------
(***************************************************************************)
(* The turn, under agent.lock.                                             *)
(***************************************************************************)
\* The lock comes to the turn: whatever state the agent is in, it is used.
Enter(t) ==
  LET a == turns[t].agent
  IN  /\ turns[t].pc = "queued"
      /\ Head(agents[a].lock) = t
      /\ agents' = [agents EXCEPT ![a].bound = t]
      /\ turns' = [turns EXCEPT ![t] = Entered(@, agents[a])]
      /\ UNCHANGED <<pool, poolLock, aside>>

Answers(a) == agents[a].alive /\ agents[a].stack = "open"

\* slip: a new session, though the agent could load the one asked for
BugOpened(t) ==
  LET a == turns[t].agent
  IN  /\ turns[t].pc = "opening"
      /\ Answers(a)
      /\ opened' = opened + 1
      /\ agents' = [agents EXCEPT ![a].session = opened + 1]
      /\ turns' = [turns EXCEPT ![t].pc = "prompting", ![t].ran = opened + 1]
      /\ UNCHANGED <<pool, poolLock, known, leaving, stopped, peak>>

\* The session to resume was loaded, or a new one created.
Opened(t) ==
  LET a == turns[t].agent
      loads == turns[t].resume # NoSession /\ agents[a].canLoad
      id == IF loads THEN turns[t].resume ELSE opened + 1
  IN  /\ turns[t].pc = "opening"
      /\ Answers(a)
      /\ opened' = IF loads THEN opened ELSE id
      /\ agents' = [agents EXCEPT ![a].session = id]
      /\ turns' = [turns EXCEPT ![t].pc = "prompting", ![t].ran = id]
      /\ UNCHANGED <<pool, poolLock, known, leaving, stopped, peak>>

\* The prompt was answered: the Result names the session, which the executor
\* keeps for the context.
Prompted(t) ==
  LET a == turns[t].agent
  IN  /\ turns[t].pc = "prompting"
      /\ Answers(a)
      /\ known' = IF turns[t].context = NoContext THEN known
                  ELSE [known EXCEPT ![turns[t].context] = turns[t].ran]
      /\ agents' = [agents EXCEPT ![a].bound = NoTurn]
      /\ turns' = [turns EXCEPT ![t].pc = "unbinding"]
      /\ UNCHANGED <<pool, poolLock, opened, leaving, stopped, peak>>

\* An error from the agent, or CancelledError: the agent is to be retired.
Breaks(t) ==
  LET a == turns[t].agent
  IN  /\ turns[t].pc \in {"opening", "prompting"}
      /\ agents' = [agents EXCEPT ![a].broken = TRUE, ![a].bound = NoTurn]
      /\ turns' = [turns EXCEPT ![t].pc = "unbinding"]
      /\ UNCHANGED <<pool, poolLock, aside>>

\* slip: only a broken agent closed, and not one that nothing pools
BugGiveBack(t, agent) ==
  LET left == [agent EXCEPT !.lock = Without(@, t), !.claims = @ - 1]
  IN  /\ agents' = [agents EXCEPT ![turns[t].agent] =
                      IF agent.broken THEN BeginClosing(left) ELSE left]
      /\ turns' = [turns EXCEPT ![t].pc =
                      IF agent.broken /\ ClosingSuspends(agent) THEN "closing"
                                                                ELSE "done"]

\* The claim is given back and, last of all, an agent that is not to be kept
\* is closed.
GiveBack(t, agent) ==
  LET left == [agent EXCEPT !.lock = Without(@, t), !.claims = @ - 1]
      drop == agent.context = NoContext \/ agent.broken
  IN  /\ agents' = [agents EXCEPT ![turns[t].agent] =
                      IF drop THEN BeginClosing(left) ELSE left]
      /\ turns' = [turns EXCEPT ![t].pc =
                      IF drop /\ ClosingSuspends(agent) THEN "closing" ELSE "done"]

\* slip: the claim given back only by a turn that took the lock
BugGiveUp(t) ==
  /\ turns[t].pc = "queued"
  /\ agents' = [agents EXCEPT ![turns[t].agent].lock = Without(@, t)]
  /\ turns' = [turns EXCEPT ![t].pc = "done"]
  /\ UNCHANGED <<pool, poolLock, aside>>

\* Cancelled while queued for the agent.
GiveUp(t) == /\ turns[t].pc = "queued"
             /\ GiveBack(t, agents[turns[t].agent])
             /\ UNCHANGED <<pool, poolLock, aside>>

\* unbind is over, or was cancelled: both go the same way.
Leave(t) == /\ turns[t].pc = "unbinding"
            /\ GiveBack(t, agents[turns[t].agent])
            /\ UNCHANGED <<pool, poolLock, aside>>

ClosedAfter(t) ==
  /\ turns[t].pc = "closing"
  /\ agents' = [agents EXCEPT ![turns[t].agent] = Closed(@)]
  /\ turns' = [turns EXCEPT ![t].pc = "done"]
  /\ UNCHANGED <<pool, poolLock, aside>>
-----------------------------------------------------------------------------
(***************************************************************************)
(* CancelledError elsewhere, a process that dies, and shutdown.            *)
(***************************************************************************)
\* slip: the lock of the pool taken by hand, and kept by a cancelled turn
BugCancelled(t) ==
  /\ turns[t].pc \in {"locking", "replacing", "evicting", "spawning", "closing"}
  /\ poolLock' = poolLock
  /\ agents' = IF turns[t].pc \in {"replacing", "evicting", "closing"}
                 THEN [agents EXCEPT ![turns[t].agent].stack = "torn"]
                 ELSE agents
  /\ turns' = [turns EXCEPT ![t].pc = "done"]
  /\ UNCHANGED <<pool, aside>>

\* Waiting for the pool or working on it, the turn lets go of its lock; a
\* _close_agent it was in is left where it was, for suppress(Exception) does
\* not stop a CancelledError.
Cancelled(t) ==
  /\ turns[t].pc \in {"locking", "replacing", "evicting", "spawning", "closing"}
  /\ poolLock' = Without(poolLock, t)
  /\ agents' = IF turns[t].pc \in {"replacing", "evicting", "closing"}
                 THEN [agents EXCEPT ![turns[t].agent].stack = "torn"]
                 ELSE agents
  /\ turns' = [turns EXCEPT ![t].pc = "done"]
  /\ UNCHANGED <<pool, aside>>

Dies(a) == /\ agents[a].alive
           /\ Cardinality({b \in Agents : ~agents[b].alive
                             /\ agents[b].stack = "open"}) < MaxDeaths
           /\ agents' = [agents EXCEPT ![a].alive = FALSE]
           /\ UNCHANGED <<turns, pool, poolLock, aside>>

\* Nobody is at work on the pool: its lock is free, or about to be handed on.
PoolIsIdle == poolLock # <<>> => turns[Head(poolLock)].pc = "locking"

\* aclose: the pool is emptied under its lock, whose queue it joined anywhere,
\* then its agents are closed, claimed or not.
Stop == /\ Stops /\ ~stopped
        /\ PoolIsIdle
        /\ stopped' = TRUE
        /\ leaving' = {pool[i] : i \in 1..Len(pool)}
        /\ pool' = <<>>
        /\ UNCHANGED <<turns, agents, poolLock, known, opened, peak>>

StopAgent(a) == /\ a \in leaving
                /\ leaving' = leaving \ {a}
                /\ agents' = [agents EXCEPT ![a] = Closed(@)]
                /\ UNCHANGED <<turns, pool, poolLock, known, opened, stopped, peak>>
-----------------------------------------------------------------------------
Acquires(t) == \/ Reuse(t) \/ Replace(t) \/ Miss(t) \/ Evict(t)
               \/ ClosedForRoom(t) \/ Launch(t) \/ Spawned(t) \/ SpawnFails(t)

Runs(t) == \/ Enter(t) \/ Opened(t) \/ Prompted(t) \/ Breaks(t) \/ Leave(t)
           \/ ClosedAfter(t)

Next == \/ \E t \in Turns : \/ Start(t) \/ Acquires(t) \/ Runs(t)
                            \/ GiveUp(t) \/ Cancelled(t)
        \/ \E a \in Agents : Dies(a) \/ StopAgent(a)
        \/ Stop

Spec == Init /\ [][Next]_vars

(***************************************************************************)
(* Fairness: what is ready runs, and the agent answers each request or     *)
(* fails it.  drive() has no timeout of its own: while an agent, or its    *)
(* launch, says nothing, the turn waits, and with a launch the whole pool. *)
(***************************************************************************)
FairSpec == Spec /\ \A t \in Turns : WF_vars(Acquires(t) \/ Runs(t))
-----------------------------------------------------------------------------
TypeOK == /\ turns \in [Turns -> TurnInfo]
          /\ agents \in Seq(AgentInfo)
          /\ pool \in Seq(Agents)
          /\ poolLock \in Seq(Turns)
          /\ known \in [Contexts -> Nat]
          /\ opened \in Nat /\ peak \in Nat
          /\ leaving \subseteq Agents
          /\ stopped \in BOOLEAN

Holders(a) == {t \in Turns : /\ turns[t].agent = a
                             /\ turns[t].pc \in {"queued", "opening", "prompting",
                                                 "unbinding"}}

InPool(a) == \E i \in 1..Len(pool) : pool[i] = a

\* Every claim is some turn's, and every turn that has an agent, or waits for
\* it, has its claim: a cancel anywhere gives it back, once.
ClaimsAreExact == \A a \in Agents : agents[a].claims = Cardinality(Holders(a))

\* No agent is closed under a turn to make room for another: from the moment
\* it is chosen until it is closed nobody is about to use it (the docstring of
\* _evict_if_full).
VictimsAreIdle ==
  \A t \in Turns : turns[t].pc = "evicting" => Holders(turns[t].agent) = {}

\* The pool overshoots _MAX_AGENTS only as far as turns were under way at once.
PoolIsBounded == Len(pool) <= MaxAgents \/ Len(pool) <= peak

\* One connection carries one conversation: one turn at a time is between bind
\* and unbind, the one that has the lock, and the output is routed to it alone.
OneTurnPerAgent ==
  \A a \in Agents :
    /\ agents[a].bound # NoTurn <=>
         \E t \in Holders(a) : turns[t].pc \in {"opening", "prompting"}
    /\ \A t \in Turns :
         /\ turns[t].agent = a
         /\ turns[t].pc \in {"opening", "prompting"}
         => agents[a].bound = t /\ Head(agents[a].lock) = t

\* A turn asked to go on with a session does so, or its caller was told that the
\* session is a fresh one; and no session is ever prompted on behalf of two
\* contexts (_open_session).
RightConversation ==
  /\ \A t \in Turns : turns[t].resume # NoSession /\ turns[t].ran # NoSession
                        => turns[t].ran = turns[t].resume \/ turns[t].told
  /\ \A t, u \in Turns :
       turns[t].ran # NoSession /\ turns[t].ran = turns[u].ran
         => turns[t].context = turns[u].context

\* No turn begins on an agent that was retired (drive: "the connection's state
\* is unknown, so retire it rather than reuse it").
RetiredIsNotReused ==
  [][\A t \in Turns :
       /\ turns[t].pc = "queued"
       /\ turns'[t].pc \in {"opening", "prompting"}
       => ~agents[turns[t].agent].broken]_vars
=============================================================================
