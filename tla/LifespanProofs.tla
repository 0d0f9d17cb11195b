----------------------------- MODULE LifespanProofs -----------------------------
(***************************************************************************)
(* No agent process is forgotten, and what the lifespan holds is released   *)
(* in the end, whatever the number of turns, contexts and agents: theorems  *)
(* about module Lifespan, with the pool's invariant of AgentPoolProofs.     *)
(***************************************************************************)
EXTENDS Lifespan, AgentPoolProofs

(***************************************************************************)
(* The invariant.                                                          *)
(***************************************************************************)
\* A process that is not being closed: one without a context belongs to the
\* turn that claims it; another is in the pool, or aclose() is to close it.
Kept ==
  \A a \in Agents :
    agents[a].stack = "open" =>
      IF agents[a].context = NoContext
        THEN agents[a].claims > 0
        ELSE Within(pool, a) \/ a \in leaving \/ "backend" \in cut

\* What is in the pool after aclose() emptied it was made after that.
Emptied == /\ before \in Nat /\ before <= Len(agents)
           /\ stopped => \A a : Within(pool, a) => a > before

\* Agents are in the hands of aclose() from when it emptied the pool until they
\* are closed, which is before the client and the engine are.
Course == /\ leaving # {} => stopped
          /\ server \in {"releasing", "ended"} =>
               leaving = {} /\ (stopped \/ "backend" \in cut)

LetGo == server = "ended" =>
           "rest" \in cut \/ (pushClient = "closed" /\ engine # "open")

LifeInv == IInv /\ Kept /\ Emptied /\ Course /\ LetGo

(***************************************************************************)
(* What the turns do to the processes.                                     *)
(***************************************************************************)
\* A step of a turn, or of one process: whatever is open after it was so before
\* and is still where it was, or is new, and claimed or in the pool.
Careful ==
  /\ stopped' = stopped /\ leaving' \subseteq leaving
  /\ Len(agents) \in Nat /\ Len(agents') \in Nat /\ Len(agents) <= Len(agents')
  /\ \A a \in Agents :
       agents'[a].stack = "open" =>
         /\ agents[a].stack = "open"
         /\ agents'[a].context = agents[a].context
         /\ agents[a].context = NoContext /\ agents[a].claims > 0
              => agents'[a].claims > 0
         /\ Within(pool, a) => Within(pool', a)
         /\ a \in leaving => a \in leaving'
  /\ \A a \in Agents' \ Agents :
       IF agents'[a].context = NoContext THEN agents'[a].claims > 0
                                         ELSE Within(pool', a)
  /\ \A a : Within(pool', a) => Within(pool, a) \/ a \in Agents' \ Agents

\* No process is touched.
LEMMA Untouched ==
  ASSUME IInv, agents' = agents, pool' = pool, leaving' = leaving,
         stopped' = stopped
  PROVE  Careful
BY LenProperties DEF IInv, TypeOK, Careful, Agents

\* One is touched, and closed or left as it is.
LEMMA Touched ==
  ASSUME IInv, NEW a \in Agents, NEW new \in AgentInfo,
         agents' = [agents EXCEPT ![a] = new],
         new.stack = "open" =>
           /\ agents[a].stack = "open"
           /\ new.context = agents[a].context
           /\ agents[a].context = NoContext /\ agents[a].claims > 0
                => new.claims > 0
           /\ Within(pool, a) => Within(pool', a)
           /\ leaving' = leaving,
         \A b : b # a /\ Within(pool, b) => Within(pool', b),
         \A b : Within(pool', b) => Within(pool, b),
         leaving' \in {leaving, leaving \ {a}}, stopped' = stopped
  PROVE  Careful
<1>1. /\ agents' \in Seq(AgentInfo) /\ Len(agents') = Len(agents)
      /\ \A b \in Agents : agents'[b] = IF b = a THEN new ELSE agents[b]
  BY ExceptSeq DEF IInv, TypeOK, Agents
<1>2. Len(agents) \in Nat /\ Agents' = Agents
  BY <1>1, LenProperties DEF IInv, TypeOK, Agents
<1>3. ASSUME NEW b \in Agents, agents'[b].stack = "open"
      PROVE  /\ agents[b].stack = "open"
             /\ agents'[b].context = agents[b].context
             /\ agents[b].context = NoContext /\ agents[b].claims > 0
                  => agents'[b].claims > 0
             /\ Within(pool, b) => Within(pool', b)
             /\ b \in leaving => b \in leaving'
  <2>1. CASE b = a
    <3>1. agents'[b] = new
      BY <1>1, <2>1
    <3> QED
      BY <1>3, <2>1, <3>1
  <2>2. CASE b # a
    <3>1. agents'[b] = agents[b]
      BY <1>1, <2>2
    <3>2. b \in leaving => b \in leaving'
      BY <2>2
    <3> QED
      BY <1>3, <2>2, <3>1, <3>2
  <2> QED
    BY <2>1, <2>2
<1> QED
  BY <1>1, <1>2, <1>3 DEF Careful

\* One is closed, or its close begins, or is left in the middle; or it is
\* changed in what does not matter here.
LEMMA TouchedOnly ==
  ASSUME IInv, NEW a \in Agents, NEW new \in AgentInfo,
         agents' = [agents EXCEPT ![a] = new],
         new.stack = "open" => /\ agents[a].stack = "open"
                               /\ new.context = agents[a].context
                               /\ new.claims = agents[a].claims,
         pool' = pool, leaving' = leaving, stopped' = stopped
  PROVE  Careful
BY Touched

LEMMA BeginsShut ==
  ASSUME NEW agent \in AgentInfo
  PROVE  /\ BeginClosing(agent) \in AgentInfo /\ BeginClosing(agent).stack # "open"
         /\ Closed(agent) \in AgentInfo /\ Closed(agent).stack = "closed"
BY DEF AgentInfo, BeginClosing, ClosingSuspends, Closed

LEMMA StartIsCareful == ASSUME IInv, NEW t \in Turns, Start(t) PROVE Careful
BY Untouched DEF Start

LEMMA NoneIsCareful ==
  ASSUME IInv, NEW t \in Turns, Miss(t) \/ Launch(t) \/ SpawnFails(t)
  PROVE  Careful
BY Untouched DEF Miss, Launch, SpawnFails, aside

LEMMA ReuseIsCareful == ASSUME IInv, NEW t \in Turns, Reuse(t) PROVE Careful
<1>1. PICK a \in Agents : a = Pooled(turns[t].context) /\ Within(pool, a)
  BY PooledIs DEF Reuse, IInv
<1>2. PICK other : other = Claimed(agents[a], t)
  OBVIOUS
<1>3. /\ pool' = Append(Without(pool, a), a)
      /\ agents' = [agents EXCEPT ![a] = other]
      /\ leaving' = leaving /\ stopped' = stopped
      /\ turns[t].pc = "locking"
  BY <1>1, <1>2 DEF Reuse, Agents, aside
<1>4. /\ turns[t] \in TurnInfo /\ agents[a] \in AgentInfo
      /\ Sound(turns, agents[a], a) /\ a \in Nat
  BY Known
<1>5. /\ other \in AgentInfo /\ other.stack = agents[a].stack
      /\ other.context = agents[a].context /\ other.claims = agents[a].claims + 1
  <2>1. PICK old : old = agents[a]
    OBVIOUS
  <2> DEFINE lock   == Append(old.lock, t)
             claims == old.claims + 1
             bound  == IF old.lock = <<>> THEN t ELSE old.bound
  <2>2. old \in AgentInfo /\ other = Claimed(old, t)
    BY <1>2, <1>4, <2>1
  <2>3. other = [old EXCEPT !.claims = claims, !.lock = lock, !.bound = bound]
    <3>1. Claimed(old, t) = [old EXCEPT !.claims = claims, !.lock = lock, !.bound = bound]
      BY DEF Claimed
    <3> HIDE DEF lock, claims, bound
    <3> QED
      BY <2>2, <3>1
  <2>4. old.lock \in Seq(Turns)
    BY <2>2 DEF AgentInfo
  <2>5. lock \in Seq(Turns)
    BY <2>4, AppendProperties
  <2>6. claims \in Nat /\ bound \in Turns \cup {NoTurn} /\ claims = old.claims + 1
    BY <2>2 DEF AgentInfo
  <2> HIDE DEF lock, claims, bound
  <2>7. old \in AgentInfo
    BY <2>2
  <2>8. other \in AgentInfo
    BY <2>3, <2>5, <2>6, <2>7 DEF AgentInfo
  <2>9. other.stack = old.stack /\ other.context = old.context /\ other.claims = claims
    BY <2>3, <2>7 DEF AgentInfo
  <2> QED
    BY <2>1, <2>6, <2>8, <2>9
<1>6. \A b : Within(pool', b) <=> Within(pool, b)
  <2>1. PICK kept, rest, next :
          kept = pool /\ rest = Without(kept, a) /\ next = Append(rest, a)
    OBVIOUS
  <2>2. kept \in Seq(Agents) /\ Distinct(kept)
    BY <2>1 DEF IInv, TypeOK
  <2>3. /\ rest \in Seq(Agents) /\ Distinct(rest)
        /\ \A b : Within(rest, b) <=> Within(kept, b) /\ b # a
    BY <2>1, <2>2, TakenOut
  <2>4. \A b : Within(next, b) <=> Within(rest, b) \/ b = a
    BY <2>1, <2>3, Joined
  <2> QED
    BY <1>1, <1>3, <2>1, <2>3, <2>4
<1>7. agents[a].claims \in Nat
  BY <1>4 DEF AgentInfo
<1>8. agents[a].claims > 0 => other.claims > 0
  BY <1>5, <1>7
<1>9. /\ other.stack = "open" => agents[a].stack = "open"
      /\ Within(pool, a) => Within(pool', a)
      /\ \A b : b # a /\ Within(pool, b) => Within(pool', b)
      /\ \A b : Within(pool', b) => Within(pool, b)
  BY <1>5, <1>6
<1> QED
  BY <1>3, <1>5, <1>8, <1>9, Touched

\* An agent leaves the pool, being closed from that moment.
LEMMA RemovedIsCareful ==
  ASSUME IInv, NEW a \in Agents, pool' = Without(pool, a),
         agents' = [agents EXCEPT ![a] = BeginClosing(agents[a])],
         leaving' = leaving, stopped' = stopped
  PROVE  Careful
<1>1. PICK kept, rest : kept = pool /\ rest = Without(kept, a)
  OBVIOUS
<1>2. kept \in Seq(Agents) /\ Distinct(kept)
  BY <1>1 DEF IInv, TypeOK
<1>3. \A b : Within(rest, b) <=> Within(kept, b) /\ b # a
  BY <1>1, <1>2, TakenOut
<1>4. PICK new : new = BeginClosing(agents[a])
  OBVIOUS
<1>5. new \in AgentInfo /\ new.stack # "open"
  BY <1>4, KnownAgent, BeginsShut
<1> QED
  BY <1>1, <1>3, <1>4, <1>5, Touched

LEMMA ReplaceIsCareful == ASSUME IInv, NEW t \in Turns, Replace(t) PROVE Careful
<1>1. PICK a \in Agents : a = Pooled(turns[t].context)
  BY PooledIs DEF Replace, IInv
<1>2. /\ pool' = Without(pool, a)
      /\ agents' = [agents EXCEPT ![a] = BeginClosing(agents[a])]
      /\ leaving' = leaving /\ stopped' = stopped
  BY <1>1 DEF Replace, Agents, aside
<1> QED
  BY <1>2, RemovedIsCareful

LEMMA EvictIsCareful == ASSUME IInv, NEW t \in Turns, Evict(t) PROVE Careful
<1>1. leaving' = leaving /\ stopped' = stopped
  BY DEF Evict, aside
<1> QED
  BY <1>1, VictimIs, RemovedIsCareful

LEMMA ClosedIsCareful ==
  ASSUME IInv, NEW t \in Turns, ClosedForRoom(t) \/ ClosedAfter(t) PROVE Careful
<1>1. PICK a \in Agents : a = turns[t].agent
  BY DEF ClosedForRoom, ClosedAfter, IInv, HasAgent
<1>2. /\ agents' = [agents EXCEPT ![a] = Closed(agents[a])]
      /\ pool' = pool /\ leaving' = leaving /\ stopped' = stopped
  BY <1>1 DEF ClosedForRoom, ClosedAfter, aside, Agents
<1>3. Closed(agents[a]) \in AgentInfo /\ Closed(agents[a]).stack = "closed"
  BY KnownAgent, BeginsShut
<1> QED
  BY <1>2, <1>3, TouchedOnly

\* On an agent a turn changes what does not matter here.
LEMMA AtWorkIsCareful ==
  ASSUME IInv, NEW t \in Turns,
         Enter(t) \/ Opened(t) \/ Prompted(t) \/ Breaks(t)
  PROVE  Careful
<1>1. PICK a \in Agents : a = turns[t].agent
  BY DEF Enter, Opened, Prompted, Breaks, IInv, HasAgent, InUse, AtWork
<1>2. PICK old : old = agents[a]
  OBVIOUS
<1>3. old \in AgentInfo /\ turns[t] \in TurnInfo
  BY <1>2, Known
<1>4. pool' = pool /\ leaving' = leaving /\ stopped' = stopped
  BY DEF Enter, Opened, Prompted, Breaks, aside
<1>5. \E new \in AgentInfo : /\ agents' = [agents EXCEPT ![a] = new]
                             /\ new.stack = old.stack
                             /\ new.context = old.context
                             /\ new.claims = old.claims
  <2>1. CASE Enter(t)
    <3>1. agents' = [agents EXCEPT ![a] = [old EXCEPT !.bound = t]]
      BY <1>1, <1>2, <2>1 DEF Enter, Agents
    <3>2. [old EXCEPT !.bound = t] \in AgentInfo
      BY <1>3 DEF AgentInfo
    <3> QED
      BY <1>3, <3>1, <3>2 DEF AgentInfo
  <2>2. CASE Opened(t)
    <3>1. PICK id : id = IF turns[t].resume # NoSession /\ agents[a].canLoad
                           THEN turns[t].resume ELSE opened + 1
      OBVIOUS
    <3>2. agents' = [agents EXCEPT ![a] = [old EXCEPT !.session = id]]
      BY <1>1, <1>2, <2>2, <3>1 DEF Opened, Agents
    <3>3. id \in Nat
      BY <1>3, <3>1 DEF IInv, TypeOK, TurnInfo
    <3>4. [old EXCEPT !.session = id] \in AgentInfo
      BY <1>3, <3>3 DEF AgentInfo
    <3> QED
      BY <1>3, <3>2, <3>4 DEF AgentInfo
  <2>3. CASE Prompted(t)
    <3>1. agents' = [agents EXCEPT ![a] = [old EXCEPT !.bound = NoTurn]]
      BY <1>1, <1>2, <2>3 DEF Prompted, Agents
    <3>2. [old EXCEPT !.bound = NoTurn] \in AgentInfo
      BY <1>3 DEF AgentInfo
    <3> QED
      BY <1>3, <3>1, <3>2 DEF AgentInfo
  <2>4. CASE Breaks(t)
    <3>1. agents' = [agents EXCEPT ![a] =
                       [old EXCEPT !.broken = TRUE, !.bound = NoTurn]]
      BY <1>1, <1>2, <2>4 DEF Breaks, Agents
    <3>2. [old EXCEPT !.broken = TRUE, !.bound = NoTurn] \in AgentInfo
      BY <1>3 DEF AgentInfo
    <3> QED
      BY <1>3, <3>1, <3>2 DEF AgentInfo
  <2> QED
    BY <2>1, <2>2, <2>3, <2>4
<1> QED
  BY <1>2, <1>4, <1>5, TouchedOnly

\* An agent without a context, whose claim is given back, begins to be closed.
LEMMA GiveBackIsCareful ==
  ASSUME IInv, NEW t \in Turns, GiveUp(t) \/ Leave(t) PROVE Careful
<1>1. PICK a \in Agents : a = turns[t].agent
  BY DEF GiveUp, Leave, IInv, HasAgent, InUse
<1>2. /\ pool' = pool /\ leaving' = leaving /\ stopped' = stopped
      /\ turns[t].pc \in {"queued", "unbinding"}
      /\ GiveBack(t, agents[a])
  BY <1>1 DEF GiveUp, Leave, aside
<1>3. PICK old : old = agents[a]
  OBVIOUS
<1>4. PICK left : left = [old EXCEPT !.lock = Without(@, t), !.claims = @ - 1]
  OBVIOUS
<1>5. PICK new : new = IF old.context = NoContext \/ old.broken
                         THEN BeginClosing(left) ELSE left
  OBVIOUS
<1>6. agents' = [agents EXCEPT ![a] = new]
  <2>1. GiveBack(t, old)
    BY <1>2, <1>3
  <2> QED
    BY <1>1, <1>4, <1>5, <2>1 DEF GiveBack
<1>7. old \in AgentInfo /\ Sound(turns, old, a)
  BY <1>3, KnownAgent
<1>8. /\ left \in AgentInfo /\ left.stack = old.stack
      /\ left.context = old.context
  <2>1. old.lock \in Seq(Turns) /\ old.claims = Len(old.lock)
    BY <1>7 DEF AgentInfo, Sound
  <2>2. Without(old.lock, t) \in Seq(Turns)
    BY <2>1, StaysASequence
  <2>3. Within(old.lock, t)
    BY <1>1, <1>2, <1>7 DEF Sound, Holds, InUse
  <2>4. old.claims - 1 \in Nat
    BY <2>1, <2>3, LenProperties DEF Within
  <2>5. left = [old EXCEPT !.lock = Without(old.lock, t),
                           !.claims = old.claims - 1]
    BY <1>4
  <2> QED
    BY <1>7, <2>2, <2>4, <2>5 DEF AgentInfo
<1>9. BeginClosing(left) \in AgentInfo /\ BeginClosing(left).stack # "open"
  BY <1>8, BeginsShut
<1>10. new \in AgentInfo
  BY <1>5, <1>8, <1>9
<1>11. new.stack = "open" => /\ old.context # NoContext /\ new = left
  BY <1>5, <1>9
<1> QED
  BY <1>2, <1>3, <1>6, <1>8, <1>10, <1>11, Touched

LEMMA CancelledIsCareful ==
  ASSUME IInv, NEW t \in Turns, Cancelled(t) PROVE Careful
<1>1. pool' = pool /\ leaving' = leaving /\ stopped' = stopped
  BY DEF Cancelled, aside
<1>2. CASE turns[t].pc \in {"replacing", "evicting", "closing"}
  <2>1. PICK a \in Agents : a = turns[t].agent
    BY <1>2 DEF IInv, HasAgent
  <2>2. PICK new : new = [agents[a] EXCEPT !.stack = "torn"]
    OBVIOUS
  <2>3. agents' = [agents EXCEPT ![a] = new]
    BY <1>2, <2>1, <2>2 DEF Cancelled
  <2>4. agents[a] \in AgentInfo
    BY KnownAgent
  <2>5. new \in AgentInfo /\ new.stack = "torn"
    BY <2>2, <2>4 DEF AgentInfo
  <2> QED
    BY <1>1, <2>3, <2>5, TouchedOnly
<1>3. CASE turns[t].pc \notin {"replacing", "evicting", "closing"}
  <2>1. agents' = agents
    BY <1>3 DEF Cancelled
  <2> QED
    BY <1>1, <2>1, Untouched
<1> QED
  BY <1>2, <1>3

LEMMA DiesIsCareful == ASSUME IInv, NEW a \in Agents, Dies(a) PROVE Careful
<1>1. PICK new : new = [agents[a] EXCEPT !.alive = FALSE]
  OBVIOUS
<1>2. /\ agents' = [agents EXCEPT ![a] = new]
      /\ pool' = pool /\ leaving' = leaving /\ stopped' = stopped
  BY <1>1 DEF Dies, aside
<1>3. agents[a] \in AgentInfo
  BY KnownAgent
<1>4. /\ new \in AgentInfo /\ new.stack = agents[a].stack
      /\ new.context = agents[a].context /\ new.claims = agents[a].claims
  BY <1>1, <1>3 DEF AgentInfo
<1> QED
  BY <1>2, <1>4, TouchedOnly

LEMMA StopAgentIsCareful ==
  ASSUME IInv, NEW a \in Agents, StopAgent(a) PROVE Careful
<1>1. PICK new : new = Closed(agents[a])
  OBVIOUS
<1>2. /\ agents' = [agents EXCEPT ![a] = new]
      /\ pool' = pool /\ leaving' = leaving \ {a} /\ stopped' = stopped
  BY <1>1 DEF StopAgent
<1>3. new \in AgentInfo /\ new.stack # "open"
  BY <1>1, KnownAgent, BeginsShut
<1> QED
  BY <1>2, <1>3, Touched

\* A new agent is claimed, and with a context it is in the pool.
LEMMA SpawnedIsCareful == ASSUME IInv, NEW t \in Turns, Spawned(t) PROVE Careful
<1>1. PICK loads \in Loads :
        agents' = Append(agents, Claimed(NewAgent(turns[t].context, loads), t))
  BY DEF Spawned
<1>2. PICK a, other : /\ a = Len(agents) + 1
                      /\ other = Claimed(NewAgent(turns[t].context, loads), t)
  OBVIOUS
<1>3. /\ pool' = IF turns[t].context = NoContext THEN pool ELSE Append(pool, a)
      /\ leaving' = leaving /\ stopped' = stopped
  BY <1>2 DEF Spawned, aside
<1>4. other.context = turns[t].context /\ other.claims = 1
  BY <1>2 DEF Claimed, NewAgent
<1>5. agents \in Seq(AgentInfo) /\ Len(agents) \in Nat
  BY LenProperties DEF IInv, TypeOK
<1>6. IInv'
  BY MadeOne
<1>7. /\ Len(agents') = a /\ agents'[a] = other
      /\ \A b \in 1..Len(agents) : agents'[b] = agents[b]
  <2>1. agents' \in Seq(AgentInfo)
    BY <1>6 DEF IInv, TypeOK
  <2>2. PICK made : made = agents
    OBVIOUS
  <2>3. made \in Seq(AgentInfo \cup {other}) /\ agents' = Append(made, other)
    BY <1>1, <1>2, <1>5, <2>2
  <2>4. /\ Len(agents') = Len(made) + 1
        /\ agents'[Len(made) + 1] = other
        /\ \A b \in 1..Len(made) : agents'[b] = made[b]
    BY <2>3, AppendProperties
  <2> QED
    BY <1>2, <2>2, <2>4
<1>8. /\ a \notin Agents /\ Agents' = Agents \cup {a} /\ a \in Nat
      /\ Len(agents) <= a
  BY <1>2, <1>5, <1>7 DEF Agents
<1>9. \A b : Within(pool', b) <=>
               Within(pool, b) \/ (b = a /\ turns[t].context # NoContext)
  <2>1. CASE turns[t].context = NoContext
    BY <1>3, <2>1
  <2>2. CASE turns[t].context # NoContext
    <3>1. PICK kept, next, S : /\ kept = pool /\ next = Append(kept, a)
                               /\ S = Agents \cup {a}
      OBVIOUS
    <3>2. /\ kept \in Seq(Agents) /\ Distinct(kept)
          /\ \A i \in 1..Len(kept) : kept[i] \in Agents
      BY <3>1, ElementOfSeq DEF IInv, TypeOK
    <3>3. kept \in Seq(S) /\ a \in S /\ ~Within(kept, a)
      BY <1>8, <3>1, <3>2 DEF Within
    <3>4. \A b : Within(next, b) <=> Within(kept, b) \/ b = a
      BY <3>1, <3>2, <3>3, Joined
    <3> QED
      BY <1>3, <2>2, <3>1, <3>4
  <2> QED
    BY <2>1, <2>2
<1>10. \A b \in Agents : agents'[b] = agents[b]
  BY <1>7 DEF Agents
<1> QED
  BY <1>3, <1>4, <1>5, <1>7, <1>8, <1>9, <1>10 DEF Careful

(***************************************************************************)
(* The steps of the lifespan.                                              *)
(***************************************************************************)
LEMMA TurnsKeepIt ==
  ASSUME LifeInv, IInv', Careful, UNCHANGED lifeVars,
         server \notin {"failed", "ended"}
  PROVE  LifeInv'
<1> USE DEF lifeVars
<1>1. ASSUME NEW a \in Agents', agents'[a].stack = "open"
      PROVE  IF agents'[a].context = NoContext
               THEN agents'[a].claims > 0
               ELSE Within(pool', a) \/ a \in leaving' \/ "backend" \in cut'
  <2>1. CASE a \in Agents
    <3>1. /\ agents[a].stack = "open"
          /\ agents'[a].context = agents[a].context
          /\ agents[a].context = NoContext /\ agents[a].claims > 0
               => agents'[a].claims > 0
          /\ Within(pool, a) => Within(pool', a)
          /\ a \in leaving => a \in leaving'
      BY <1>1, <2>1 DEF Careful
    <3>2. IF agents[a].context = NoContext
            THEN agents[a].claims > 0
            ELSE Within(pool, a) \/ a \in leaving \/ "backend" \in cut
      BY <2>1, <3>1 DEF LifeInv, Kept
    <3> QED
      BY <3>1, <3>2
  <2>2. CASE a \notin Agents
    BY <1>1, <2>2 DEF Careful
  <2> QED
    BY <2>1, <2>2
<1>2. Kept'
  BY <1>1 DEF Kept
<1>3. before' \in Nat /\ before' <= Len(agents')
  BY DEF LifeInv, Emptied, Careful
<1>4. ASSUME stopped', NEW a, Within(pool', a) PROVE a > before'
  <2>1. stopped
    BY <1>4 DEF Careful
  <2>2. CASE Within(pool, a)
    BY <2>1, <2>2 DEF LifeInv, Emptied
  <2>3. CASE a \in Agents' \ Agents
    <3>1. a \in Nat /\ a > Len(agents)
      BY <2>3 DEF Agents, Careful
    <3> QED
      BY <3>1 DEF LifeInv, Emptied, Careful
  <2> QED
    BY <1>4, <2>2, <2>3 DEF Careful
<1>5. Emptied'
  BY <1>3, <1>4 DEF Emptied
<1>6. Course'
  <2>1. leaving' # {} => stopped'
    BY DEF LifeInv, Course, Careful
  <2>2. server' \in {"releasing", "ended"} =>
          leaving' = {} /\ (stopped' \/ "backend" \in cut')
    BY DEF LifeInv, Course, Careful
  <2> QED
    BY <2>1, <2>2 DEF Course
<1>7. LetGo'
  BY DEF LifeInv, LetGo
<1> QED
  BY <1>2, <1>5, <1>6, <1>7 DEF LifeInv

LEMMA TurnStepsKeepIt == ASSUME LifeInv, TurnSteps PROVE LifeInv'
<1>1. /\ IInv /\ UNCHANGED lifeVars /\ server \notin {"failed", "ended"}
  BY DEF LifeInv, TurnSteps
<1>2. ASSUME NEW t \in Turns, Acquires(t) PROVE Careful
  BY <1>1, <1>2, ReuseIsCareful, ReplaceIsCareful, NoneIsCareful, EvictIsCareful,
     ClosedIsCareful, SpawnedIsCareful DEF Acquires
<1>3. ASSUME NEW t \in Turns, Runs(t) PROVE Careful
  BY <1>1, <1>3, AtWorkIsCareful, GiveBackIsCareful, ClosedIsCareful DEF Runs
<1>4. ASSUME NEW t \in Turns, Start(t) \/ GiveUp(t) \/ Cancelled(t) PROVE Careful
  BY <1>1, <1>4, StartIsCareful, GiveBackIsCareful, CancelledIsCareful
<1>5. ASSUME NEW a \in Agents, Dies(a) \/ StopAgent(a) PROVE Careful
  BY <1>1, <1>5, DiesIsCareful, StopAgentIsCareful
<1>6. Careful /\ [Next]_vars
  BY <1>2, <1>3, <1>4, <1>5 DEF TurnSteps, Next
<1>7. IInv'
  BY <1>1, <1>6, StepIInv
<1> QED
  BY <1>1, <1>6, <1>7, TurnsKeepIt

\* The pool goes over to aclose(), whole.
LEMMA TakePoolKeepsIt == ASSUME LifeInv, TakePool PROVE LifeInv'
<1>1. /\ server = "closing" /\ before' = Len(agents)
      /\ server' = server /\ engine' = engine /\ pushClient' = pushClient
      /\ cut' = cut
      /\ agents' = agents /\ pool' = <<>>
      /\ leaving' = {pool[i] : i \in 1..Len(pool)}
      /\ Stop /\ ~stopped
  BY DEF TakePool, Stop
<1>2. IInv'
  BY <1>1, StoppedAll DEF LifeInv
<1>3. \A a : a \in leaving' <=> Within(pool, a)
  BY <1>1 DEF Within
<1>4. Agents' = Agents /\ \A a : ~Within(pool', a)
  BY <1>1 DEF Agents, Within
<1>5. leaving = {}
  BY <1>1 DEF LifeInv, Course
<1>6. Kept'
  BY <1>1, <1>3, <1>4, <1>5 DEF LifeInv, Kept
<1>7. Emptied'
  BY <1>1, <1>4, LenProperties DEF LifeInv, IInv, TypeOK, Emptied
<1>8. Course' /\ LetGo'
  BY <1>1 DEF Course, LetGo, Stop
<1> QED
  BY <1>2, <1>6, <1>7, <1>8 DEF LifeInv

\* aclose() is cancelled, at most one agent being left in the middle of its
\* close.
LEMMA CloseCutKeepsIt == ASSUME LifeInv, CloseCut PROVE LifeInv'
<1>1. /\ server' = "releasing" /\ cut' = cut \cup {"backend"} /\ leaving' = {}
      /\ turns' = turns /\ pool' = pool /\ poolLock' = poolLock
      /\ known' = known /\ opened' = opened /\ stopped' = stopped
      /\ peak' = peak /\ before' = before
      /\ \/ agents' = agents
         \/ \E a \in leaving :
              agents' = [agents EXCEPT ![a] = [agents[a] EXCEPT !.stack = "torn"]]
  BY DEF CloseCut
<1>2. IInv /\ TypeOK /\ leaving \subseteq Agents
  BY DEF LifeInv, IInv, TypeOK
<1>3. /\ KeepsClaims
      /\ \A b \in Agents : /\ agents'[b].context = agents[b].context
                           /\ agents'[b].stack = "open" => agents[b].stack = "open"
  <2>1. CASE agents' = agents
    BY <1>2, <2>1, AgentsStay
  <2>2. ASSUME NEW a \in leaving,
               agents' = [agents EXCEPT ![a] = [agents[a] EXCEPT !.stack = "torn"]]
        PROVE  /\ KeepsClaims
               /\ \A b \in Agents :
                    /\ agents'[b].context = agents[b].context
                    /\ agents'[b].stack = "open" => agents[b].stack = "open"
    <3>1. PICK new : new = [agents[a] EXCEPT !.stack = "torn"]
      OBVIOUS
    <3>2. a \in Agents /\ agents[a] \in AgentInfo
      BY <1>2, KnownAgent
    <3>3. /\ new \in AgentInfo /\ new.context = agents[a].context
          /\ new.stack = "torn"
      BY <3>1, <3>2 DEF AgentInfo
    <3>4. KeepsClaims
      BY <1>2, <2>2, <3>2, OneShut
    <3>5. \A b \in Agents : agents'[b] = IF b = a THEN new ELSE agents[b]
      BY <1>2, <2>2, <3>1, <3>2, <3>3, ExceptSeq DEF TypeOK, Agents
    <3> QED
      BY <3>3, <3>4, <3>5
  <2> QED
    BY <1>1, <2>1, <2>2
<1>4. Len(agents') = Len(agents) /\ Agents' = Agents
  BY <1>3 DEF KeepsClaims, Agents
<1>5. AsideOK'
  BY <1>1, <1>2, <1>4 DEF TypeOK, AsideOK
<1>6. IInv'
  BY <1>1, <1>2, <1>3, <1>5, PoolStays, NobodyMoved
<1>7. Kept'
  <2>1. \A a \in Agents : agents'[a].claims = agents[a].claims
    BY <1>3 DEF KeepsClaims
  <2> QED
    BY <1>1, <1>3, <1>4, <2>1 DEF LifeInv, Kept
<1>8. Emptied'
  BY <1>1, <1>4 DEF LifeInv, Emptied
<1>9. Course' /\ LetGo'
  BY <1>1 DEF Course, LetGo
<1> QED
  BY <1>6, <1>7, <1>8, <1>9 DEF LifeInv

\* The backend is as it was.
LEMMA BackendStays ==
  ASSUME LifeInv, UNCHANGED vars, cut \subseteq cut', before' = before,
         Course', LetGo'
  PROVE  LifeInv'
<1>1. /\ agents' = agents /\ pool' = pool /\ leaving' = leaving
      /\ stopped' = stopped
  BY DEF vars
<1>2. IInv'
  BY StepIInv DEF LifeInv
<1>3. Kept' /\ Emptied'
  BY <1>1 DEF LifeInv, Kept, Emptied, Agents
<1> QED
  BY <1>2, <1>3 DEF LifeInv

\* The server starts, serves, and goes on to close the backend.
LEMMA OpenKeepsIt ==
  ASSUME LifeInv, Initialize \/ StartFails \/ Serve \/ ShutDown PROVE LifeInv'
<1>1. /\ UNCHANGED vars /\ cut' = cut /\ before' = before
      /\ server' \notin {"releasing", "ended"}
      /\ leaving' = leaving /\ stopped' = stopped
  BY DEF Initialize, StartFails, Serve, ShutDown, vars
<1>2. Course' /\ LetGo'
  BY <1>1 DEF LifeInv, Course, LetGo
<1> QED
  BY <1>1, <1>2, BackendStays

\* Then the rest is released.
LEMMA ReleaseKeepsIt ==
  ASSUME LifeInv, BackendClosed \/ ReleaseClient \/ DisposeEngine \/ ReleaseCut
  PROVE  LifeInv'
<1>1. /\ UNCHANGED vars /\ cut \subseteq cut' /\ before' = before
      /\ leaving' = leaving /\ stopped' = stopped
  BY DEF BackendClosed, ReleaseClient, DisposeEngine, ReleaseCut, vars
<1>2. LetGo'
  BY DEF LetGo, BackendClosed, ReleaseClient, DisposeEngine, ReleaseCut
<1>3. Course'
  <2>1. CASE BackendClosed
    BY <1>1, <2>1 DEF Course, BackendClosed
  <2>2. CASE server = "releasing"
    BY <1>1, <2>2 DEF LifeInv, Course
  <2> QED
    BY <2>1, <2>2 DEF ReleaseClient, DisposeEngine, ReleaseCut
<1> QED
  BY <1>1, <1>2, <1>3, BackendStays

LEMMA InitLifeInv == LifeInit => LifeInv
<1> SUFFICES ASSUME LifeInit PROVE LifeInv
  OBVIOUS
<1>1. /\ IInv /\ agents = <<>> /\ pool = <<>> /\ leaving = {}
      /\ stopped = FALSE /\ server = "starting" /\ before = 0
  BY InitIInv DEF LifeInit, Init
<1>2. Agents = {} /\ Len(agents) = 0
  BY <1>1 DEF Agents
<1> QED
  BY <1>1, <1>2 DEF LifeInv, Kept, Emptied, Course, LetGo

LEMMA StepLifeInv == LifeInv /\ [LifeNext]_<<vars, lifeVars>> => LifeInv'
<1> SUFFICES ASSUME LifeInv, [LifeNext]_<<vars, lifeVars>> PROVE LifeInv'
  OBVIOUS
<1>1. CASE LifeNext
  BY <1>1, OpenKeepsIt, TakePoolKeepsIt, CloseCutKeepsIt, ReleaseKeepsIt,
     TurnStepsKeepIt DEF LifeNext
<1>2. CASE UNCHANGED <<vars, lifeVars>>
  <2>1. /\ UNCHANGED vars /\ cut' = cut /\ before' = before
        /\ server' = server /\ engine' = engine /\ pushClient' = pushClient
        /\ leaving' = leaving /\ stopped' = stopped
    BY <1>2 DEF vars, lifeVars
  <2>2. Course' /\ LetGo'
    BY <2>1 DEF LifeInv, Course, LetGo
  <2> QED
    BY <2>1, <2>2, BackendStays
<1> QED
  BY <1>1, <1>2

(***************************************************************************)
(* The theorems.                                                           *)
(***************************************************************************)
\* The inductive invariant holds throughout.
THEOREM LifespanIsSound == LifeSpec => []LifeInv
BY InitLifeInv, StepLifeInv, PTL DEF LifeSpec

\* A process that is not being closed is in the pool, claimed by a turn, or in
\* the hands of an aclose() that was not cancelled, whichever turns are cancelled
\* and whichever processes die.
THEOREM NoneIsForgotten == LifeSpec => []NoProcessIsForgotten
<1>1. LifeInv => NoProcessIsForgotten
  BY DEF LifeInv, Kept, NoProcessIsForgotten, InPool, Within
<1> QED
  BY <1>1, LifespanIsSound, PTL

\* When the lifespan has ended, every process there was when the pool was emptied
\* is closed, or its turn closes it, and the client and the engine are released;
\* only a close that was itself cancelled is excepted (server.py, lifespan).
THEOREM AllIsReleased == LifeSpec => []ReleasedInTheEnd
<1>1. ASSUME LifeInv, server = "ended", "backend" \notin cut,
             NEW a \in 1..before, agents[a].stack = "open"
      PROVE  agents[a].context = NoContext /\ agents[a].claims > 0
  <2>1. leaving = {} /\ stopped
    BY <1>1 DEF LifeInv, Course
  <2>2. a \in Agents /\ ~(a > before)
    BY <1>1, LenProperties DEF LifeInv, Emptied, Agents, IInv, TypeOK
  <2>3. ~Within(pool, a)
    BY <1>1, <2>1, <2>2 DEF LifeInv, Emptied
  <2> QED
    BY <1>1, <2>1, <2>2, <2>3 DEF LifeInv, Kept
<1>2. LifeInv => ReleasedInTheEnd
  BY <1>1 DEF ReleasedInTheEnd, LifeInv, LetGo
<1> QED
  BY <1>2, LifespanIsSound, PTL
=============================================================================
