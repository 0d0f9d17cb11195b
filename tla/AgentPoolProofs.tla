---------------------------- MODULE AgentPoolProofs ----------------------------
(***************************************************************************)
(* Claims, locks and victims of the pool of agents, how far it grows and   *)
(* which conversation a turn goes on with, whatever the number of turns,   *)
(* contexts and agents and the limit of the pool: theorems about module    *)
(* AgentPool.                                                              *)
(***************************************************************************)
EXTENDS AgentPool, SequenceTheorems, FiniteSetTheorems, WellFoundedInduction,
        TLAPS

(***************************************************************************)
(* Queues and the pool as sequences without repetition.                    *)
(***************************************************************************)
Within(s, x) == \E i \in 1..Len(s) : s[i] = x

Distinct(s) == \A i, j \in 1..Len(s) : s[i] = s[j] => i = j

\* x joins at the end.
LEMMA Joined ==
  ASSUME NEW S, NEW s \in Seq(S), NEW x \in S, Distinct(s), ~Within(s, x)
  PROVE  LET new == Append(s, x)
         IN  /\ new \in Seq(S) /\ Distinct(new)
             /\ Len(new) = Len(s) + 1
             /\ \A y : Within(new, y) <=> Within(s, y) \/ y = x
             /\ new[1] = IF s = <<>> THEN x ELSE s[1]
<1> DEFINE new == Append(s, x)
<1>1. /\ new \in Seq(S) /\ Len(new) = Len(s) + 1 /\ Len(s) \in Nat
      /\ \A i \in 1..Len(s) : new[i] = s[i]
      /\ new[Len(s) + 1] = x
  BY AppendProperties, LenProperties
<1>2. s # <<>> => 1 \in 1..Len(s)
  BY <1>1, EmptySeq
<1>3. Len(<<>>) = 0
  OBVIOUS
<1> HIDE DEF new
<1>4. ASSUME NEW y PROVE Within(new, y) <=> Within(s, y) \/ y = x
  <2>1. ASSUME NEW i \in 1..Len(new), new[i] = y PROVE Within(s, y) \/ y = x
    <3>1. i \in 1..Len(s) \/ i = Len(s) + 1
      BY <1>1
    <3> QED
      BY <1>1, <2>1, <3>1 DEF Within
  <2>2. \A i \in 1..Len(s) : i \in 1..Len(new)
    BY <1>1
  <2>3. Len(s) + 1 \in 1..Len(new)
    BY <1>1
  <2> QED
    BY <1>1, <2>1, <2>2, <2>3 DEF Within
<1>5. Distinct(new)
  <2> SUFFICES ASSUME NEW i \in 1..Len(new), NEW j \in 1..Len(new), new[i] = new[j]
               PROVE  i = j
    BY DEF Distinct
  <2>1. /\ i \in 1..Len(s) \/ i = Len(s) + 1
        /\ j \in 1..Len(s) \/ j = Len(s) + 1
    BY <1>1
  <2> QED
    BY <1>1, <2>1 DEF Distinct, Within
<1> QED
  BY <1>1, <1>2, <1>3, <1>4, <1>5 DEF new

\* x is taken out.
LEMMA TakenOut ==
  ASSUME NEW S, NEW s \in Seq(S), NEW x, Distinct(s),
         NEW new, new = Without(s, x)
  PROVE  /\ new \in Seq(S) /\ Distinct(new)
         /\ Within(s, x) => Len(new) = Len(s) - 1
         /\ \A y : Within(new, y) <=> Within(s, y) /\ y # x
         /\ s # <<>> /\ s[1] # x => new[1] = s[1]
<1>1. /\ Len(s) \in Nat /\ \A i \in 1..Len(s) : s[i] \in S
      /\ s # <<>> => Len(s) >= 1
  BY LenProperties, ElementOfSeq, EmptySeq
<1>2. CASE ~Within(s, x)
  <2>1. new = s
    BY <1>2 DEF Without, Within
  <2> QED
    BY <1>2, <2>1
<1>3. CASE Within(s, x)
  <2> DEFINE at == CHOOSE i \in 1..Len(s) : s[i] = x
             value(i) == IF i < at THEN s[i] ELSE s[i + 1]
  <2>1. new = [i \in 1..(Len(s) - 1) |-> value(i)]
    BY <1>3 DEF Without, Within
  <2>2. at \in 1..Len(s) /\ s[at] = x
    BY <1>3 DEF Within
  <2>3. \A i \in 1..(Len(s) - 1) : value(i) \in S
    BY <1>1
  <2>4. new \in Seq(S) /\ Len(new) = Len(s) - 1
    <3>1. Len(s) - 1 \in Nat
      BY <1>1, <2>2
    <3> HIDE DEF value
    <3> QED
      BY <2>1, <2>3, <3>1, IsASeq
  <2> HIDE DEF at
  <2>5. \A i \in 1..Len(new) : new[i] = IF i < at THEN s[i] ELSE s[i + 1]
    BY <2>1, <2>4
  <2> HIDE DEF value
  <2>6. Distinct(new)
    <3> SUFFICES ASSUME NEW i \in 1..Len(new), NEW j \in 1..Len(new),
                        new[i] = new[j]
                 PROVE  i = j
      BY DEF Distinct
    <3> DEFINE p == IF i < at THEN i ELSE i + 1
               q == IF j < at THEN j ELSE j + 1
    <3>1. /\ p \in 1..Len(s) /\ new[i] = s[p]
          /\ q \in 1..Len(s) /\ new[j] = s[q]
      BY <1>1, <2>2, <2>4, <2>5
    <3>2. p = q
      BY <3>1 DEF Distinct
    <3> QED
      BY <2>2, <2>4, <3>2
  <2>7. ASSUME NEW y PROVE Within(new, y) <=> Within(s, y) /\ y # x
    <3>1. ASSUME NEW i \in 1..Len(new), new[i] = y PROVE Within(s, y) /\ y # x
      <4> DEFINE p == IF i < at THEN i ELSE i + 1
      <4>1. p \in 1..Len(s) /\ s[p] = y /\ p # at
        BY <1>1, <2>2, <2>4, <2>5, <3>1
      <4> QED
        BY <2>2, <4>1 DEF Within, Distinct
    <3>2. ASSUME NEW i \in 1..Len(s), s[i] = y, y # x PROVE Within(new, y)
      <4>1. i < at \/ i > at
        BY <2>2, <3>2
      <4>2. CASE i < at
        <5>1. i \in 1..Len(new) /\ new[i] = y
          BY <1>1, <2>2, <2>4, <2>5, <3>2, <4>2
        <5> QED
          BY <5>1 DEF Within
      <4>3. CASE i > at
        <5>1. i - 1 \in 1..Len(new) /\ new[i - 1] = y
          BY <1>1, <2>2, <2>4, <2>5, <3>2, <4>3
        <5> QED
          BY <5>1 DEF Within
      <4> QED
        BY <4>1, <4>2, <4>3
    <3> QED
      BY <3>1, <3>2 DEF Within
  <2>8. ASSUME s # <<>>, s[1] # x PROVE new[1] = s[1]
    <3>1. 1 < at /\ 1 \in 1..Len(new)
      BY <1>1, <2>2, <2>4, <2>8
    <3> QED
      BY <2>5, <3>1
  <2> QED
    BY <2>4, <2>6, <2>7, <2>8
<1> QED
  BY <1>2, <1>3

\* As many entries as there are things within.
LEMMA Counted ==
  ASSUME NEW S, NEW s \in Seq(S), Distinct(s),
         NEW T, \A x : x \in T <=> Within(s, x)
  PROVE  Len(s) = Cardinality(T)
<1>1. Len(s) \in Nat /\ s \in [1..Len(s) -> S] /\ DOMAIN s = 1..Len(s)
  BY LenProperties
<1>2. s \in [1..Len(s) -> T]
  BY <1>1 DEF Within
<1>3. s \in Bijection(1..Len(s), T)
  BY <1>1, <1>2 DEF Bijection, Injection, Surjection, IsInjective, Distinct, Within
<1>4. ExistsBijection(1..Len(s), T)
  BY <1>3 DEF ExistsBijection
<1> QED
  BY <1>1, <1>4, FS_CountingElements

(***************************************************************************)
(* One agent and the turns that hold it.                                   *)
(***************************************************************************)
AtWork == {"opening", "prompting"}
InUse  == {"queued", "unbinding"} \cup AtWork

Holds(turn, a) == turn.agent = a /\ turn.pc \in InUse

\* The lock of an agent is held by, or waited for by, exactly the turns that
\* claim it; the one past the queue is at its head, and the bound session is the
\* one's that is at work.
Sound(ts, agent, a) ==
  /\ Distinct(agent.lock)
  /\ agent.claims = Len(agent.lock)
  /\ \A t \in Turns : Within(agent.lock, t) <=> Holds(ts[t], a)
  /\ \A t \in Turns : /\ ts[t].agent = a
                      /\ ts[t].pc \in AtWork \cup {"unbinding"}
                      => agent.lock[1] = t
  /\ \A t \in Turns : agent.bound = t <=> ts[t].agent = a /\ ts[t].pc \in AtWork

\* One turn changes, and nothing of the agent that matters.
LEMMA Elsewhere ==
  ASSUME NEW ts, NEW new, NEW agent, NEW other, NEW a, NEW t \in Turns,
         Sound(ts, agent, a),
         \A u \in Turns : u # t => new[u] = ts[u],
         ~Holds(ts[t], a), ~Holds(new[t], a),
         other.lock = agent.lock, other.claims = agent.claims,
         other.bound = agent.bound
  PROVE  Sound(new, other, a)
BY DEF Sound, Holds, InUse, AtWork

\* A turn claims the agent (Claimed, Holding).
LEMMA Claiming ==
  ASSUME NEW ts, NEW new, NEW agent \in AgentInfo, NEW a, NEW t \in Turns,
         Sound(ts, agent, a),
         \A u \in Turns : u # t => new[u] = ts[u],
         ~Holds(ts[t], a),
         new[t].agent = a,
         IF agent.lock = <<>> THEN new[t].pc \in AtWork ELSE new[t].pc = "queued"
  PROVE  Sound(new, Claimed(agent, t), a) /\ Claimed(agent, t) \in AgentInfo
<1> DEFINE lock == Append(agent.lock, t)
           other == Claimed(agent, t)
<1>1. agent.lock \in Seq(Turns) /\ agent.claims \in Nat
  BY DEF AgentInfo
<1>2. Distinct(agent.lock) /\ ~Within(agent.lock, t)
  BY DEF Sound
<1>3. /\ lock \in Seq(Turns) /\ Distinct(lock)
      /\ Len(lock) = Len(agent.lock) + 1
      /\ \A y : Within(lock, y) <=> Within(agent.lock, y) \/ y = t
      /\ lock[1] = IF agent.lock = <<>> THEN t ELSE agent.lock[1]
  BY <1>1, <1>2, Joined
<1>4. /\ other.lock = lock /\ other.claims = agent.claims + 1
      /\ other.bound = IF agent.lock = <<>> THEN t ELSE agent.bound
  BY DEF Claimed, AgentInfo
<1>5. other \in AgentInfo
  <2> DEFINE bound  == IF agent.lock = <<>> THEN t ELSE agent.bound
             claims == agent.claims + 1
  <2>1. other = [agent EXCEPT !.claims = claims, !.lock = lock, !.bound = bound]
    BY DEF Claimed
  <2>2. bound \in Turns \cup {NoTurn} /\ claims \in Nat
    BY <1>1 DEF AgentInfo
  <2> HIDE DEF lock, bound, claims, other
  <2> QED
    BY <1>3, <2>1, <2>2 DEF AgentInfo
<1> HIDE DEF lock, other
<1>6. agent.lock = <<>> => \A u \in Turns : ~Within(agent.lock, u)
  BY DEF Within
<1>7. \A u \in Turns : Within(lock, u) <=> Holds(new[u], a)
  BY <1>3 DEF Sound, Holds, InUse, AtWork
<1>8. \A u \in Turns : /\ new[u].agent = a /\ new[u].pc \in AtWork \cup {"unbinding"}
                       => lock[1] = u
  BY <1>3, <1>6 DEF Sound, Holds, InUse, AtWork
<1>9. \A u \in Turns : other.bound = u <=> new[u].agent = a /\ new[u].pc \in AtWork
  BY <1>4, <1>6 DEF Sound, Holds, InUse, AtWork
<1>10. other.claims = Len(lock)
  BY <1>3, <1>4 DEF Sound
<1> QED
  BY <1>3, <1>4, <1>5, <1>7, <1>8, <1>9, <1>10 DEF Sound, other

\* A turn in the queue, or through with the agent, gives its claim back
\* (GiveBack).
GivesBack(ts, new, agent, left, a, t) ==
  /\ Sound(ts, agent, a)
  /\ \A u \in Turns : u # t => new[u] = ts[u]
  /\ ts[t].agent = a /\ ts[t].pc \in {"queued", "unbinding"}
  /\ ~Holds(new[t], a)
  /\ left.lock = Without(agent.lock, t)
  /\ left.claims = agent.claims - 1 /\ left.bound = agent.bound

LEMMA GivingBack ==
  ASSUME NEW ts, NEW new, NEW agent \in AgentInfo, NEW left, NEW a,
         NEW t \in Turns, GivesBack(ts, new, agent, left, a, t)
  PROVE  /\ Sound(new, left, a)
         /\ left.lock \in Seq(Turns) /\ left.claims \in Nat
<1>0. PICK lock : lock = Without(agent.lock, t)
  OBVIOUS
<1>1. agent.lock \in Seq(Turns) /\ agent.claims \in Nat
  BY DEF AgentInfo
<1>2. Distinct(agent.lock) /\ Within(agent.lock, t)
  BY DEF GivesBack, Sound, Holds, InUse
<1>3. /\ lock \in Seq(Turns) /\ Distinct(lock)
      /\ Len(lock) = Len(agent.lock) - 1
      /\ \A y : Within(lock, y) <=> Within(agent.lock, y) /\ y # t
      /\ agent.lock # <<>> /\ agent.lock[1] # t => lock[1] = agent.lock[1]
  <2>1. PICK queue : queue = agent.lock
    OBVIOUS
  <2>2. /\ queue \in Seq(Turns) /\ Distinct(queue) /\ Within(queue, t)
        /\ lock = Without(queue, t)
    BY <1>0, <1>1, <1>2, <2>1
  <2>3. /\ lock \in Seq(Turns) /\ Distinct(lock)
        /\ Len(lock) = Len(queue) - 1
        /\ \A y : Within(lock, y) <=> Within(queue, y) /\ y # t
        /\ queue # <<>> /\ queue[1] # t => lock[1] = queue[1]
    BY <2>2, TakenOut
  <2> QED
    BY <2>1, <2>3
<1> USE DEF GivesBack
<1>4. /\ left.lock = lock /\ left.claims = agent.claims - 1
      /\ left.bound = agent.bound
  BY <1>0
<1>5. left.claims = Len(lock) /\ Len(lock) \in Nat
  BY <1>3, <1>4, LenProperties DEF Sound
<1>6. agent.lock # <<>>
  BY <1>2 DEF Within
<1>7. \A u \in Turns : Within(lock, u) <=> Holds(new[u], a)
  BY <1>3 DEF Sound
<1>8. \A u \in Turns : /\ new[u].agent = a /\ new[u].pc \in AtWork \cup {"unbinding"}
                       => lock[1] = u
  <2> SUFFICES ASSUME NEW u \in Turns, new[u].agent = a,
                      new[u].pc \in AtWork \cup {"unbinding"}
               PROVE  lock[1] = u
    OBVIOUS
  <2>1. u # t
    BY DEF Holds, InUse, AtWork
  <2>2. agent.lock[1] = u
    BY <2>1 DEF Sound
  <2> QED
    BY <1>3, <1>6, <2>1, <2>2
<1>9. \A u \in Turns : left.bound = u <=> new[u].agent = a /\ new[u].pc \in AtWork
  BY <1>4 DEF Sound, Holds, InUse, AtWork
<1> QED
  BY <1>3, <1>4, <1>5, <1>6, <1>7, <1>8, <1>9 DEF Sound

(***************************************************************************)
(* The invariant.                                                          *)
(***************************************************************************)
HasAgent == InUse \cup {"replacing", "evicting", "closing"}

\* An agent that is being closed to make room is in the pool no more, so that no
\* turn can come to it, and no turn holds it.
Gone(ts, kept, a) == ~Within(kept, a) /\ \A u \in Turns : ~Holds(ts[u], a)

IInv == /\ TypeOK
        /\ Distinct(pool)
        /\ \A t \in Turns : turns[t].pc \in HasAgent => turns[t].agent \in Agents
        /\ \A a \in Agents : Sound(turns, agents[a], a)
        /\ \A t \in Turns : turns[t].pc = "evicting" => Gone(turns, pool, turns[t].agent)

\* The types of what no claim depends on.
AsideOK == /\ poolLock \in Seq(Turns)
           /\ known \in [Contexts -> Nat]
           /\ opened \in Nat /\ peak \in Nat
           /\ leaving \subseteq Agents
           /\ stopped \in BOOLEAN

\* A pool from which agents were taken, or in which they changed places.
Shrinks == /\ pool' \in Seq(Agents) /\ Distinct(pool')
           /\ \A a : Within(pool', a) => Within(pool, a)

\* Of the agents nothing changes that concerns a claim.
KeepsClaims == /\ agents' \in Seq(AgentInfo) /\ Len(agents') = Len(agents)
               /\ \A a \in Agents : /\ agents'[a].lock = agents[a].lock
                                    /\ agents'[a].claims = agents[a].claims
                                    /\ agents'[a].bound = agents[a].bound

\* The turn goes from one place to another, holding no agent at either.
Roams(t) == /\ turns' \in [Turns -> TurnInfo]
            /\ \A u \in Turns : u # t => turns'[u] = turns[u]
            /\ turns[t].pc \notin InUse /\ turns'[t].pc \notin InUse
            /\ turns'[t].pc \in HasAgent => turns'[t].agent \in Agents

\* An agent that nobody claims nobody holds.
LEMMA Unclaimed ==
  ASSUME IInv, NEW a \in Agents, agents[a].claims = 0, NEW u \in Turns
  PROVE  ~Holds(turns[u], a)
<1>1. Sound(turns, agents[a], a)
  BY DEF IInv
<1> QED
  BY <1>1 DEF Sound, Within

\* No turn takes, has or leaves an agent, and of the agents nothing changes that
\* concerns one.
LEMMA Quiet ==
  ASSUME IInv, AsideOK', Shrinks, KeepsClaims,
         turns' \in [Turns -> TurnInfo],
         \A u \in Turns :
           \/ turns'[u] = turns[u]
           \/ /\ turns[u].pc \notin InUse /\ turns'[u].pc \notin InUse
              /\ turns'[u].pc \in HasAgent => turns'[u].agent \in Agents
              /\ turns'[u].pc = "evicting" =>
                   /\ ~Within(pool', turns'[u].agent)
                   /\ agents[turns'[u].agent].claims = 0
  PROVE  IInv'
<1>1. Agents' = Agents
  BY DEF Agents, KeepsClaims
<1>2. TypeOK'
  BY <1>1 DEF TypeOK, AsideOK, Shrinks, KeepsClaims
<1>3. \A u \in Turns : \A a : Holds(turns'[u], a) <=> Holds(turns[u], a)
  BY DEF Holds
<1>4. \A u \in Turns : turns'[u].pc \in HasAgent => turns'[u].agent \in Agents
  BY DEF IInv
<1>5. ASSUME NEW a \in Agents PROVE Sound(turns', agents'[a], a)
  <2>1. Sound(turns, agents[a], a)
    BY DEF IInv
  <2> QED
    BY <1>3, <2>1 DEF Sound, Holds, InUse, AtWork, KeepsClaims
<1>6. ASSUME NEW t \in Turns, turns'[t].pc = "evicting"
      PROVE  Gone(turns', pool', turns'[t].agent)
  <2> DEFINE a == turns'[t].agent
  <2>1. CASE turns'[t] = turns[t]
    <3>1. Gone(turns, pool, a)
      BY <1>6, <2>1 DEF IInv
    <3> QED
      BY <1>3, <3>1 DEF Gone, Shrinks
  <2>2. CASE turns'[t] # turns[t]
    <3>1. a \in Agents /\ ~Within(pool', a) /\ agents[a].claims = 0
      BY <1>4, <1>6, <2>2 DEF HasAgent
    <3>2. \A u \in Turns : ~Holds(turns[u], a)
      BY <3>1, Unclaimed
    <3> HIDE DEF a
    <3> QED
      BY <1>3, <3>1, <3>2 DEF Gone, a
  <2> QED
    BY <2>1, <2>2
<1> QED
  BY <1>1, <1>2, <1>4, <1>5, <1>6 DEF IInv, Shrinks

LEMMA Roaming ==
  ASSUME IInv, AsideOK', Shrinks, KeepsClaims, NEW t \in Turns, Roams(t),
         turns'[t].pc = "evicting" => /\ ~Within(pool', turns'[t].agent)
                                      /\ agents[turns'[t].agent].claims = 0
  PROVE  IInv'
BY Quiet DEF Roams

\* One turn and one agent: it takes it out of the pool's, goes on with it or
\* leaves it.
LEMMA OneAgent ==
  ASSUME IInv, AsideOK', Shrinks,
         NEW t \in Turns, NEW a \in Agents, NEW new \in AgentInfo,
         turns' \in [Turns -> TurnInfo],
         \A u \in Turns : u # t => turns'[u] = turns[u],
         agents' = [agents EXCEPT ![a] = new],
         Sound(turns', new, a),
         \A b : Holds(turns[t], b) \/ Holds(turns'[t], b) => b = a,
         Holds(turns'[t], a) => Holds(turns[t], a) \/ Within(pool, a),
         turns'[t].pc \in HasAgent => turns'[t].agent = a,
         turns'[t].pc # "evicting"
  PROVE  IInv'
<1>1. /\ agents' \in Seq(AgentInfo) /\ Len(agents') = Len(agents)
      /\ \A b \in Agents : agents'[b] = IF b = a THEN new ELSE agents[b]
  BY ExceptSeq DEF IInv, TypeOK, Agents
<1>2. Agents' = Agents
  BY <1>1 DEF Agents
<1>3. TypeOK'
  BY <1>1, <1>2 DEF TypeOK, AsideOK, Shrinks
<1>4. \A u \in Turns : turns'[u].pc \in HasAgent => turns'[u].agent \in Agents
  BY DEF IInv
<1>5. ASSUME NEW b \in Agents PROVE Sound(turns', agents'[b], b)
  <2>1. CASE b = a
    BY <1>1, <2>1
  <2>2. CASE b # a
    <3>1. agents'[b] = agents[b] /\ Sound(turns, agents[b], b)
      BY <1>1, <2>2 DEF IInv
    <3>2. ~Holds(turns[t], b) /\ ~Holds(turns'[t], b)
      BY <2>2
    <3> QED
      BY <3>1, <3>2, Elsewhere
  <2> QED
    BY <2>1, <2>2
<1>6. ASSUME NEW u \in Turns, turns'[u].pc = "evicting"
      PROVE  Gone(turns', pool', turns'[u].agent)
  <2>1. u # t /\ turns'[u] = turns[u]
    BY <1>6
  <2>2. Gone(turns, pool, turns[u].agent)
    BY <1>6, <2>1 DEF IInv
  <2>3. \A v \in Turns : ~Holds(turns'[v], turns[u].agent)
    BY <2>2 DEF Gone
  <2> QED
    BY <2>1, <2>2, <2>3 DEF Gone, Shrinks
<1> QED
  BY <1>2, <1>3, <1>4, <1>5, <1>6 DEF IInv, Shrinks

(***************************************************************************)
(* What the actions do to a turn, an agent and a queue.                    *)
(***************************************************************************)
\* Taking an entry out leaves a sequence of the same things.
LEMMA StaysASequence ==
  ASSUME NEW S, NEW s \in Seq(S), NEW x
  PROVE  Without(s, x) \in Seq(S)
<1>1. CASE ~ \E i \in 1..Len(s) : s[i] = x
  BY <1>1 DEF Without
<1>2. CASE \E i \in 1..Len(s) : s[i] = x
  <2> DEFINE at == CHOOSE i \in 1..Len(s) : s[i] = x
             value(i) == IF i < at THEN s[i] ELSE s[i + 1]
  <2>1. Without(s, x) = [i \in 1..(Len(s) - 1) |-> value(i)]
    BY <1>2 DEF Without
  <2>2. at \in 1..Len(s)
    BY <1>2
  <2>3. Len(s) \in Nat /\ \A i \in 1..Len(s) : s[i] \in S
    BY LenProperties, ElementOfSeq
  <2>4. Len(s) - 1 \in Nat
    BY <2>2, <2>3
  <2> HIDE DEF at
  <2>5. \A i \in 1..(Len(s) - 1) : value(i) \in S
    BY <2>2, <2>3
  <2> HIDE DEF value
  <2> QED
    BY <2>1, <2>4, <2>5, IsASeq
<1> QED
  BY <1>1, <1>2

\* An agent that is closed, left torn, or dies keeps its claims.
LEMMA Shut ==
  ASSUME NEW agent \in AgentInfo,
         NEW other, other \in {BeginClosing(agent), Closed(agent),
                               [agent EXCEPT !.stack = "torn"],
                               [agent EXCEPT !.alive = FALSE]}
  PROVE  /\ other \in AgentInfo
         /\ other.lock = agent.lock /\ other.claims = agent.claims
         /\ other.bound = agent.bound
<1>1. CASE other = BeginClosing(agent)
  BY <1>1 DEF AgentInfo, BeginClosing, ClosingSuspends
<1>2. CASE other = Closed(agent)
  BY <1>2 DEF AgentInfo, Closed
<1>3. CASE other = [agent EXCEPT !.stack = "torn"]
  BY <1>3 DEF AgentInfo
<1>4. CASE other = [agent EXCEPT !.alive = FALSE]
  BY <1>4 DEF AgentInfo
<1> QED
  BY <1>1, <1>2, <1>3, <1>4

LEMMA OneShut ==
  ASSUME TypeOK, NEW a \in Agents,
         NEW other, other \in {BeginClosing(agents[a]), Closed(agents[a]),
                               [agents[a] EXCEPT !.stack = "torn"],
                               [agents[a] EXCEPT !.alive = FALSE]},
         agents' = [agents EXCEPT ![a] = other]
  PROVE  KeepsClaims
<1>1. agents[a] \in AgentInfo
  BY ElementOfSeq DEF TypeOK, Agents
<1>2. /\ other \in AgentInfo
      /\ other.lock = agents[a].lock /\ other.claims = agents[a].claims
      /\ other.bound = agents[a].bound
  BY <1>1, Shut
<1>3. /\ agents' \in Seq(AgentInfo) /\ Len(agents') = Len(agents)
      /\ \A b \in Agents : agents'[b] = IF b = a THEN other ELSE agents[b]
  BY <1>2, ExceptSeq DEF TypeOK, Agents
<1> QED
  BY <1>2, <1>3 DEF KeepsClaims

\* Where _open_session begins, and where a claim leads.
LEMMA EnteredIs ==
  ASSUME NEW turn \in TurnInfo, NEW agent \in AgentInfo
  PROVE  /\ Entered(turn, agent) \in TurnInfo
         /\ Entered(turn, agent).agent = turn.agent
         /\ Entered(turn, agent).pc \in AtWork
<1>1. agent.session \in Nat /\ agent.canLoad \in BOOLEAN /\ turn.resume \in Nat
  BY DEF AgentInfo, TurnInfo
<1>2. CASE agent.session # NoSession /\ turn.resume \in {NoSession, agent.session}
  BY <1>1, <1>2 DEF Entered, TurnInfo, Places, AtWork
<1>3. CASE ~(agent.session # NoSession /\ turn.resume \in {NoSession, agent.session})
  <2> DEFINE told == turn.resume # NoSession /\ ~agent.canLoad
  <2>1. Entered(turn, agent) = [turn EXCEPT !.pc = "opening", !.told = told]
    BY <1>3 DEF Entered
  <2>2. told \in BOOLEAN
    OBVIOUS
  <2> HIDE DEF told
  <2> QED
    BY <2>1, <2>2 DEF TurnInfo, Places, AtWork
<1> QED
  BY <1>2, <1>3

LEMMA HoldingIs ==
  ASSUME NEW turn \in TurnInfo, NEW agent \in AgentInfo, NEW a \in Nat
  PROVE  /\ Holding(turn, a, agent) \in TurnInfo
         /\ Holding(turn, a, agent).agent = a
         /\ IF agent.lock = <<>> THEN Holding(turn, a, agent).pc \in AtWork
            ELSE Holding(turn, a, agent).pc = "queued"
<1> DEFINE mine == [turn EXCEPT !.agent = a]
<1>1. mine \in TurnInfo /\ mine.agent = a
  BY DEF TurnInfo
<1>2. Holding(turn, a, agent) = IF agent.lock = <<>> THEN Entered(mine, agent)
                                ELSE [mine EXCEPT !.pc = "queued"]
  BY DEF Holding
<1> HIDE DEF mine
<1>3. /\ [mine EXCEPT !.pc = "queued"] \in TurnInfo
      /\ [mine EXCEPT !.pc = "queued"].agent = a
      /\ [mine EXCEPT !.pc = "queued"].pc = "queued"
  BY <1>1 DEF TurnInfo, Places
<1> QED
  BY <1>1, <1>2, <1>3, EnteredIs

\* The agent the pool has for a context.
LEMMA PooledIs ==
  ASSUME TypeOK, NEW x, Pooled(x) # NoAgent
  PROVE  Pooled(x) \in Agents /\ Within(pool, Pooled(x))
<1>1. \A i \in 1..Len(pool) : pool[i] \in Agents
  BY ElementOfSeq DEF TypeOK
<1>2. \E i \in 1..Len(pool) : agents[pool[i]].context = x
  BY DEF Pooled
<1> DEFINE at == CHOOSE i \in 1..Len(pool) : agents[pool[i]].context = x
<1>3. at \in 1..Len(pool)
  BY <1>2
<1>4. Pooled(x) = pool[at]
  BY <1>2 DEF Pooled
<1> QED
  BY <1>1, <1>3, <1>4 DEF Within

\* A pool without one of its agents.
LEMMA Smaller ==
  ASSUME IInv, NEW a, pool' = Without(pool, a)
  PROVE  Shrinks /\ ~Within(pool', a)
<1>1. pool \in Seq(Agents) /\ Distinct(pool)
  BY DEF IInv, TypeOK
<1> QED
  BY <1>1, TakenOut DEF Shrinks

LEMMA Counting == \A ts : UnderWay(ts) \in Nat
BY PoolAssumption, FS_Subset, FS_CardinalityType DEF UnderWay

\* Nothing but the turns, and the lock of the pool, which is given up or asked
\* for.
LEMMA AsideStays ==
  ASSUME TypeOK, UNCHANGED aside, Len(agents') = Len(agents),
         poolLock' \in Seq(Turns)
  PROVE  AsideOK'
BY DEF AsideOK, aside, TypeOK, Agents

LEMMA PoolStays == ASSUME IInv, pool' = pool PROVE Shrinks
BY DEF IInv, TypeOK, Shrinks

LEMMA AgentsStay == ASSUME TypeOK, agents' = agents PROVE KeepsClaims
BY DEF TypeOK, KeepsClaims

\* A turn is moved, and its agent noted or forgotten.
LEMMA Moved ==
  ASSUME TypeOK, NEW t \in Turns, turns[t].pc \notin InUse,
         NEW pc \in Places \ InUse, NEW a \in Nat,
         pc \in HasAgent => a \in Agents,
         turns' = [turns EXCEPT ![t].pc = pc, ![t].agent = a]
  PROVE  Roams(t) /\ turns'[t].pc = pc /\ turns'[t].agent = a
<1>1. turns \in [Turns -> TurnInfo]
  BY DEF TypeOK
<1>2. /\ turns' \in [Turns -> TurnInfo]
      /\ \A u \in Turns : u # t => turns'[u] = turns[u]
      /\ turns'[t].pc = pc /\ turns'[t].agent = a
  BY <1>1 DEF TurnInfo
<1> QED
  BY <1>2 DEF Roams

\* A turn is moved, to where it has no agent.
LEMMA MovedOn ==
  ASSUME TypeOK, NEW t \in Turns, turns[t].pc \notin InUse,
         NEW pc \in Places \ HasAgent,
         turns' = [turns EXCEPT ![t].pc = pc]
  PROVE  Roams(t) /\ turns'[t].pc = pc
<1>1. turns \in [Turns -> TurnInfo]
  BY DEF TypeOK
<1>2. /\ turns' \in [Turns -> TurnInfo]
      /\ \A u \in Turns : u # t => turns'[u] = turns[u]
      /\ turns'[t].pc = pc
  BY <1>1 DEF TurnInfo
<1> QED
  BY <1>2 DEF Roams, HasAgent

\* A turn becomes another.
LEMMA Turned ==
  ASSUME TypeOK, NEW t \in Turns, NEW new \in TurnInfo,
         turns' = [turns EXCEPT ![t] = new]
  PROVE  /\ turns' \in [Turns -> TurnInfo] /\ turns'[t] = new
         /\ \A u \in Turns : u # t => turns'[u] = turns[u]
BY DEF TypeOK

(***************************************************************************)
(* _acquire: the pool is searched, agents leave it, and are closed.        *)
(***************************************************************************)
LEMMA Started == ASSUME IInv, NEW t \in Turns, Start(t) PROVE IInv'
<1>1. PICK x \in Contexts \cup {NoContext} :
        \E resume \in {NoSession} \cup (IF x = NoContext THEN {} ELSE {known[x]}) :
          /\ turns' = [turns EXCEPT
                         ![t].pc = IF x = NoContext THEN "spawning" ELSE "locking",
                         ![t].context = x,
                         ![t].resume = resume]
          /\ poolLock' = IF x = NoContext THEN poolLock ELSE Append(poolLock, t)
  BY DEF Start
<1>2. PICK resume \in {NoSession} \cup (IF x = NoContext THEN {} ELSE {known[x]}) :
        /\ turns' = [turns EXCEPT
                       ![t].pc = IF x = NoContext THEN "spawning" ELSE "locking",
                       ![t].context = x,
                       ![t].resume = resume]
        /\ poolLock' = IF x = NoContext THEN poolLock ELSE Append(poolLock, t)
  BY <1>1
<1>3. PICK pc : pc = IF x = NoContext THEN "spawning" ELSE "locking"
  OBVIOUS
<1>4. /\ turns[t].pc = "idle"
      /\ agents' = agents /\ pool' = pool /\ known' = known /\ opened' = opened
      /\ leaving' = leaving /\ stopped' = stopped
      /\ peak' = IF UnderWay(turns') > peak THEN UnderWay(turns') ELSE peak
  BY DEF Start
<1>5. TypeOK
  BY DEF IInv
<1>6. resume \in Nat
  BY <1>5, PoolAssumption DEF TypeOK, NoSession
<1>7. turns' = [turns EXCEPT ![t].pc = pc, ![t].context = x, ![t].resume = resume]
  BY <1>2, <1>3
<1>8. /\ turns' \in [Turns -> TurnInfo]
      /\ \A u \in Turns : u # t => turns'[u] = turns[u]
      /\ turns'[t].pc = pc
  <2>1. pc \in Places /\ turns \in [Turns -> TurnInfo]
    BY <1>3, <1>5 DEF Places, TypeOK
  <2>2. turns[t] \in TurnInfo
    BY <2>1
  <2>3. PICK new : new = [[[turns[t] EXCEPT !.pc = pc] EXCEPT !.context = x]
                                                       EXCEPT !.resume = resume]
    OBVIOUS
  <2>4. new \in TurnInfo /\ new.pc = pc
    BY <1>6, <2>1, <2>2, <2>3 DEF TurnInfo
  <2>5. turns' = [turns EXCEPT ![t] = new]
    BY <1>7, <2>1, <2>2, <2>3 DEF TurnInfo
  <2> QED
    BY <1>5, <2>4, <2>5, Turned
<1>9. Roams(t) /\ turns'[t].pc # "evicting"
  BY <1>3, <1>4, <1>8 DEF Roams, InUse, AtWork, HasAgent
<1>10. poolLock' \in Seq(Turns) /\ peak' \in Nat
  BY <1>2, <1>4, <1>5, Counting, AppendProperties DEF TypeOK
<1>11. AsideOK'
  BY <1>4, <1>5, <1>10 DEF TypeOK, AsideOK, Agents
<1> QED
  BY <1>4, <1>5, <1>9, <1>11, PoolStays, AgentsStay, Roaming

LEMMA Missed == ASSUME IInv, NEW t \in Turns, Miss(t) PROVE IInv'
<1>1. /\ agents' = agents /\ pool' = pool /\ poolLock' = poolLock
      /\ UNCHANGED aside
      /\ turns[t].pc = "locking"
      /\ turns' = [turns EXCEPT ![t].pc = "choosing"]
  BY DEF Miss
<1>2. TypeOK
  BY DEF IInv
<1>3. AsideOK'
  BY <1>1, <1>2, AsideStays DEF TypeOK
<1>4. turns[t].pc \notin InUse /\ "choosing" \in Places \ HasAgent
  BY <1>1 DEF Places, InUse, AtWork, HasAgent
<1>5. Roams(t) /\ turns'[t].pc = "choosing"
  BY <1>1, <1>2, <1>4, MovedOn
<1> QED
  BY <1>1, <1>2, <1>3, <1>5, PoolStays, AgentsStay, Roaming

LEMMA Launched == ASSUME IInv, NEW t \in Turns, Launch(t) PROVE IInv'
<1>1. /\ agents' = agents /\ pool' = pool /\ poolLock' = poolLock
      /\ UNCHANGED aside
      /\ turns[t].pc = "choosing"
      /\ turns' = [turns EXCEPT ![t].pc = "spawning", ![t].agent = NoAgent]
  BY DEF Launch
<1>2. TypeOK
  BY DEF IInv
<1>3. NoAgent \in Nat
  BY DEF NoAgent
<1>4. AsideOK'
  BY <1>1, <1>2, AsideStays DEF TypeOK
<1>5. /\ turns[t].pc \notin InUse
      /\ "spawning" \in Places \ InUse /\ "spawning" \notin HasAgent
  BY <1>1 DEF Places, InUse, AtWork, HasAgent
<1>6. Roams(t) /\ turns'[t].pc = "spawning"
  BY <1>1, <1>2, <1>3, <1>5, Moved
<1> QED
  BY <1>1, <1>2, <1>4, <1>6, PoolStays, AgentsStay, Roaming

\* An agent leaves the pool to be closed: an unusable one, or a victim.
LEMMA Replaced == ASSUME IInv, NEW t \in Turns, Replace(t) PROVE IInv'
<1>1. PICK a \in Agents : a = Pooled(turns[t].context)
  BY PooledIs DEF Replace, IInv
<1>2. PICK pc : pc = IF ClosingSuspends(agents[a]) THEN "replacing" ELSE "choosing"
  OBVIOUS
<1>3. /\ turns[t].pc = "locking"
      /\ pool' = Without(pool, a)
      /\ agents' = [agents EXCEPT ![a] = BeginClosing(agents[a])]
      /\ turns' = [turns EXCEPT ![t].pc = pc, ![t].agent = a]
      /\ poolLock' = poolLock /\ UNCHANGED aside
  BY <1>1, <1>2 DEF Replace, Agents
<1>4. TypeOK /\ a \in Nat
  BY LenProperties DEF IInv, TypeOK, Agents
<1>5. KeepsClaims
  BY <1>3, <1>4, OneShut
<1>6. AsideOK'
  BY <1>3, <1>4, <1>5, AsideStays DEF TypeOK, KeepsClaims
<1>7. Roams(t) /\ turns'[t].pc # "evicting"
  <2>1. /\ pc \in Places \ InUse /\ turns[t].pc \notin InUse
        /\ pc # "evicting"
    BY <1>2, <1>3 DEF Places, InUse, AtWork
  <2> QED
    BY <1>3, <1>4, <2>1, Moved
<1> QED
  BY <1>3, <1>5, <1>6, <1>7, Smaller, Roaming

\* The first of the victims is an agent of the pool.
LEMMA VictimIs ==
  ASSUME IInv, NEW t \in Turns, Evict(t)
  PROVE  \E a \in Agents :
           /\ agents[a].claims = 0 /\ Within(pool, a)
           /\ pool' = Without(pool, a)
           /\ agents' = [agents EXCEPT ![a] = BeginClosing(agents[a])]
           /\ turns' = [turns EXCEPT
                          ![t].pc = IF ClosingSuspends(agents[a]) THEN "evicting"
                                                                  ELSE "choosing",
                          ![t].agent = a]
<1> DEFINE first == CHOOSE i \in Victims : \A j \in Victims : i <= j
<1>1. Victims # {} /\ Victims \subseteq 1..Len(pool) /\ Victims \subseteq Nat
  <2>1. Victims # {}
    BY DEF Evict
  <2>2. Victims \subseteq 1..Len(pool)
    BY DEF Victims
  <2> QED
    BY <2>1, <2>2
<1>2. first \in Victims
  <2>1. PICK i \in Victims : \A j \in Victims : <<j, i>> \notin OpToRel(<, Nat)
    BY <1>1, NatLessThanWellFounded, WFMin
  <2>2. ASSUME NEW j \in Victims PROVE i <= j
    <3>1. i \in Nat /\ j \in Nat
      BY <1>1
    <3>2. ~(j < i)
      BY <2>1, <3>1 DEF OpToRel
    <3> QED
      BY <3>1, <3>2
  <2> QED
    BY <2>2
<1>3. PICK a \in Agents : a = pool[first] /\ agents[a].claims = 0
  BY <1>2, ElementOfSeq DEF Victims, IInv, TypeOK
<1>4. Within(pool, a)
  BY <1>1, <1>2, <1>3 DEF Within
<1> QED
  BY <1>3, <1>4 DEF Evict, Agents

LEMMA Evicted == ASSUME IInv, NEW t \in Turns, Evict(t) PROVE IInv'
<1>1. turns[t].pc = "choosing" /\ poolLock' = poolLock /\ UNCHANGED aside
  BY DEF Evict
<1>2. PICK a \in Agents :
        /\ agents[a].claims = 0
        /\ pool' = Without(pool, a)
        /\ agents' = [agents EXCEPT ![a] = BeginClosing(agents[a])]
        /\ turns' = [turns EXCEPT
                       ![t].pc = IF ClosingSuspends(agents[a]) THEN "evicting"
                                                               ELSE "choosing",
                       ![t].agent = a]
  BY VictimIs
<1>3. PICK pc : pc = IF ClosingSuspends(agents[a]) THEN "evicting" ELSE "choosing"
  OBVIOUS
<1>4. /\ turns[t].pc = "choosing"
      /\ pool' = Without(pool, a)
      /\ agents' = [agents EXCEPT ![a] = BeginClosing(agents[a])]
      /\ turns' = [turns EXCEPT ![t].pc = pc, ![t].agent = a]
      /\ poolLock' = poolLock /\ UNCHANGED aside
  BY <1>1, <1>2, <1>3
<1>5. TypeOK /\ a \in Nat
  BY LenProperties DEF IInv, TypeOK, Agents
<1>6. KeepsClaims
  BY <1>4, <1>5, OneShut
<1>7. AsideOK'
  BY <1>4, <1>5, <1>6, AsideStays DEF TypeOK, KeepsClaims
<1>8. Roams(t) /\ turns'[t].agent = a
  <2>1. pc \in Places \ InUse /\ turns[t].pc \notin InUse
    BY <1>3, <1>4 DEF Places, InUse, AtWork
  <2> QED
    BY <1>4, <1>5, <2>1, Moved
<1>9. Shrinks /\ ~Within(pool', a)
  BY <1>4, Smaller
<1> QED
  BY <1>2, <1>6, <1>7, <1>8, <1>9, Roaming

\* The close is over: the agent stays out of the pool.
LEMMA ClosedToMakeRoom ==
  ASSUME IInv, NEW t \in Turns, ClosedForRoom(t) PROVE IInv'
<1>1. PICK a : a = turns[t].agent
  OBVIOUS
<1>2. /\ turns[t].pc \in {"replacing", "evicting"}
      /\ agents' = [agents EXCEPT ![a] = Closed(agents[a])]
      /\ turns' = [turns EXCEPT ![t].pc = "choosing", ![t].agent = NoAgent]
      /\ pool' = pool /\ poolLock' = poolLock /\ UNCHANGED aside
  BY <1>1 DEF ClosedForRoom
<1>3. TypeOK /\ a \in Agents
  BY <1>1, <1>2 DEF IInv, HasAgent
<1>4. KeepsClaims
  BY <1>2, <1>3, OneShut
<1>5. AsideOK'
  BY <1>2, <1>3, <1>4, AsideStays DEF TypeOK, KeepsClaims
<1>6. /\ turns[t].pc \notin InUse /\ NoAgent \in Nat
      /\ "choosing" \in Places \ InUse /\ "choosing" \notin HasAgent
  BY <1>2 DEF Places, InUse, AtWork, HasAgent, NoAgent
<1>7. Roams(t) /\ turns'[t].pc = "choosing"
  BY <1>2, <1>3, <1>6, Moved
<1> QED
  BY <1>2, <1>4, <1>5, <1>7, PoolStays, Roaming

LEMMA LaunchFailed == ASSUME IInv, NEW t \in Turns, SpawnFails(t) PROVE IInv'
<1>1. /\ agents' = agents /\ pool' = pool /\ poolLock' = Without(poolLock, t)
      /\ UNCHANGED aside
      /\ turns[t].pc = "spawning"
      /\ turns' = [turns EXCEPT ![t].pc = "done"]
  BY DEF SpawnFails
<1>2. TypeOK /\ poolLock' \in Seq(Turns)
  BY <1>1, StaysASequence DEF IInv, TypeOK
<1>3. AsideOK'
  BY <1>1, <1>2, AsideStays
<1>4. turns[t].pc \notin InUse /\ "done" \in Places \ HasAgent
  BY <1>1 DEF Places, InUse, AtWork, HasAgent
<1>5. Roams(t) /\ turns'[t].pc = "done"
  BY <1>1, <1>2, <1>4, MovedOn
<1> QED
  BY <1>1, <1>2, <1>3, <1>5, PoolStays, AgentsStay, Roaming

(***************************************************************************)
(* After the turn, and around it.                                          *)
(***************************************************************************)
LEMMA ClosedBehind == ASSUME IInv, NEW t \in Turns, ClosedAfter(t) PROVE IInv'
<1>1. PICK a : a = turns[t].agent
  OBVIOUS
<1>2. /\ turns[t].pc = "closing"
      /\ agents' = [agents EXCEPT ![a] = Closed(agents[a])]
      /\ turns' = [turns EXCEPT ![t].pc = "done"]
      /\ pool' = pool /\ poolLock' = poolLock /\ UNCHANGED aside
  BY <1>1 DEF ClosedAfter
<1>3. TypeOK /\ a \in Agents
  BY <1>1, <1>2 DEF IInv, HasAgent
<1>4. KeepsClaims
  BY <1>2, <1>3, OneShut
<1>5. AsideOK'
  BY <1>2, <1>3, <1>4, AsideStays DEF TypeOK, KeepsClaims
<1>6. turns[t].pc \notin InUse /\ "done" \in Places \ HasAgent
  BY <1>2 DEF Places, InUse, AtWork, HasAgent
<1>7. Roams(t) /\ turns'[t].pc = "done"
  BY <1>2, <1>3, <1>6, MovedOn
<1> QED
  BY <1>2, <1>4, <1>5, <1>7, PoolStays, Roaming

\* A cancel leaves what was being closed as it is.
LEMMA CancelledThere == ASSUME IInv, NEW t \in Turns, Cancelled(t) PROVE IInv'
<1>1. PICK a : a = turns[t].agent
  OBVIOUS
<1>2. /\ turns[t].pc \in {"locking", "replacing", "evicting", "spawning", "closing"}
      /\ turns' = [turns EXCEPT ![t].pc = "done"]
      /\ pool' = pool /\ poolLock' = Without(poolLock, t) /\ UNCHANGED aside
  BY DEF Cancelled
<1>3. TypeOK /\ poolLock' \in Seq(Turns)
  BY <1>2, StaysASequence DEF IInv, TypeOK
<1>4. KeepsClaims
  <2>1. CASE turns[t].pc \in {"replacing", "evicting", "closing"}
    <3>1. agents' = [agents EXCEPT ![a] = [agents[a] EXCEPT !.stack = "torn"]]
      BY <1>1, <2>1 DEF Cancelled
    <3>2. a \in Agents
      BY <1>1, <2>1 DEF IInv, HasAgent
    <3> QED
      BY <1>3, <3>1, <3>2, OneShut
  <2>2. CASE turns[t].pc \notin {"replacing", "evicting", "closing"}
    <3>1. agents' = agents
      BY <2>2 DEF Cancelled
    <3> QED
      BY <1>3, <3>1, AgentsStay
  <2> QED
    BY <2>1, <2>2
<1>5. AsideOK'
  BY <1>2, <1>3, <1>4, AsideStays DEF KeepsClaims
<1>6. turns[t].pc \notin InUse /\ "done" \in Places \ HasAgent
  BY <1>2 DEF Places, InUse, AtWork, HasAgent
<1>7. Roams(t) /\ turns'[t].pc = "done"
  BY <1>2, <1>3, <1>6, MovedOn
<1> QED
  BY <1>2, <1>4, <1>5, <1>7, PoolStays, Roaming

\* No turn moves: a process dies, or the server is shut down.
LEMMA NobodyMoved ==
  ASSUME IInv, AsideOK', Shrinks, KeepsClaims, turns' = turns
  PROVE  IInv'
<1>1. turns' \in [Turns -> TurnInfo]
  BY DEF IInv, TypeOK
<1> QED
  BY <1>1, Quiet

LEMMA Died == ASSUME IInv, NEW a \in Agents, Dies(a) PROVE IInv'
<1>1. /\ agents' = [agents EXCEPT ![a] = [agents[a] EXCEPT !.alive = FALSE]]
      /\ turns' = turns /\ pool' = pool /\ poolLock' = poolLock /\ UNCHANGED aside
  BY DEF Dies
<1>2. TypeOK
  BY DEF IInv
<1>3. KeepsClaims
  BY <1>1, <1>2, OneShut
<1>4. AsideOK'
  BY <1>1, <1>2, <1>3, AsideStays DEF TypeOK, KeepsClaims
<1> QED
  BY <1>1, <1>3, <1>4, PoolStays, NobodyMoved

LEMMA StoppedAll == ASSUME IInv, Stop PROVE IInv'
<1>1. /\ turns' = turns /\ agents' = agents /\ pool' = <<>>
      /\ poolLock' = poolLock /\ known' = known /\ opened' = opened
      /\ peak' = peak /\ stopped' = TRUE
      /\ leaving' = {pool[i] : i \in 1..Len(pool)}
  BY DEF Stop
<1>2. TypeOK
  BY DEF IInv
<1>3. leaving' \subseteq Agents
  BY <1>1, <1>2, ElementOfSeq DEF TypeOK
<1>4. AsideOK'
  BY <1>1, <1>2, <1>3 DEF TypeOK, AsideOK, Agents
<1>5. Shrinks
  BY <1>1 DEF Shrinks, Distinct, Within
<1> QED
  BY <1>1, <1>2, <1>4, <1>5, AgentsStay, NobodyMoved

LEMMA StoppedOne == ASSUME IInv, NEW a \in Agents, StopAgent(a) PROVE IInv'
<1>1. /\ agents' = [agents EXCEPT ![a] = Closed(agents[a])]
      /\ turns' = turns /\ pool' = pool /\ poolLock' = poolLock
      /\ known' = known /\ opened' = opened /\ peak' = peak /\ stopped' = stopped
      /\ leaving' = leaving \ {a}
  BY DEF StopAgent
<1>2. TypeOK
  BY DEF IInv
<1>3. KeepsClaims
  BY <1>1, <1>2, OneShut
<1>4. AsideOK'
  BY <1>1, <1>2, <1>3 DEF TypeOK, AsideOK, Agents, KeepsClaims
<1> QED
  BY <1>1, <1>3, <1>4, PoolStays, NobodyMoved

(***************************************************************************)
(* The turn takes an agent, goes on with it, and leaves it.                *)
(***************************************************************************)
\* What is known of an agent and a turn.
LEMMA KnownAgent ==
  ASSUME IInv, NEW a \in Agents
  PROVE  agents[a] \in AgentInfo /\ Sound(turns, agents[a], a) /\ a \in Nat
BY ElementOfSeq, LenProperties DEF IInv, TypeOK, Agents

LEMMA Known ==
  ASSUME IInv, NEW t \in Turns, NEW a \in Agents
  PROVE  /\ turns[t] \in TurnInfo /\ agents[a] \in AgentInfo
         /\ Sound(turns, agents[a], a) /\ a \in Nat
BY KnownAgent DEF IInv, TypeOK

LEMMA Reused == ASSUME IInv, NEW t \in Turns, Reuse(t) PROVE IInv'
<1>1. PICK a \in Agents : a = Pooled(turns[t].context) /\ Within(pool, a)
  BY PooledIs DEF Reuse, IInv
<1>2. PICK new : new = Holding(turns[t], a, agents[a])
  OBVIOUS
<1>3. PICK other : other = Claimed(agents[a], t)
  OBVIOUS
<1>4. /\ turns[t].pc = "locking"
      /\ pool' = Append(Without(pool, a), a)
      /\ poolLock' = Tail(poolLock) /\ poolLock # <<>>
      /\ agents' = [agents EXCEPT ![a] = other]
      /\ turns' = [turns EXCEPT ![t] = new]
      /\ UNCHANGED aside
  BY <1>1, <1>2, <1>3 DEF Reuse, HasPool, Agents
<1>5. TypeOK /\ pool \in Seq(Agents) /\ Distinct(pool)
  BY DEF IInv, TypeOK
<1>6. /\ turns[t] \in TurnInfo /\ agents[a] \in AgentInfo
      /\ Sound(turns, agents[a], a) /\ a \in Nat
  BY Known
<1>7. /\ new \in TurnInfo /\ new.agent = a
      /\ IF agents[a].lock = <<>> THEN new.pc \in AtWork ELSE new.pc = "queued"
  BY <1>2, <1>6, HoldingIs
<1>8. /\ turns' \in [Turns -> TurnInfo] /\ turns'[t] = new
      /\ \A u \in Turns : u # t => turns'[u] = turns[u]
  BY <1>4, <1>5, <1>7, Turned
<1>9. \A b : ~Holds(turns[t], b)
  BY <1>4 DEF Holds, InUse, AtWork
<1>10. Sound(turns', other, a) /\ other \in AgentInfo
  <2>1. /\ agents[a] \in AgentInfo /\ Sound(turns, agents[a], a)
        /\ \A u \in Turns : u # t => turns'[u] = turns[u]
        /\ ~Holds(turns[t], a)
        /\ turns'[t].agent = a
        /\ IF agents[a].lock = <<>> THEN turns'[t].pc \in AtWork
                                    ELSE turns'[t].pc = "queued"
    BY <1>6, <1>7, <1>8, <1>9
  <2> QED
    BY <1>3, <2>1, Claiming
<1>11. Shrinks
  <2>1. PICK rest : rest = Without(pool, a)
    OBVIOUS
  <2>2. /\ rest \in Seq(Agents) /\ Distinct(rest)
        /\ \A b : Within(rest, b) <=> Within(pool, b) /\ b # a
    BY <1>5, <2>1, TakenOut
  <2>3. PICK next : next = Append(rest, a)
    OBVIOUS
  <2>4. /\ next \in Seq(Agents) /\ Distinct(next)
        /\ \A b : Within(next, b) <=> Within(rest, b) \/ b = a
    BY <2>2, <2>3, Joined
  <2> QED
    BY <1>1, <1>4, <2>1, <2>2, <2>3, <2>4 DEF Shrinks
<1>12. Len(agents') = Len(agents)
  BY <1>4, <1>5, <1>10, ExceptSeq DEF TypeOK, Agents
<1>13. AsideOK'
  BY <1>4, <1>5, <1>12, AsideStays, HeadTailProperties DEF TypeOK
<1>14. turns'[t].pc # "evicting" /\ \A b : Holds(turns'[t], b) => b = a
  BY <1>7, <1>8 DEF Holds, AtWork
<1> QED
  BY <1>1, <1>4, <1>7, <1>8, <1>9, <1>10, <1>11, <1>13, <1>14, OneAgent

\* The turn, which has the agent's lock, goes on.
LEMMA WentOn ==
  ASSUME IInv, AsideOK', pool' = pool,
         NEW t \in Turns, NEW a \in Agents, a = turns[t].agent,
         turns[t].pc \in {"queued"} \cup AtWork,
         agents[a].lock[1] = t,
         NEW new \in TurnInfo, new.agent = a, new.pc \in AtWork \cup {"unbinding"},
         turns' = [turns EXCEPT ![t] = new],
         NEW other \in AgentInfo,
         other.lock = agents[a].lock, other.claims = agents[a].claims,
         new.pc \in AtWork => other.bound = t,
         new.pc \notin AtWork => other.bound = NoTurn,
         agents' = [agents EXCEPT ![a] = other]
  PROVE  IInv'
<1>1. TypeOK
  BY DEF IInv
<1>2. /\ turns' \in [Turns -> TurnInfo] /\ turns'[t] = new
      /\ \A u \in Turns : u # t => turns'[u] = turns[u]
  BY <1>1, Turned
<1>3. Sound(turns, agents[a], a)
  BY Known
<1>4. Sound(turns', other, a)
  <2>1. PICK before, later, agent :
          before = turns /\ later = turns' /\ agent = agents[a]
    OBVIOUS
  <2>2. /\ Sound(before, agent, a)
        /\ \A u \in Turns : u # t => later[u] = before[u]
        /\ before[t].agent = a /\ before[t].pc \in {"queued"} \cup AtWork
        /\ agent.lock[1] = t
        /\ later[t].agent = a /\ later[t].pc \in AtWork \cup {"unbinding"}
        /\ other.lock = agent.lock /\ other.claims = agent.claims
        /\ later[t].pc \in AtWork => other.bound = t
        /\ later[t].pc \notin AtWork => other.bound = NoTurn
    BY <1>2, <1>3, <2>1
  <2>3. \A u \in Turns : Within(other.lock, u) <=> Holds(later[u], a)
    BY <2>2 DEF Sound, Holds, InUse, AtWork
  <2>4. \A u \in Turns :
          /\ later[u].agent = a /\ later[u].pc \in AtWork \cup {"unbinding"}
          => other.lock[1] = u
    BY <2>2 DEF Sound
  <2>5. \A u \in Turns :
          other.bound = u <=> later[u].agent = a /\ later[u].pc \in AtWork
    BY <2>2, PoolAssumption DEF Sound, AtWork
  <2>6. Sound(later, other, a)
    BY <2>2, <2>3, <2>4, <2>5 DEF Sound
  <2> QED
    BY <2>1, <2>6
<1>5. /\ Holds(turns[t], a) /\ turns'[t].pc # "evicting"
      /\ \A b : Holds(turns[t], b) \/ Holds(turns'[t], b) => b = a
  BY <1>2 DEF Holds, InUse, AtWork
<1> QED
  BY <1>2, <1>4, <1>5, PoolStays, OneAgent

LEMMA CameIn == ASSUME IInv, NEW t \in Turns, Enter(t) PROVE IInv'
<1>1. PICK a \in Agents : a = turns[t].agent
  BY DEF Enter, IInv, HasAgent, InUse
<1>2. PICK new : new = Entered(turns[t], agents[a])
  OBVIOUS
<1>3. PICK other : other = [agents[a] EXCEPT !.bound = t]
  OBVIOUS
<1>4. /\ turns[t].pc = "queued" /\ Head(agents[a].lock) = t
      /\ pool' = pool /\ poolLock' = poolLock /\ UNCHANGED aside
      /\ turns' = [turns EXCEPT ![t] = new]
      /\ agents' = [agents EXCEPT ![a] = other]
  BY <1>1, <1>2, <1>3 DEF Enter, Agents
<1>5. TypeOK /\ turns[t] \in TurnInfo /\ agents[a] \in AgentInfo
  BY Known DEF IInv
<1>6. /\ new \in TurnInfo /\ new.agent = a /\ new.pc \in AtWork
  BY <1>1, <1>2, <1>5, EnteredIs
<1>7. /\ other \in AgentInfo /\ other.lock = agents[a].lock
      /\ other.claims = agents[a].claims /\ other.bound = t
  BY <1>3, <1>5 DEF AgentInfo
<1>8. agents[a].lock[1] = t
  BY <1>4
<1>9. Len(agents') = Len(agents)
  BY <1>4, <1>5, <1>7, ExceptSeq DEF TypeOK, Agents
<1>10. AsideOK'
  BY <1>4, <1>5, <1>9, AsideStays DEF TypeOK
<1> QED
  BY <1>1, <1>4, <1>6, <1>7, <1>8, <1>10, WentOn

\* A turn at work has the lock, and the agent is bound to it.
LEMMA HasLock ==
  ASSUME IInv, NEW t \in Turns, turns[t].pc \in AtWork \cup {"unbinding"}
  PROVE  /\ turns[t].agent \in Agents
         /\ agents[turns[t].agent].lock[1] = t
         /\ turns[t].pc \in AtWork => agents[turns[t].agent].bound = t
<1>1. turns[t].agent \in Agents
  BY DEF IInv, HasAgent, InUse
<1>2. Sound(turns, agents[turns[t].agent], turns[t].agent)
  BY <1>1, KnownAgent
<1> QED
  BY <1>1, <1>2 DEF Sound

LEMMA WasOpened == ASSUME IInv, NEW t \in Turns, Opened(t) PROVE IInv'
<1>1. PICK a \in Agents : a = turns[t].agent
  BY HasLock DEF Opened, AtWork
<1>2. PICK id : id = IF turns[t].resume # NoSession /\ agents[a].canLoad
                       THEN turns[t].resume ELSE opened + 1
  OBVIOUS
<1>3. PICK new : new = [turns[t] EXCEPT !.pc = "prompting", !.ran = id]
  OBVIOUS
<1>4. PICK other : other = [agents[a] EXCEPT !.session = id]
  OBVIOUS
<1>5. /\ turns[t].pc = "opening" /\ opened' \in {opened, id}
      /\ pool' = pool /\ poolLock' = poolLock /\ known' = known
      /\ leaving' = leaving /\ stopped' = stopped /\ peak' = peak
      /\ turns' = [turns EXCEPT ![t] = new]
      /\ agents' = [agents EXCEPT ![a] = other]
  BY <1>1, <1>2, <1>3, <1>4 DEF Opened, Agents
<1>6. TypeOK /\ turns[t] \in TurnInfo /\ agents[a] \in AgentInfo
  BY Known DEF IInv
<1>7. id \in Nat
  BY <1>2, <1>6 DEF TypeOK, TurnInfo
<1>8. new \in TurnInfo /\ new.agent = a /\ new.pc = "prompting"
  BY <1>1, <1>3, <1>6, <1>7 DEF TurnInfo, Places
<1>9. /\ other \in AgentInfo /\ other.lock = agents[a].lock
      /\ other.claims = agents[a].claims /\ other.bound = agents[a].bound
  BY <1>4, <1>6, <1>7 DEF AgentInfo
<1>10. agents[a].lock[1] = t /\ agents[a].bound = t
  BY <1>1, <1>5, HasLock DEF AtWork
<1>11. Len(agents') = Len(agents)
  BY <1>5, <1>6, <1>9, ExceptSeq DEF TypeOK, Agents
<1>12. AsideOK'
  BY <1>5, <1>6, <1>7, <1>11 DEF TypeOK, AsideOK, Agents
<1> QED
  BY <1>1, <1>5, <1>8, <1>9, <1>10, <1>12, WentOn DEF AtWork

LEMMA WasPrompted == ASSUME IInv, NEW t \in Turns, Prompted(t) PROVE IInv'
<1>1. PICK a \in Agents : a = turns[t].agent
  BY HasLock DEF Prompted, AtWork
<1>2. PICK new : new = [turns[t] EXCEPT !.pc = "unbinding"]
  OBVIOUS
<1>3. PICK other : other = [agents[a] EXCEPT !.bound = NoTurn]
  OBVIOUS
<1>4. /\ turns[t].pc = "prompting"
      /\ known' = IF turns[t].context = NoContext THEN known
                  ELSE [known EXCEPT ![turns[t].context] = turns[t].ran]
      /\ pool' = pool /\ poolLock' = poolLock /\ opened' = opened
      /\ leaving' = leaving /\ stopped' = stopped /\ peak' = peak
      /\ turns' = [turns EXCEPT ![t] = new]
      /\ agents' = [agents EXCEPT ![a] = other]
  BY <1>1, <1>2, <1>3 DEF Prompted, Agents
<1>5. TypeOK /\ turns[t] \in TurnInfo /\ agents[a] \in AgentInfo
  BY Known DEF IInv
<1>6. new \in TurnInfo /\ new.agent = a /\ new.pc = "unbinding"
  BY <1>1, <1>2, <1>5 DEF TurnInfo, Places
<1>7. /\ other \in AgentInfo /\ other.lock = agents[a].lock
      /\ other.claims = agents[a].claims /\ other.bound = NoTurn
  BY <1>3, <1>5 DEF AgentInfo
<1>8. agents[a].lock[1] = t
  BY <1>1, <1>4, HasLock DEF AtWork
<1>9. Len(agents') = Len(agents)
  BY <1>4, <1>5, <1>7, ExceptSeq DEF TypeOK, Agents
<1>10. known' \in [Contexts -> Nat]
  <2>1. turns[t].ran \in Nat /\ known \in [Contexts -> Nat]
    BY <1>5 DEF TypeOK, TurnInfo
  <2> QED
    BY <1>4, <2>1
<1>11. AsideOK'
  BY <1>4, <1>5, <1>9, <1>10 DEF TypeOK, AsideOK, Agents
<1> QED
  BY <1>1, <1>4, <1>6, <1>7, <1>8, <1>11, WentOn DEF AtWork

LEMMA Broke == ASSUME IInv, NEW t \in Turns, Breaks(t) PROVE IInv'
<1>1. PICK a \in Agents : a = turns[t].agent
  BY HasLock DEF Breaks, AtWork
<1>2. PICK new : new = [turns[t] EXCEPT !.pc = "unbinding"]
  OBVIOUS
<1>3. PICK other : other = [agents[a] EXCEPT !.broken = TRUE, !.bound = NoTurn]
  OBVIOUS
<1>4. /\ turns[t].pc \in AtWork
      /\ pool' = pool /\ poolLock' = poolLock /\ UNCHANGED aside
      /\ turns' = [turns EXCEPT ![t] = new]
      /\ agents' = [agents EXCEPT ![a] = other]
  BY <1>1, <1>2, <1>3 DEF Breaks, Agents, AtWork
<1>5. TypeOK /\ turns[t] \in TurnInfo /\ agents[a] \in AgentInfo
  BY Known DEF IInv
<1>6. new \in TurnInfo /\ new.agent = a /\ new.pc = "unbinding"
  BY <1>1, <1>2, <1>5 DEF TurnInfo, Places
<1>7. /\ other \in AgentInfo /\ other.lock = agents[a].lock
      /\ other.claims = agents[a].claims /\ other.bound = NoTurn
  BY <1>3, <1>5 DEF AgentInfo
<1>8. agents[a].lock[1] = t
  BY <1>1, <1>4, HasLock
<1>9. Len(agents') = Len(agents)
  BY <1>4, <1>5, <1>7, ExceptSeq DEF TypeOK, Agents
<1>10. AsideOK'
  BY <1>4, <1>5, <1>9, AsideStays DEF TypeOK
<1> QED
  BY <1>1, <1>4, <1>6, <1>7, <1>8, <1>10, WentOn DEF AtWork

\* The claim is given back, and the agent closed if it is not to be kept.
LEMMA GaveBack ==
  ASSUME IInv, NEW t \in Turns, GiveUp(t) \/ Leave(t)
  PROVE  IInv'
<1>1. /\ turns[t].pc \in {"queued", "unbinding"}
      /\ pool' = pool /\ poolLock' = poolLock /\ UNCHANGED aside
      /\ GiveBack(t, agents[turns[t].agent])
  BY DEF GiveUp, Leave
<1>2. PICK a \in Agents : a = turns[t].agent
  BY <1>1 DEF IInv, HasAgent, InUse
<1>3. PICK agent : agent = agents[a]
  OBVIOUS
<1>4. PICK left : left = [agent EXCEPT !.lock = Without(@, t), !.claims = @ - 1]
  OBVIOUS
<1>5. PICK drop : drop = (agent.context = NoContext \/ agent.broken)
  OBVIOUS
<1>6. PICK other : other = IF drop THEN BeginClosing(left) ELSE left
  OBVIOUS
<1>7. PICK pc : pc = IF drop /\ ClosingSuspends(agent) THEN "closing" ELSE "done"
  OBVIOUS
<1>8. PICK new : new = [turns[t] EXCEPT !.pc = pc]
  OBVIOUS
<1>9. /\ turns' = [turns EXCEPT ![t] = new]
      /\ agents' = [agents EXCEPT ![a] = other]
  <2>1. GiveBack(t, agent)
    BY <1>1, <1>2, <1>3
  <2>2. agents' = [agents EXCEPT ![a] = other]
    BY <1>2, <1>4, <1>5, <1>6, <2>1 DEF GiveBack
  <2>3. turns' = [turns EXCEPT ![t].pc = pc]
    BY <1>5, <1>7, <2>1 DEF GiveBack
  <2> QED
    BY <1>8, <2>2, <2>3
<1>10. /\ TypeOK /\ turns[t] \in TurnInfo /\ agent \in AgentInfo
       /\ Sound(turns, agent, a)
  BY <1>3, Known DEF IInv
<1>11. pc \in {"closing", "done"}
  BY <1>7
<1>12. new \in TurnInfo /\ new.agent = a /\ new.pc \in {"closing", "done"}
  BY <1>2, <1>8, <1>10, <1>11 DEF TurnInfo, Places
<1>13. /\ turns' \in [Turns -> TurnInfo] /\ turns'[t] = new
       /\ \A u \in Turns : u # t => turns'[u] = turns[u]
  BY <1>9, <1>10, <1>12, Turned
<1>14. ~Holds(turns'[t], a)
  BY <1>12, <1>13 DEF Holds, InUse, AtWork
<1>15. Sound(turns', left, a) /\ left \in AgentInfo
  <2>1. /\ left.lock = Without(agent.lock, t) /\ left.claims = agent.claims - 1
        /\ left.bound = agent.bound
    BY <1>4, <1>10 DEF AgentInfo
  <2>2. PICK before, later : before = turns /\ later = turns'
    OBVIOUS
  <2>3. GivesBack(before, later, agent, left, a, t)
    BY <1>1, <1>2, <1>10, <1>13, <1>14, <2>1, <2>2 DEF GivesBack
  <2>4. /\ Sound(later, left, a)
        /\ left.lock \in Seq(Turns) /\ left.claims \in Nat
    BY <1>10, <2>3, GivingBack
  <2>5. left = [agent EXCEPT !.lock = left.lock, !.claims = left.claims]
    BY <1>4, <2>1
  <2>6. left \in AgentInfo
    BY <1>10, <2>4, <2>5 DEF AgentInfo
  <2> QED
    BY <2>2, <2>4, <2>6
<1>16. Sound(turns', other, a) /\ other \in AgentInfo
  <2>1. /\ other \in AgentInfo /\ other.lock = left.lock
        /\ other.claims = left.claims /\ other.bound = left.bound
    BY <1>6, <1>15, Shut
  <2> QED
    BY <1>15, <2>1 DEF Sound
<1>17. Len(agents') = Len(agents)
  BY <1>9, <1>10, <1>16, ExceptSeq DEF TypeOK, Agents
<1>18. AsideOK'
  BY <1>1, <1>10, <1>17, AsideStays DEF TypeOK
<1>19. /\ \A b : Holds(turns[t], b) \/ Holds(turns'[t], b) => b = a
       /\ turns'[t].agent = a /\ turns'[t].pc # "evicting"
  BY <1>2, <1>12, <1>13 DEF Holds
<1> QED
  BY <1>1, <1>9, <1>13, <1>14, <1>16, <1>18, <1>19, PoolStays, OneAgent

\* An agent is made, and claimed by the turn that launched it.
LEMMA MadeOne == ASSUME IInv, NEW t \in Turns, Spawned(t) PROVE IInv'
<1>1. PICK loads \in Loads :
        /\ agents' = Append(agents, Claimed(NewAgent(turns[t].context, loads), t))
        /\ turns' = [turns EXCEPT
                       ![t] = Holding(@, Len(agents) + 1,
                                      NewAgent(turns[t].context, loads))]
  BY DEF Spawned
<1>2. PICK agent : agent = NewAgent(turns[t].context, loads)
  OBVIOUS
<1>3. PICK a : a = Len(agents) + 1
  OBVIOUS
<1>4. PICK other : other = Claimed(agent, t)
  OBVIOUS
<1>5. PICK new : new = Holding(turns[t], a, agent)
  OBVIOUS
<1>6. /\ agents' = Append(agents, other) /\ turns' = [turns EXCEPT ![t] = new]
      /\ turns[t].pc = "spawning"
      /\ pool' \in {pool, Append(pool, a)} /\ poolLock' = Without(poolLock, t)
      /\ UNCHANGED aside
  BY <1>1, <1>2, <1>3, <1>4, <1>5 DEF Spawned
<1>7. TypeOK /\ turns[t] \in TurnInfo /\ Len(agents) \in Nat
  BY LenProperties DEF IInv, TypeOK
<1>8. /\ agent \in AgentInfo /\ agent.lock = <<>> /\ agent.claims = 0
      /\ agent.bound = NoTurn
  <2>1. turns[t].context \in Contexts \cup {NoContext} /\ loads \in BOOLEAN
    BY <1>7, PoolAssumption DEF TurnInfo
  <2>2. <<>> \in Seq(Turns)
    OBVIOUS
  <2> QED
    BY <1>2, <2>1, <2>2 DEF NewAgent, AgentInfo, NoSession
<1>9. a \in Nat /\ a \notin Agents /\ Agents' = Agents \cup {a} /\ Len(agents') = a
  <2>1. Len(agents') = Len(agents) + 1
    BY <1>6, <1>7, AppendProperties DEF TypeOK
  <2> QED
    BY <1>3, <1>7, <2>1 DEF Agents
<1>10. \A u \in Turns : turns[u].pc \in HasAgent => turns[u].agent # a
  BY <1>9 DEF IInv
<1>11. Sound(turns, agent, a)
  <2>1. Distinct(agent.lock) /\ agent.claims = Len(agent.lock)
    BY <1>8 DEF Distinct
  <2>2. \A u \in Turns : ~Within(agent.lock, u) /\ ~Holds(turns[u], a)
    BY <1>8, <1>10 DEF Within, Holds, HasAgent
  <2>3. agent.bound \notin Turns
    BY <1>8, PoolAssumption
  <2> QED
    BY <2>1, <2>2, <2>3 DEF Sound, Holds, InUse, AtWork
<1>12. /\ new \in TurnInfo /\ new.agent = a
       /\ IF agent.lock = <<>> THEN new.pc \in AtWork ELSE new.pc = "queued"
  BY <1>5, <1>7, <1>8, <1>9, HoldingIs
<1>13. /\ turns' \in [Turns -> TurnInfo] /\ turns'[t] = new
       /\ \A u \in Turns : u # t => turns'[u] = turns[u]
  BY <1>6, <1>7, <1>12, Turned
<1>14. \A b : ~Holds(turns[t], b)
  BY <1>6 DEF Holds, InUse, AtWork
<1>15. Sound(turns', other, a) /\ other \in AgentInfo
  BY <1>4, <1>8, <1>11, <1>12, <1>13, <1>14, Claiming
<1>16. /\ agents' \in Seq(AgentInfo) /\ agents'[a] = other
       /\ \A b \in Agents : agents'[b] = agents[b]
  BY <1>3, <1>6, <1>7, <1>15, AppendProperties DEF TypeOK, Agents
<1>17. ASSUME NEW b \in Agents' PROVE Sound(turns', agents'[b], b)
  <2>1. CASE b = a
    BY <1>15, <1>16, <2>1
  <2>2. CASE b # a
    <3>1. b \in Agents /\ agents'[b] = agents[b]
      BY <1>9, <1>16, <2>2
    <3>2. Sound(turns, agents[b], b)
      BY <3>1 DEF IInv
    <3>3. ~Holds(turns'[t], b)
      BY <1>12, <1>13, <2>2 DEF Holds
    <3> QED
      BY <1>13, <1>14, <3>1, <3>2, <3>3, Elsewhere
  <2> QED
    BY <2>1, <2>2
<1>18. /\ pool' \in Seq(Agents') /\ Distinct(pool')
       /\ \A b : Within(pool', b) => Within(pool, b) \/ b = a
  <2>1. pool \in Seq(Agents) /\ Distinct(pool)
    BY DEF IInv, TypeOK
  <2>2. \A i \in 1..Len(pool) : pool[i] \in Agents
    BY <2>1, ElementOfSeq
  <2>3. pool \in Seq(Agents') /\ ~Within(pool, a) /\ a \in Agents'
    <3>1. pool \in Seq(Agents')
      BY <1>9, <2>1
    <3> QED
      BY <1>9, <2>2, <3>1 DEF Within
  <2>4. CASE pool' = pool
    BY <2>1, <2>3, <2>4
  <2>5. CASE pool' = Append(pool, a)
    <3>1. PICK S, kept, next : S = Agents' /\ kept = pool /\ next = Append(kept, a)
      OBVIOUS
    <3>2. /\ kept \in Seq(S) /\ a \in S /\ Distinct(kept) /\ ~Within(kept, a)
      BY <2>1, <2>3, <3>1
    <3>3. /\ next \in Seq(S) /\ Distinct(next)
          /\ \A b : Within(next, b) <=> Within(kept, b) \/ b = a
      BY <3>1, <3>2, Joined
    <3> QED
      BY <2>5, <3>1, <3>3
  <2> QED
    BY <1>6, <2>4, <2>5
<1>19. \A u \in Turns : turns'[u].pc \in HasAgent => turns'[u].agent \in Agents'
  BY <1>9, <1>12, <1>13 DEF IInv
<1>20. ASSUME NEW u \in Turns, turns'[u].pc = "evicting"
       PROVE  Gone(turns', pool', turns'[u].agent)
  <2>1. u # t /\ turns'[u] = turns[u]
    BY <1>12, <1>13, <1>20 DEF AtWork
  <2>2. Gone(turns, pool, turns[u].agent) /\ turns[u].agent # a
    BY <1>10, <1>20, <2>1 DEF IInv, HasAgent
  <2> QED
    BY <1>12, <1>13, <1>18, <2>1, <2>2 DEF Gone, Holds
<1>21. TypeOK'
  <2>1. poolLock' \in Seq(Turns)
    BY <1>6, <1>7, StaysASequence DEF TypeOK
  <2> QED
    BY <1>6, <1>7, <1>9, <1>13, <1>16, <1>18, <2>1 DEF TypeOK, aside
<1> QED
  BY <1>17, <1>18, <1>19, <1>20, <1>21 DEF IInv

(***************************************************************************)
(* The theorems.                                                           *)
(***************************************************************************)
LEMMA InitIInv == Init => IInv
<1> SUFFICES ASSUME Init PROVE IInv
  OBVIOUS
<1>1. agents = <<>> /\ pool = <<>> /\ Agents = {}
  BY DEF Init, Agents
<1>2. \A t \in Turns : turns[t].pc = "idle"
  BY DEF Init
<1>3. TypeOK
  <2>1. turns \in [Turns -> TurnInfo]
    BY DEF Init, TurnInfo, Places, NoAgent, NoSession
  <2>2. /\ agents \in Seq(AgentInfo) /\ pool \in Seq(Agents)
        /\ poolLock \in Seq(Turns)
    BY <1>1 DEF Init
  <2>3. known \in [Contexts -> Nat] /\ leaving \subseteq Agents
    BY DEF Init, NoSession
  <2> QED
    BY <2>1, <2>2, <2>3 DEF Init, TypeOK
<1> QED
  BY <1>1, <1>2, <1>3 DEF IInv, Distinct, HasAgent, InUse, AtWork

LEMMA StepIInv == IInv /\ [Next]_vars => IInv'
<1> SUFFICES ASSUME IInv, [Next]_vars PROVE IInv'
  OBVIOUS
<1>1. ASSUME NEW t \in Turns, Acquires(t) PROVE IInv'
  BY <1>1, Reused, Replaced, Missed, Evicted, ClosedToMakeRoom, Launched,
     MadeOne, LaunchFailed DEF Acquires
<1>2. ASSUME NEW t \in Turns, Runs(t) PROVE IInv'
  BY <1>2, CameIn, WasOpened, WasPrompted, Broke, GaveBack, ClosedBehind DEF Runs
<1>3. ASSUME NEW t \in Turns, Start(t) \/ GiveUp(t) \/ Cancelled(t) PROVE IInv'
  BY <1>3, Started, GaveBack, CancelledThere
<1>4. ASSUME NEW a \in Agents, Dies(a) \/ StopAgent(a) PROVE IInv'
  BY <1>4, Died, StoppedOne
<1>5. CASE Stop
  BY <1>5, StoppedAll
<1>6. CASE UNCHANGED vars
  <2>1. TypeOK /\ UNCHANGED aside /\ turns' = turns /\ agents' = agents
        /\ pool' = pool /\ poolLock' = poolLock
    BY <1>6 DEF IInv, vars, aside
  <2>2. AsideOK'
    BY <2>1, AsideStays DEF TypeOK
  <2> QED
    BY <2>1, <2>2, PoolStays, AgentsStay, NobodyMoved
<1> QED
  BY <1>1, <1>2, <1>3, <1>4, <1>5, <1>6 DEF Next

\* The inductive invariant holds throughout.
THEOREM PoolIsSound == Spec => []IInv
BY InitIInv, StepIInv, PTL DEF Spec

\* Every turn that holds an agent, or waits for it, has one claim on it, and
\* nobody else has, however often the turns are cancelled.
THEOREM ClaimsAreAlwaysExact == Spec => []ClaimsAreExact
<1>1. ASSUME IInv, NEW a \in Agents
      PROVE  agents[a].claims = Cardinality(Holders(a))
  <2>1. PICK lock : lock = agents[a].lock
    OBVIOUS
  <2>2. lock \in Seq(Turns) /\ Sound(turns, agents[a], a)
    BY <1>1, <2>1, KnownAgent DEF AgentInfo
  <2>3. \A i \in 1..Len(lock) : lock[i] \in Turns
    BY <2>2, ElementOfSeq
  <2>4. \A x : x \in Holders(a) <=> Within(lock, x)
    BY <2>1, <2>2, <2>3 DEF Holders, Sound, Holds, InUse, AtWork, Within
  <2>5. Distinct(lock) /\ agents[a].claims = Len(lock)
    BY <2>1, <2>2 DEF Sound
  <2> QED
    BY <2>2, <2>4, <2>5, Counted
<1>2. IInv => ClaimsAreExact
  BY <1>1 DEF ClaimsAreExact
<1> QED
  BY <1>2, PoolIsSound, PTL

\* No agent is closed to make room while a turn holds it or waits for it.
THEOREM VictimsAreAlwaysIdle == Spec => []VictimsAreIdle
<1>1. IInv => VictimsAreIdle
  BY DEF IInv, VictimsAreIdle, Gone, Holders, Holds, InUse, AtWork
<1> QED
  BY <1>1, PoolIsSound, PTL

\* One turn at a time is at work on an agent: the one that has its lock and to
\* whose session its output goes.
THEOREM OneTurnAtATime == Spec => []OneTurnPerAgent
<1>1. ASSUME IInv, NEW a \in Agents
      PROVE  /\ agents[a].bound # NoTurn <=>
                  \E t \in Holders(a) : turns[t].pc \in {"opening", "prompting"}
             /\ \A t \in Turns :
                  /\ turns[t].agent = a
                  /\ turns[t].pc \in {"opening", "prompting"}
                  => agents[a].bound = t /\ Head(agents[a].lock) = t
  <2>1. Sound(turns, agents[a], a) /\ agents[a] \in AgentInfo
    BY <1>1, KnownAgent
  <2>2. \A t \in Turns : agents[a].bound = t <=>
          turns[t].agent = a /\ turns[t].pc \in AtWork
    BY <2>1 DEF Sound
  <2>3. agents[a].bound \in Turns \cup {NoTurn} /\ agents[a].lock \in Seq(Turns)
    BY <2>1 DEF AgentInfo
  <2>4. \A t \in Turns : turns[t].agent = a /\ turns[t].pc \in AtWork
                           => Head(agents[a].lock) = t
    BY <2>1, <2>3 DEF Sound
  <2> QED
    BY <2>2, <2>3, <2>4, PoolAssumption DEF Holders, AtWork
<1>2. IInv => OneTurnPerAgent
  BY <1>1 DEF OneTurnPerAgent
<1> QED
  BY <1>2, PoolIsSound, PTL

(***************************************************************************)
(* The pool's lock and its size.                                           *)
(***************************************************************************)
\* The turn has the pool's lock, or is under way to an agent in that order.
HasIt(turn) == \/ turn.pc \in {"choosing", "replacing", "evicting"}
               \/ turn.pc = "spawning" /\ turn.context # NoContext
Asks(turn)  == turn.pc = "locking" \/ HasIt(turn)

\* The lock is asked for by the turns that wait for it or have it, which with
\* a context have one to look for, and one turn at a time has it.
LockInv ==
  /\ Distinct(poolLock)
  /\ \A t \in Turns : Within(poolLock, t) <=> Asks(turns[t])
  /\ \A t \in Turns : HasIt(turns[t]) => poolLock[1] = t
  /\ \A t \in Turns : Asks(turns[t]) => turns[t].context # NoContext

\* The turn that launches an agent for the pool found room for it, or every
\* agent of the pool claimed: it was then one more turn that was under way.
RoomInv ==
  /\ UnderWay(turns) <= peak
  /\ \A t \in Turns : turns[t].pc = "spawning" /\ turns[t].context # NoContext
                        => Len(pool) < MaxAgents \/ Len(pool) + 1 <= peak

BoundInv == IInv /\ LockInv /\ RoomInv /\ PoolIsBounded

\* The turn t, and no other, goes on.
Onwards(t) == /\ \A u \in Turns : u # t => turns'[u] = turns[u]
              /\ turns'[t].context = turns[t].context
              /\ turns'[t].resume = turns[t].resume
              /\ turns[t].pc \notin {"idle", "done"}
              /\ peak' = peak

\* Where _open_session begins, and what it is about to do.
LEMMA EnteredKeeps ==
  ASSUME NEW turn \in TurnInfo, NEW agent \in AgentInfo
  PROVE  LET new == Entered(turn, agent)
         IN  /\ new.context = turn.context /\ new.resume = turn.resume
             /\ \/ /\ new.pc = "prompting" /\ new.ran = agent.session
                   /\ agent.session # NoSession
                   /\ turn.resume \in {NoSession, agent.session}
                \/ /\ new.pc = "opening" /\ new.ran = turn.ran
                   /\ new.told = (turn.resume # NoSession /\ ~agent.canLoad)
<1>1. CASE agent.session # NoSession /\ turn.resume \in {NoSession, agent.session}
  <2>1. Entered(turn, agent)
          = [turn EXCEPT !.pc = "prompting", !.ran = agent.session]
    BY <1>1 DEF Entered
  <2> QED
    BY <1>1, <2>1 DEF TurnInfo
<1>2. CASE ~(agent.session # NoSession /\ turn.resume \in {NoSession, agent.session})
  <2> DEFINE told == turn.resume # NoSession /\ ~agent.canLoad
  <2>1. Entered(turn, agent) = [turn EXCEPT !.pc = "opening", !.told = told]
    BY <1>2 DEF Entered
  <2>2. PICK new : new = [turn EXCEPT !.pc = "opening", !.told = told]
    OBVIOUS
  <2> HIDE DEF told
  <2>3. /\ new.context = turn.context /\ new.resume = turn.resume
        /\ new.pc = "opening" /\ new.ran = turn.ran /\ new.told = told
    BY <2>2 DEF TurnInfo
  <2> QED
    BY <2>1, <2>2, <2>3 DEF told
<1> QED
  BY <1>1, <1>2

\* The same of a turn that claims an agent, if it need not queue for it.
LEMMA HoldingKeeps ==
  ASSUME NEW turn \in TurnInfo, NEW agent \in AgentInfo, NEW a \in Nat
  PROVE  LET new == Holding(turn, a, agent)
         IN  /\ new.context = turn.context /\ new.resume = turn.resume
             /\ \/ new.pc = "queued" /\ new.ran = turn.ran
                \/ /\ new.pc = "prompting" /\ new.ran = agent.session
                   /\ agent.session # NoSession
                   /\ turn.resume \in {NoSession, agent.session}
                \/ /\ new.pc = "opening" /\ new.ran = turn.ran
                   /\ new.told = (turn.resume # NoSession /\ ~agent.canLoad)
<1>1. PICK mine : mine = [turn EXCEPT !.agent = a]
  OBVIOUS
<1>2. /\ mine \in TurnInfo /\ mine.context = turn.context
      /\ mine.resume = turn.resume /\ mine.ran = turn.ran
  BY <1>1 DEF TurnInfo
<1>3. CASE agent.lock = <<>>
  <2>1. Holding(turn, a, agent) = Entered(mine, agent)
    BY <1>1, <1>3 DEF Holding
  <2> QED
    BY <1>2, <2>1, EnteredKeeps
<1>4. CASE agent.lock # <<>>
  <2>1. Holding(turn, a, agent) = [mine EXCEPT !.pc = "queued"]
    BY <1>1, <1>4 DEF Holding
  <2> QED
    BY <1>2, <2>1 DEF TurnInfo
<1> QED
  BY <1>3, <1>4

\* A turn that claims an agent of the pool, or one it has launched.
LEMMA TakesAgent ==
  ASSUME IInv, NEW t \in Turns, NEW a \in Nat, NEW agent \in AgentInfo,
         turns[t].pc \notin {"idle", "done"}, peak' = peak,
         turns' = [turns EXCEPT ![t] = Holding(turns[t], a, agent)]
  PROVE  /\ Onwards(t) /\ turns'[t].agent = a
         /\ turns'[t].pc \in {"queued"} \cup AtWork
         /\ turns'[t] = Holding(turns[t], a, agent)
<1>1. turns[t] \in TurnInfo /\ turns \in [Turns -> TurnInfo]
  BY DEF IInv, TypeOK
<1>2. PICK new : new = Holding(turns[t], a, agent)
  OBVIOUS
<1>3. /\ new.context = turns[t].context /\ new.resume = turns[t].resume
      /\ new.pc \in {"queued", "prompting", "opening"} /\ new.agent = a
  BY <1>1, <1>2, HoldingKeeps, HoldingIs
<1>4. turns'[t] = new /\ \A u \in Turns : u # t => turns'[u] = turns[u]
  BY <1>1, <1>2
<1> QED
  BY <1>2, <1>3, <1>4 DEF Onwards, AtWork

\* In which order, and at which of its places, a turn goes on.
LEMMA ReuseIs ==
  ASSUME IInv, NEW t \in Turns, Reuse(t)
  PROVE  /\ Onwards(t)
         /\ turns'[t].pc \in {"queued"} \cup AtWork
         /\ \E a \in Agents : /\ a = Pooled(turns[t].context)
                              /\ turns'[t] = Holding(turns[t], a, agents[a])
                              /\ turns'[t].agent = a
<1>1. PICK a \in Agents : a = Pooled(turns[t].context)
  BY PooledIs DEF Reuse, IInv
<1>2. /\ turns[t].pc = "locking" /\ peak' = peak
      /\ turns' = [turns EXCEPT ![t] = Holding(turns[t], a, agents[a])]
  BY <1>1 DEF Reuse, aside, IInv, TypeOK
<1>3. agents[a] \in AgentInfo /\ a \in Nat
  BY KnownAgent
<1>4. turns[t].pc \notin {"idle", "done"}
  BY <1>2
<1>5. /\ Onwards(t) /\ turns'[t].agent = a
      /\ turns'[t].pc \in {"queued"} \cup AtWork
      /\ turns'[t] = Holding(turns[t], a, agents[a])
  BY <1>2, <1>3, <1>4, TakesAgent, ZenonT(60)
<1> QED
  BY <1>1, <1>5

LEMMA SpawnedIs ==
  ASSUME IInv, NEW t \in Turns, Spawned(t)
  PROVE  /\ Onwards(t)
         /\ turns'[t].pc = "opening"
         /\ \E loads \in BOOLEAN :
              LET agent == NewAgent(turns[t].context, loads)
                  a == Len(agents) + 1
              IN  /\ agent \in AgentInfo
                  /\ agents' = Append(agents, Claimed(agent, t))
                  /\ turns'[t] = Holding(turns[t], a, agent)
                  /\ turns'[t].agent = a
<1>1. PICK loads \in Loads :
        /\ agents' = Append(agents, Claimed(NewAgent(turns[t].context, loads), t))
        /\ turns' = [turns EXCEPT
                       ![t] = Holding(@, Len(agents) + 1,
                                      NewAgent(turns[t].context, loads))]
  BY DEF Spawned
<1>2. PICK agent, a : /\ agent = NewAgent(turns[t].context, loads)
                      /\ a = Len(agents) + 1
  OBVIOUS
<1>3. /\ turns[t].pc = "spawning" /\ peak' = peak
      /\ turns[t] \in TurnInfo /\ turns \in [Turns -> TurnInfo] /\ a \in Nat
  BY <1>2, LenProperties DEF Spawned, aside, IInv, TypeOK
<1>4. agent \in AgentInfo /\ agent.lock = <<>> /\ agent.session = NoSession
  <2>1. turns[t].context \in Contexts \cup {NoContext} /\ loads \in BOOLEAN
    BY <1>3, PoolAssumption DEF TurnInfo
  <2>2. <<>> \in Seq(Turns)
    OBVIOUS
  <2> QED
    BY <1>2, <2>1, <2>2 DEF NewAgent, AgentInfo, NoSession
<1>5. turns' = [turns EXCEPT ![t] = Holding(turns[t], a, agent)]
  BY <1>1, <1>2, <1>3
<1>6. /\ Onwards(t) /\ turns'[t].agent = a
      /\ turns'[t] = Holding(turns[t], a, agent)
  BY <1>3, <1>4, <1>5, TakesAgent
<1>7. turns'[t].pc = "opening"
  <2>1. turns'[t].pc # "queued"
    BY <1>3, <1>4, <1>6, HoldingIs DEF AtWork
  <2> QED
    BY <1>3, <1>4, <1>6, <2>1, HoldingKeeps
<1> QED
  BY <1>1, <1>2, <1>4, <1>6, <1>7, PoolAssumption

\* The others only go from one place to the next.
LEMMA EnterIs ==
  ASSUME IInv, NEW t \in Turns, Enter(t)
  PROVE  /\ Onwards(t) /\ turns'[t].pc \in AtWork
         /\ turns[t].agent \in Agents
         /\ turns'[t] = Entered(turns[t], agents[turns[t].agent])
<1>1. PICK a \in Agents : a = turns[t].agent
  BY DEF Enter, IInv, HasAgent, InUse
<1>2. /\ turns[t].pc = "queued" /\ peak' = peak
      /\ turns[t] \in TurnInfo /\ turns \in [Turns -> TurnInfo]
      /\ agents[a] \in AgentInfo
  BY Known DEF Enter, aside, IInv, TypeOK
<1>3. PICK new : new = Entered(turns[t], agents[a])
  OBVIOUS
<1>4. turns' = [turns EXCEPT ![t] = new]
  BY <1>1, <1>3 DEF Enter
<1>5. /\ new.context = turns[t].context /\ new.resume = turns[t].resume
      /\ new.pc \in AtWork
  BY <1>2, <1>3, EnteredKeeps DEF AtWork
<1>6. turns'[t] = new /\ \A u \in Turns : u # t => turns'[u] = turns[u]
  BY <1>2, <1>4
<1> QED
  BY <1>1, <1>2, <1>3, <1>5, <1>6 DEF Onwards

\* Within _acquire, with the pool's lock.
LEMMA SearchIs ==
  ASSUME IInv, NEW t \in Turns,
         \/ Replace(t) \/ Miss(t) \/ Evict(t) \/ ClosedForRoom(t) \/ Launch(t)
  PROVE  /\ Onwards(t) /\ poolLock' = poolLock
         /\ turns'[t].ran = turns[t].ran
         /\ \/ /\ turns[t].pc = "locking" /\ HasPool(t)
            \/ turns[t].pc \in {"choosing", "replacing", "evicting"}
         /\ turns'[t].pc \in {"choosing", "replacing", "evicting", "spawning"}
         /\ turns'[t].pc = "spawning" => Launch(t)
<1>1. turns \in [Turns -> TurnInfo] /\ turns[t] \in TurnInfo
  BY DEF IInv, TypeOK
<1>2. CASE Replace(t)
  <2>1. PICK pc, a : /\ turns' = [turns EXCEPT ![t].pc = pc, ![t].agent = a]
                     /\ pc \in {"replacing", "choosing"}
    BY <1>2 DEF Replace
  <2> QED
    BY <1>1, <1>2, <2>1 DEF Replace, aside, Onwards, TurnInfo
<1>3. CASE Evict(t)
  <2>1. PICK pc, a : /\ turns' = [turns EXCEPT ![t].pc = pc, ![t].agent = a]
                     /\ pc \in {"evicting", "choosing"}
    BY <1>3 DEF Evict
  <2> QED
    BY <1>1, <1>3, <2>1 DEF Evict, aside, Onwards, TurnInfo
<1>4. CASE Miss(t)
  BY <1>1, <1>4 DEF Miss, aside, Onwards, TurnInfo
<1>5. CASE ClosedForRoom(t)
  BY <1>1, <1>5 DEF ClosedForRoom, aside, Onwards, TurnInfo
<1>6. CASE Launch(t)
  BY <1>1, <1>6 DEF Launch, aside, Onwards, TurnInfo
<1> QED
  BY <1>2, <1>3, <1>4, <1>5, <1>6

\* A session is opened: the one asked for, or a new one.
LEMMA OpenedIs ==
  ASSUME IInv, NEW t \in Turns, Opened(t)
  PROVE  /\ Onwards(t) /\ poolLock' = poolLock /\ pool' = pool
         /\ turns[t].pc = "opening" /\ turns'[t].pc = "prompting"
         /\ turns'[t].told = turns[t].told /\ turns'[t].agent = turns[t].agent
         /\ turns'[t].ran = IF /\ turns[t].resume # NoSession
                               /\ agents[turns[t].agent].canLoad
                            THEN turns[t].resume ELSE opened + 1
<1>1. turns \in [Turns -> TurnInfo] /\ turns[t] \in TurnInfo
  BY DEF IInv, TypeOK
<1>2. PICK id : id = IF turns[t].resume # NoSession
                        /\ agents[turns[t].agent].canLoad
                     THEN turns[t].resume ELSE opened + 1
  OBVIOUS
<1>3. turns' = [turns EXCEPT ![t].pc = "prompting", ![t].ran = id]
  BY <1>2 DEF Opened
<1>4. turns'[t] = [turns[t] EXCEPT !.pc = "prompting", !.ran = id]
  BY <1>1, <1>3
<1>5. /\ turns'[t].pc = "prompting" /\ turns'[t].ran = id
      /\ turns'[t].told = turns[t].told /\ turns'[t].agent = turns[t].agent
      /\ turns'[t].context = turns[t].context
      /\ turns'[t].resume = turns[t].resume
  BY <1>1, <1>4 DEF TurnInfo
<1>6. \A u \in Turns : u # t => turns'[u] = turns[u]
  BY <1>1, <1>3
<1> QED
  BY <1>2, <1>5, <1>6 DEF Opened, Onwards

\* After that, or without it, the turn leaves its agent.
LEMMA RunIs ==
  ASSUME IInv, NEW t \in Turns,
         Prompted(t) \/ Breaks(t) \/ Leave(t) \/ GiveUp(t) \/ ClosedAfter(t)
  PROVE  /\ Onwards(t) /\ poolLock' = poolLock /\ pool' = pool
         /\ turns[t].pc \in InUse \cup {"closing"}
         /\ turns'[t].pc \in {"unbinding", "closing", "done"}
         /\ turns'[t].pc = "unbinding" => turns[t].pc \in AtWork
         /\ turns'[t].ran = turns[t].ran
         /\ turns'[t].told = turns[t].told
         /\ turns'[t].agent = turns[t].agent
<1>1. turns \in [Turns -> TurnInfo] /\ turns[t] \in TurnInfo
  BY DEF IInv, TypeOK
<1>2. CASE Prompted(t)
  BY <1>1, <1>2 DEF Prompted, Onwards, TurnInfo, InUse, AtWork
<1>3. CASE Breaks(t)
  BY <1>1, <1>3 DEF Breaks, aside, Onwards, TurnInfo, InUse, AtWork
<1>4. CASE Leave(t) \/ GiveUp(t)
  <2>1. PICK pc \in {"closing", "done"} : turns' = [turns EXCEPT ![t].pc = pc]
    BY <1>4 DEF Leave, GiveUp, GiveBack
  <2> QED
    BY <1>1, <1>4, <2>1 DEF Leave, GiveUp, aside, Onwards, TurnInfo, InUse, AtWork
<1>5. CASE ClosedAfter(t)
  BY <1>1, <1>5 DEF ClosedAfter, aside, Onwards, TurnInfo, InUse
<1> QED
  BY <1>2, <1>3, <1>4, <1>5

\* At its end before it had an agent, or in the middle of a close.
LEMMA EndIs ==
  ASSUME IInv, NEW t \in Turns, SpawnFails(t) \/ Cancelled(t)
  PROVE  /\ Onwards(t) /\ poolLock' = Without(poolLock, t) /\ pool' = pool
         /\ turns'[t].pc = "done" /\ turns'[t].ran = turns[t].ran
         /\ turns'[t].told = turns[t].told
<1>1. turns \in [Turns -> TurnInfo] /\ turns[t] \in TurnInfo
  BY DEF IInv, TypeOK
<1>2. CASE SpawnFails(t)
  BY <1>1, <1>2 DEF SpawnFails, aside, Onwards, TurnInfo
<1>3. CASE Cancelled(t)
  BY <1>1, <1>3 DEF Cancelled, aside, Onwards, TurnInfo
<1> QED
  BY <1>2, <1>3

\* The lock stays where it is: the turn has it still, or had nothing to do with
\* it.
LEMMA LockStays ==
  ASSUME LockInv, NEW t \in Turns, Onwards(t), poolLock' = poolLock,
         Asks(turns'[t]) <=> Asks(turns[t]),
         HasIt(turns'[t]) => poolLock[1] = t
  PROVE  LockInv'
<1>1. \A u \in Turns : Asks(turns'[u]) <=> Asks(turns[u])
  BY DEF Onwards
<1>2. \A u \in Turns : HasIt(turns'[u]) => poolLock[1] = u
  BY DEF Onwards, LockInv
<1>3. \A u \in Turns : turns'[u].context = turns[u].context
  BY DEF Onwards
<1> QED
  BY <1>1, <1>2, <1>3 DEF LockInv

\* The turn lets go of the lock, or no longer waits for it.
LEMMA LockLeft ==
  ASSUME LockInv, NEW t \in Turns, Onwards(t), ~Asks(turns'[t]),
         Distinct(poolLock'),
         \A y : Within(poolLock', y) <=> Within(poolLock, y) /\ y # t,
         poolLock # <<>> /\ poolLock[1] # t => poolLock'[1] = poolLock[1]
  PROVE  LockInv'
<1>1. \A u \in Turns : Within(poolLock', u) <=> Asks(turns'[u])
  BY DEF Onwards, LockInv
<1>2. ASSUME NEW u \in Turns, HasIt(turns'[u]) PROVE poolLock'[1] = u
  <2>1. u # t
    BY <1>2 DEF Asks
  <2>2. turns'[u] = turns[u]
    BY <2>1 DEF Onwards
  <2>3. poolLock[1] = u /\ Within(poolLock, u)
    BY <1>2, <2>2 DEF LockInv, Asks
  <2>4. poolLock # <<>>
    BY <2>3 DEF Within
  <2> QED
    BY <2>1, <2>3, <2>4
<1>3. \A u \in Turns : Asks(turns'[u]) => turns'[u].context # NoContext
  BY DEF Onwards, LockInv
<1> QED
  BY <1>1, <1>2, <1>3 DEF LockInv

\* The first of a queue leaves it.
LEMMA FirstLeaves ==
  ASSUME NEW S, NEW s \in Seq(S), s # <<>>, Distinct(s),
         NEW rest, rest = Tail(s)
  PROVE  /\ Distinct(rest)
         /\ \A y : Within(rest, y) <=> Within(s, y) /\ y # s[1]
<1>1. /\ Len(s) \in Nat /\ Len(rest) = Len(s) - 1 /\ Len(s) >= 1
      /\ \A i \in 1..Len(rest) : rest[i] = s[i + 1]
  BY HeadTailProperties, LenProperties, EmptySeq
<1>2. \A i \in 1..Len(rest) : i + 1 \in 1..Len(s) /\ i + 1 # 1
  BY <1>1
<1>3. Distinct(rest)
  <2> SUFFICES ASSUME NEW i \in 1..Len(rest), NEW j \in 1..Len(rest),
                      rest[i] = rest[j]
               PROVE  i = j
    BY DEF Distinct
  <2>1. s[i + 1] = s[j + 1]
    BY <1>1
  <2>2. i + 1 = j + 1
    BY <1>2, <2>1 DEF Distinct
  <2> QED
    BY <2>2
<1>4. ASSUME NEW y, Within(rest, y) PROVE Within(s, y) /\ y # s[1]
  <2>1. PICK i \in 1..Len(rest) : rest[i] = y
    BY <1>4 DEF Within
  <2>2. s[i + 1] = y /\ i + 1 \in 1..Len(s) /\ i + 1 # 1 /\ 1 \in 1..Len(s)
    BY <1>1, <1>2, <2>1
  <2>3. s[i + 1] # s[1]
    BY <2>2 DEF Distinct
  <2> QED
    BY <2>2, <2>3 DEF Within
<1>5. ASSUME NEW y, Within(s, y), y # s[1] PROVE Within(rest, y)
  <2>1. PICK i \in 1..Len(s) : s[i] = y
    BY <1>5 DEF Within
  <2>2. i # 1
    BY <1>5, <2>1
  <2>3. i - 1 \in 1..Len(rest) /\ (i - 1) + 1 = i
    BY <1>1, <2>1, <2>2
  <2>4. rest[i - 1] = y
    BY <1>1, <2>1, <2>3
  <2> QED
    BY <2>3, <2>4 DEF Within
<1> QED
  BY <1>3, <1>4, <1>5

LEMMA StartLock == ASSUME BoundInv, NEW t \in Turns, Start(t) PROVE LockInv'
<1>0. PICK x \in Contexts \cup {NoContext} :
        \E resume :
          /\ turns' = [turns EXCEPT
                         ![t].pc = IF x = NoContext THEN "spawning" ELSE "locking",
                         ![t].context = x,
                         ![t].resume = resume]
          /\ poolLock' = IF x = NoContext THEN poolLock ELSE Append(poolLock, t)
  BY DEF Start
<1>1. PICK resume :
        /\ turns' = [turns EXCEPT
                       ![t].pc = IF x = NoContext THEN "spawning" ELSE "locking",
                       ![t].context = x,
                       ![t].resume = resume]
        /\ poolLock' = IF x = NoContext THEN poolLock ELSE Append(poolLock, t)
  BY <1>0
<1>2. /\ turns \in [Turns -> TurnInfo] /\ turns[t].pc = "idle"
      /\ poolLock \in Seq(Turns) /\ LockInv
  BY DEF BoundInv, IInv, TypeOK, Start
<1>3. turns[t] \in TurnInfo
  BY <1>2
<1>4. /\ turns'[t].pc = IF x = NoContext THEN "spawning" ELSE "locking"
      /\ turns'[t].context = x
      /\ \A u \in Turns : u # t => turns'[u] = turns[u]
  BY <1>1, <1>2, <1>3 DEF TurnInfo
<1>5. ~Asks(turns[t]) /\ ~HasIt(turns'[t])
  BY <1>2, <1>4 DEF Asks, HasIt
<1>6. Asks(turns'[t]) <=> x # NoContext
  BY <1>4 DEF Asks, HasIt
<1>7. CASE x = NoContext
  BY <1>1, <1>2, <1>4, <1>5, <1>6, <1>7 DEF LockInv
<1>8. CASE x # NoContext
  <2>1. PICK old, new : old = poolLock /\ new = Append(old, t)
    OBVIOUS
  <2>2. old \in Seq(Turns) /\ Distinct(old) /\ ~Within(old, t)
    BY <1>2, <1>5, <2>1 DEF LockInv
  <2>3. /\ Distinct(new)
        /\ \A y : Within(new, y) <=> Within(old, y) \/ y = t
        /\ new[1] = IF old = <<>> THEN t ELSE old[1]
    BY <2>1, <2>2, Joined
  <2>4. poolLock' = new
    BY <1>1, <1>8, <2>1
  <2>5. \A u \in Turns : Within(poolLock', u) <=> Asks(turns'[u])
    BY <1>2, <1>4, <1>6, <1>8, <2>1, <2>3, <2>4 DEF LockInv
  <2>6. ASSUME NEW u \in Turns, HasIt(turns'[u]) PROVE poolLock'[1] = u
    <3>1. u # t /\ turns'[u] = turns[u]
      BY <1>4, <1>5, <2>6
    <3>2. old[1] = u /\ Within(old, u)
      BY <1>2, <2>1, <2>6, <3>1 DEF LockInv, Asks
    <3>3. old # <<>>
      BY <3>2 DEF Within
    <3> QED
      BY <2>3, <2>4, <3>2, <3>3
  <2>7. \A u \in Turns : Asks(turns'[u]) => turns'[u].context # NoContext
    BY <1>2, <1>4, <1>8 DEF LockInv
  <2> QED
    BY <2>3, <2>4, <2>5, <2>6, <2>7 DEF LockInv
<1> QED
  BY <1>7, <1>8

LEMMA SearchLock ==
  ASSUME BoundInv, NEW t \in Turns,
         \/ Replace(t) \/ Miss(t) \/ Evict(t) \/ ClosedForRoom(t) \/ Launch(t)
  PROVE  LockInv'
<1>1. IInv /\ LockInv /\ poolLock \in Seq(Turns)
  BY DEF BoundInv, IInv, TypeOK
<1>2. /\ Onwards(t) /\ poolLock' = poolLock
      /\ \/ turns[t].pc = "locking" /\ HasPool(t)
         \/ turns[t].pc \in {"choosing", "replacing", "evicting"}
      /\ turns'[t].pc \in {"choosing", "replacing", "evicting", "spawning"}
  BY <1>1, SearchIs
<1>3. Asks(turns[t])
  BY <1>2 DEF Asks, HasIt
<1>4. turns'[t].context # NoContext
  BY <1>1, <1>2, <1>3 DEF LockInv, Onwards
<1>5. HasIt(turns'[t]) /\ Asks(turns'[t])
  BY <1>2, <1>4 DEF HasIt, Asks
<1>6. poolLock[1] = t
  <2>1. CASE HasPool(t)
    BY <2>1 DEF HasPool
  <2>2. CASE turns[t].pc \in {"choosing", "replacing", "evicting"}
    BY <1>1, <2>2 DEF LockInv, HasIt
  <2> QED
    BY <1>2, <2>1, <2>2
<1> QED
  BY <1>1, <1>2, <1>3, <1>5, <1>6, LockStays

LEMMA RunLock ==
  ASSUME BoundInv, NEW t \in Turns,
         Enter(t) \/ Opened(t) \/ Prompted(t) \/ Breaks(t) \/ Leave(t) \/ GiveUp(t)
           \/ ClosedAfter(t)
  PROVE  LockInv'
<1>1. IInv /\ LockInv
  BY DEF BoundInv
<1>2. /\ Onwards(t) /\ poolLock' = poolLock
      /\ turns[t].pc \in InUse \cup {"closing"}
      /\ turns'[t].pc \in AtWork \cup {"unbinding", "closing", "done"}
  <2>1. CASE Enter(t)
    BY <1>1, <2>1, EnterIs DEF Enter, InUse
  <2>2. CASE Opened(t)
    BY <1>1, <2>2, OpenedIs DEF InUse, AtWork
  <2>3. CASE ~Enter(t) /\ ~Opened(t)
    BY <1>1, <2>3, RunIs
  <2> QED
    BY <2>1, <2>2, <2>3
<1>3. ~Asks(turns[t]) /\ ~Asks(turns'[t]) /\ ~HasIt(turns'[t])
  BY <1>2 DEF Asks, HasIt, InUse, AtWork
<1> QED
  BY <1>1, <1>2, <1>3, LockStays

\* The turn takes itself out, be it the first.
LEMMA LockGiven ==
  ASSUME BoundInv, NEW t \in Turns, Onwards(t), ~Asks(turns'[t]),
         poolLock' = Without(poolLock, t)
  PROVE  LockInv'
<1>1. LockInv /\ poolLock \in Seq(Turns)
  BY DEF BoundInv, IInv, TypeOK
<1>2. PICK old, new : old = poolLock /\ new = Without(old, t)
  OBVIOUS
<1>3. old \in Seq(Turns) /\ Distinct(old)
  BY <1>1, <1>2 DEF LockInv
<1>4. /\ Distinct(new)
      /\ \A y : Within(new, y) <=> Within(old, y) /\ y # t
      /\ old # <<>> /\ old[1] # t => new[1] = old[1]
  BY <1>2, <1>3, TakenOut
<1>5. poolLock' = new
  BY <1>2
<1> QED
  BY <1>1, <1>2, <1>4, <1>5, LockLeft

LEMMA EndLock ==
  ASSUME BoundInv, NEW t \in Turns, SpawnFails(t) \/ Cancelled(t) \/ Spawned(t)
  PROVE  LockInv'
<1>1. /\ Onwards(t) /\ poolLock' = Without(poolLock, t)
      /\ turns'[t].pc \in {"done", "opening"}
  <2>1. CASE Spawned(t)
    BY <2>1, SpawnedIs DEF Spawned, BoundInv
  <2>2. CASE ~Spawned(t)
    BY <2>2, EndIs DEF BoundInv
  <2> QED
    BY <2>1, <2>2
<1>2. ~Asks(turns'[t])
  BY <1>1 DEF Asks, HasIt
<1> QED
  BY <1>1, <1>2, LockGiven

LEMMA ReuseLock == ASSUME BoundInv, NEW t \in Turns, Reuse(t) PROVE LockInv'
<1>1. /\ LockInv /\ poolLock \in Seq(Turns) /\ IInv
      /\ poolLock # <<>> /\ poolLock[1] = t /\ poolLock' = Tail(poolLock)
  BY DEF BoundInv, IInv, TypeOK, Reuse, HasPool
<1>2. Onwards(t) /\ turns'[t].pc \in {"queued"} \cup AtWork
  BY <1>1, ReuseIs
<1>3. ~Asks(turns'[t])
  BY <1>2 DEF Asks, HasIt, AtWork
<1>4. PICK old, new : old = poolLock /\ new = Tail(old)
  OBVIOUS
<1>5. old \in Seq(Turns) /\ Distinct(old) /\ old # <<>>
  BY <1>1, <1>4 DEF LockInv
<1>6. /\ Distinct(new)
      /\ \A y : Within(new, y) <=> Within(old, y) /\ y # old[1]
  BY <1>4, <1>5, FirstLeaves
<1>7. poolLock' = new
  BY <1>1, <1>4
<1> QED
  BY <1>1, <1>2, <1>3, <1>4, <1>6, <1>7, LockLeft

\* No more turns are under way than the most that ever were.
LEMMA NoMoreUnderWay ==
  ASSUME BoundInv, NEW t \in Turns, Onwards(t)
  PROVE  UnderWay(turns') <= peak'
<1>1. PICK old : old = {u \in Turns : turns[u].pc \notin {"idle", "done"}}
  OBVIOUS
<1>2. PICK new : new = {u \in Turns : turns'[u].pc \notin {"idle", "done"}}
  OBVIOUS
<1>3. new \subseteq old /\ old \subseteq Turns
  BY <1>1, <1>2 DEF Onwards
<1>4. IsFiniteSet(old) /\ IsFiniteSet(new)
  BY <1>3, PoolAssumption, FS_Subset
<1>5. Cardinality(new) <= Cardinality(old)
  BY <1>3, <1>4, FS_Subset
<1>6. Cardinality(old) \in Nat /\ Cardinality(new) \in Nat
  BY <1>4, FS_CardinalityType
<1>7. Cardinality(old) <= peak /\ peak \in Nat /\ peak' = peak
  BY <1>1 DEF BoundInv, RoomInv, UnderWay, IInv, TypeOK, Onwards
<1>8. UnderWay(turns') = Cardinality(new)
  BY <1>2 DEF UnderWay
<1> QED
  BY <1>5, <1>6, <1>7, <1>8

\* One turn launches an agent for the pool at a time.
LEMMA OneLaunches ==
  ASSUME LockInv, NEW t \in Turns, NEW u \in Turns,
         HasIt(turns[t]), HasIt(turns[u])
  PROVE  t = u
BY DEF LockInv

\* A step of a turn that leaves no more in the pool and launches nothing for it.
LEMMA RoomStays ==
  ASSUME BoundInv, IInv', LockInv', NEW t \in Turns, Onwards(t),
         Len(pool') <= Len(pool), turns'[t].pc # "spawning"
  PROVE  BoundInv'
<1>1. UnderWay(turns') <= peak'
  BY NoMoreUnderWay
<1>2. Len(pool) \in Nat /\ Len(pool') \in Nat
  BY LenProperties DEF BoundInv, IInv, TypeOK
<1>3. ASSUME NEW u \in Turns, turns'[u].pc = "spawning",
             turns'[u].context # NoContext
      PROVE  Len(pool') < MaxAgents \/ Len(pool') + 1 <= peak'
  <2>1. turns'[u] = turns[u] /\ peak' = peak
    BY <1>3 DEF Onwards
  <2>2. Len(pool) < MaxAgents \/ Len(pool) + 1 <= peak
    BY <1>3, <2>1 DEF BoundInv, RoomInv
  <2> QED
    BY <1>2, <2>1, <2>2, PoolAssumption DEF BoundInv, IInv, TypeOK
<1>4. PoolIsBounded'
  <2>1. peak' = peak /\ (Len(pool) <= MaxAgents \/ Len(pool) <= peak)
    BY DEF BoundInv, PoolIsBounded, Onwards
  <2> QED
    BY <1>2, <2>1, PoolAssumption DEF PoolIsBounded, BoundInv, IInv, TypeOK
<1> QED
  BY <1>1, <1>3, <1>4 DEF BoundInv, RoomInv

\* An agent leaves the pool.
LEMMA PoolShrinks ==
  ASSUME IInv, NEW a, pool' = Without(pool, a)
  PROVE  Len(pool') <= Len(pool)
<1>1. PICK old, new : old = pool /\ new = Without(old, a)
  OBVIOUS
<1>2. old \in Seq(Agents) /\ Distinct(old) /\ Len(old) \in Nat
  BY <1>1, LenProperties DEF IInv, TypeOK
<1>3. Within(old, a) => Len(new) = Len(old) - 1
  BY <1>1, <1>2, TakenOut
<1>4. ~Within(old, a) => new = old
  BY <1>1 DEF Without, Within
<1>5. Len(new) <= Len(old)
  BY <1>2, <1>3, <1>4
<1> QED
  BY <1>1, <1>5

\* The one the turn comes to becomes the last of the pool.
LEMMA PoolTurns ==
  ASSUME IInv, NEW t \in Turns, Reuse(t)
  PROVE  Len(pool') = Len(pool)
<1>1. PICK a \in Agents : a = Pooled(turns[t].context) /\ Within(pool, a)
  BY PooledIs DEF Reuse, IInv
<1>2. pool' = Append(Without(pool, a), a)
  BY <1>1 DEF Reuse
<1>3. PICK old, rest, new :
        old = pool /\ rest = Without(old, a) /\ new = Append(rest, a)
  OBVIOUS
<1>4. old \in Seq(Agents) /\ Distinct(old) /\ Within(old, a) /\ Len(old) \in Nat
  BY <1>1, <1>3, LenProperties DEF IInv, TypeOK
<1>5. rest \in Seq(Agents) /\ Len(rest) = Len(old) - 1
  BY <1>3, <1>4, TakenOut
<1>6. Len(new) = Len(rest) + 1
  BY <1>3, <1>5, AppendProperties
<1> QED
  BY <1>2, <1>3, <1>4, <1>5, <1>6

\* Where every agent of the pool is claimed, as many turns are at work with the
\* pool's agents as there are of them: each claim is another turn's.
LEMMA ClaimedByAsMany ==
  ASSUME IInv, Victims = {}
  PROVE  \E T \in SUBSET {u \in Turns : turns[u].pc \in InUse} :
           Len(pool) <= Cardinality(T)
<1> DEFINE At(i) == agents[pool[i]].lock[1]
           T == {u \in Turns : turns[u].pc \in InUse}
           f == [i \in 1..Len(pool) |-> At(i)]
<1>1. Len(pool) \in Nat /\ \A i \in 1..Len(pool) : pool[i] \in Agents
  BY LenProperties, ElementOfSeq DEF IInv, TypeOK
<1>2. ASSUME NEW i \in 1..Len(pool)
      PROVE  At(i) \in T /\ turns[At(i)].agent = pool[i]
  <2>1. PICK a \in Agents : a = pool[i]
    BY <1>1
  <2>2. PICK agent : agent = agents[a]
    OBVIOUS
  <2>3. agent \in AgentInfo /\ Sound(turns, agent, a)
    BY <2>2, KnownAgent
  <2>4. PICK lock \in Seq(Turns) : lock = agent.lock
    BY <2>3 DEF AgentInfo
  <2>5. agent.claims # 0
    BY <2>1, <2>2 DEF Victims
  <2>6. Len(lock) \in Nat /\ Len(lock) # 0
    BY <2>3, <2>4, <2>5, LenProperties DEF Sound
  <2>7. 1 \in 1..Len(lock)
    BY <2>6
  <2>8. lock[1] \in Turns /\ Within(lock, lock[1])
    BY <2>4, <2>7, ElementOfSeq DEF Within
  <2>9. Holds(turns[lock[1]], a)
    BY <2>3, <2>4, <2>8 DEF Sound
  <2> QED
    BY <2>1, <2>2, <2>4, <2>8, <2>9 DEF Holds
<1>3. f \in Injection(1..Len(pool), T)
  <2>1. f \in [1..Len(pool) -> T]
    BY <1>2
  <2>2. \A i, j \in 1..Len(pool) : f[i] = f[j] => i = j
    <3> SUFFICES ASSUME NEW i \in 1..Len(pool), NEW j \in 1..Len(pool), f[i] = f[j]
                 PROVE  i = j
      OBVIOUS
    <3>1. At(i) = At(j)
      OBVIOUS
    <3>2. pool[i] = pool[j]
      BY <1>2, <3>1
    <3> QED
      BY <3>2 DEF IInv, Distinct
  <2> HIDE DEF f, T
  <2> QED
    BY <2>1, <2>2 DEF Injection, IsInjective
<1>4. IsFiniteSet(T)
  BY PoolAssumption, FS_Subset
<1> HIDE DEF f, T
<1>5. Cardinality(1..Len(pool)) <= Cardinality(T)
  BY <1>3, <1>4, FS_Injection
<1>6. Cardinality(1..Len(pool)) = Len(pool)
  <2>1. PICK n \in Nat : n = Len(pool)
    BY <1>1
  <2>2. Cardinality(1..n) = IF 1 > n THEN 0 ELSE n - 1 + 1
    BY FS_Interval
  <2>3. Cardinality(1..n) = n
    BY <2>2
  <2> QED
    BY <2>1, <2>3
<1> QED
  BY <1>5, <1>6 DEF T

LEMMA LaunchRoom == ASSUME BoundInv, NEW t \in Turns, Launch(t) PROVE BoundInv'
<1>1. /\ IInv /\ turns[t].pc = "choosing" /\ pool' = pool /\ peak' = peak
      /\ ~Full \/ Victims = {}
  BY DEF BoundInv, Launch, aside
<1>2. Onwards(t)
  BY <1>1, SearchIs
<1>3. IInv' /\ LockInv'
  BY Launched, SearchLock DEF BoundInv
<1>4. UnderWay(turns') <= peak'
  BY <1>2, NoMoreUnderWay
<1>5. Len(pool) \in Nat /\ peak \in Nat
  BY <1>1, LenProperties DEF IInv, TypeOK
<1>6. Len(pool) < MaxAgents \/ Len(pool) + 1 <= peak
  <2>1. CASE ~Full
    BY <1>5, <2>1, PoolAssumption DEF Full
  <2>2. CASE Victims = {}
    <3>1. PICK T \in SUBSET {u \in Turns : turns[u].pc \in InUse} :
            Len(pool) <= Cardinality(T)
      BY <1>1, <2>2, ClaimedByAsMany
    <3>2. PICK U : U = {u \in Turns : turns[u].pc \notin {"idle", "done"}}
      OBVIOUS
    <3>3. T \cup {t} \subseteq U /\ t \notin T /\ U \subseteq Turns
      BY <1>1, <3>1, <3>2 DEF InUse, AtWork
    <3>4. IsFiniteSet(U) /\ IsFiniteSet(T)
      BY <3>3, PoolAssumption, FS_Subset
    <3>5. Cardinality(T \cup {t}) = Cardinality(T) + 1
      BY <3>3, <3>4, FS_AddElement
    <3>6. Cardinality(T \cup {t}) <= Cardinality(U)
      BY <3>3, <3>4, FS_Subset
    <3>7. Cardinality(U) <= peak
      BY <3>2 DEF BoundInv, RoomInv, UnderWay
    <3>8. Cardinality(T) \in Nat /\ Cardinality(U) \in Nat
      BY <3>4, FS_CardinalityType
    <3> QED
      BY <1>5, <3>1, <3>5, <3>6, <3>7, <3>8
  <2> QED
    BY <1>1, <2>1, <2>2
<1>7. ASSUME NEW u \in Turns, turns'[u].pc = "spawning",
             turns'[u].context # NoContext
      PROVE  Len(pool') < MaxAgents \/ Len(pool') + 1 <= peak'
  BY <1>1, <1>6
<1>8. PoolIsBounded'
  BY <1>1 DEF BoundInv, PoolIsBounded
<1> QED
  BY <1>3, <1>4, <1>7, <1>8 DEF BoundInv, RoomInv

\* The launched agent takes the room that was found for it.
LEMMA SpawnedRoom == ASSUME BoundInv, NEW t \in Turns, Spawned(t) PROVE BoundInv'
<1>1. IInv /\ LockInv /\ IInv' /\ LockInv'
  BY MadeOne, EndLock DEF BoundInv
<1>2. Onwards(t) /\ turns'[t].pc = "opening"
  BY <1>1, SpawnedIs
<1>3. turns[t].pc = "spawning"
  BY DEF Spawned
<1>4. CASE turns[t].context = NoContext
  <2>1. pool' = pool
    BY <1>4 DEF Spawned
  <2>2. Len(pool') <= Len(pool)
    BY <1>1, <2>1, LenProperties DEF IInv, TypeOK
  <2> QED
    BY <1>1, <1>2, <2>2, RoomStays
<1>5. CASE turns[t].context # NoContext
  <2>1. PICK a : pool' = Append(pool, a)
    BY <1>5 DEF Spawned
  <2>2. Len(pool) \in Nat /\ peak \in Nat /\ peak' = peak
    BY <1>1, <1>2, LenProperties DEF IInv, TypeOK, Onwards
  <2>3. Len(pool') = Len(pool) + 1
    <3>1. PICK old : old = pool
      OBVIOUS
    <3>2. old \in Seq(Agents \cup {a})
      BY <1>1, <3>1 DEF IInv, TypeOK
    <3>3. Len(Append(old, a)) = Len(old) + 1
      BY <3>2, AppendProperties
    <3> QED
      BY <2>1, <3>1, <3>3
  <2>4. Len(pool) < MaxAgents \/ Len(pool) + 1 <= peak
    BY <1>3, <1>5 DEF BoundInv, RoomInv
  <2>5. PoolIsBounded'
    BY <2>2, <2>3, <2>4, PoolAssumption DEF PoolIsBounded
  <2>6. \A u \in Turns :
          ~(turns'[u].pc = "spawning" /\ turns'[u].context # NoContext)
    <3> SUFFICES ASSUME NEW u \in Turns, turns'[u].pc = "spawning",
                        turns'[u].context # NoContext
                 PROVE  FALSE
      OBVIOUS
    <3>1. u # t /\ turns'[u] = turns[u]
      BY <1>2 DEF Onwards
    <3>2. HasIt(turns[u]) /\ HasIt(turns[t])
      BY <1>3, <1>5, <3>1 DEF HasIt
    <3> QED
      BY <1>1, <3>1, <3>2, OneLaunches
  <2>7. UnderWay(turns') <= peak'
    BY <1>2, NoMoreUnderWay
  <2> QED
    BY <1>1, <2>5, <2>6, <2>7 DEF BoundInv, RoomInv
<1> QED
  BY <1>4, <1>5

\* Another turn is under way, and is counted.
LEMMA StartRoom == ASSUME BoundInv, NEW t \in Turns, Start(t) PROVE BoundInv'
<1>1. IInv /\ IInv' /\ LockInv'
  BY Started, StartLock DEF BoundInv
<1>2. /\ peak' = IF UnderWay(turns') > peak THEN UnderWay(turns') ELSE peak
      /\ pool' = pool
  BY DEF Start
<1>3. /\ UnderWay(turns') \in Nat /\ peak \in Nat /\ Len(pool) \in Nat
  BY <1>1, Counting, LenProperties DEF IInv, TypeOK
<1>4. UnderWay(turns') <= peak' /\ peak <= peak' /\ peak' \in Nat
  BY <1>2, <1>3
<1>5. PoolIsBounded'
  <2>1. Len(pool) <= MaxAgents \/ Len(pool) <= peak
    BY DEF BoundInv, PoolIsBounded
  <2> QED
    BY <1>2, <1>3, <1>4, <2>1 DEF PoolIsBounded
<1>6. ASSUME NEW u \in Turns, turns'[u].pc = "spawning",
             turns'[u].context # NoContext
      PROVE  Len(pool') < MaxAgents \/ Len(pool') + 1 <= peak'
  <2>1. PICK x \in Contexts \cup {NoContext} :
          \E resume :
            turns' = [turns EXCEPT
                        ![t].pc = IF x = NoContext THEN "spawning" ELSE "locking",
                        ![t].context = x, ![t].resume = resume]
    BY DEF Start
  <2>2. turns \in [Turns -> TurnInfo] /\ turns[t] \in TurnInfo
    BY <1>1 DEF IInv, TypeOK
  <2>3. /\ turns'[t].pc = IF x = NoContext THEN "spawning" ELSE "locking"
        /\ turns'[t].context = x
        /\ \A v \in Turns : v # t => turns'[v] = turns[v]
    BY <2>1, <2>2 DEF TurnInfo
  <2>4. u # t
    BY <1>6, <2>3
  <2>5. Len(pool) < MaxAgents \/ Len(pool) + 1 <= peak
    BY <1>6, <2>3, <2>4 DEF BoundInv, RoomInv
  <2> QED
    BY <1>2, <1>3, <1>4, <2>5
<1> QED
  BY <1>1, <1>4, <1>5, <1>6 DEF BoundInv, RoomInv

\* No turn moves, and the pool does not grow.
LEMMA RoomAside ==
  ASSUME BoundInv, IInv', turns' = turns, poolLock' = poolLock, peak' = peak,
         Len(pool') <= Len(pool)
  PROVE  BoundInv'
<1>1. /\ Len(pool) \in Nat /\ Len(pool') \in Nat /\ peak \in Nat
  BY LenProperties DEF BoundInv, IInv, TypeOK
<1>2. LockInv'
  BY DEF BoundInv, LockInv
<1>3. RoomInv'
  BY <1>1, PoolAssumption DEF BoundInv, RoomInv
<1>4. PoolIsBounded'
  BY <1>1, PoolAssumption DEF BoundInv, PoolIsBounded
<1> QED
  BY <1>2, <1>3, <1>4 DEF BoundInv

LEMMA StepBoundInv == BoundInv /\ [Next]_vars => BoundInv'
<1> SUFFICES ASSUME BoundInv, [Next]_vars PROVE BoundInv'
  OBVIOUS
<1>1. IInv /\ IInv' /\ Len(pool) \in Nat
  BY StepIInv, LenProperties DEF BoundInv, IInv, TypeOK
<1>2. ASSUME NEW t \in Turns, Replace(t) \/ Miss(t) \/ Evict(t) \/ ClosedForRoom(t)
      PROVE  BoundInv'
  <2>1. Len(pool') <= Len(pool)
    <3>1. \/ pool' = pool
          \/ \E a : pool' = Without(pool, a)
      BY <1>2 DEF Replace, Miss, Evict, ClosedForRoom
    <3> QED
      BY <1>1, <3>1, PoolShrinks
  <2>2. turns'[t].pc # "spawning" /\ Onwards(t)
    <3>1. ~Launch(t)
      BY <1>2 DEF Launch, Replace, Miss, Evict, ClosedForRoom
    <3> QED
      BY <1>1, <1>2, <3>1, SearchIs
  <2>3. LockInv'
    BY <1>2, SearchLock
  <2> QED
    BY <1>1, <2>1, <2>2, <2>3, RoomStays
<1>3. ASSUME NEW t \in Turns,
             Enter(t) \/ Opened(t) \/ Prompted(t) \/ Breaks(t) \/ Leave(t)
               \/ GiveUp(t) \/ ClosedAfter(t)
      PROVE  BoundInv'
  <2>1. Onwards(t) /\ pool' = pool /\ turns'[t].pc # "spawning"
    <3>1. CASE Enter(t)
      BY <1>1, <3>1, EnterIs DEF Enter, AtWork
    <3>2. CASE Opened(t)
      BY <1>1, <3>2, OpenedIs
    <3>3. CASE ~Enter(t) /\ ~Opened(t)
      BY <1>1, <1>3, <3>3, RunIs
    <3> QED
      BY <3>1, <3>2, <3>3
  <2>2. LockInv' /\ Len(pool') <= Len(pool)
    BY <1>1, <1>3, <2>1, RunLock
  <2> QED
    BY <1>1, <2>1, <2>2, RoomStays
<1>4. ASSUME NEW t \in Turns, SpawnFails(t) \/ Cancelled(t) PROVE BoundInv'
  <2>1. /\ Onwards(t) /\ pool' = pool /\ turns'[t].pc # "spawning"
        /\ LockInv' /\ Len(pool') <= Len(pool)
    BY <1>1, <1>4, EndIs, EndLock
  <2> QED
    BY <1>1, <2>1, RoomStays
<1>5. ASSUME NEW t \in Turns, Reuse(t) PROVE BoundInv'
  <2>1. /\ Onwards(t) /\ turns'[t].pc # "spawning"
        /\ LockInv' /\ Len(pool') <= Len(pool)
    BY <1>1, <1>5, ReuseIs, ReuseLock, PoolTurns DEF AtWork
  <2> QED
    BY <1>1, <2>1, RoomStays
<1>6. ASSUME NEW a \in Agents, Dies(a) \/ StopAgent(a) PROVE BoundInv'
  BY <1>1, <1>6, RoomAside DEF Dies, StopAgent, aside
<1>7. CASE Stop
  <2>1. turns' = turns /\ poolLock' = poolLock /\ peak' = peak /\ pool' = <<>>
    BY <1>7 DEF Stop
  <2> QED
    BY <1>1, <2>1, RoomAside
<1>8. CASE UNCHANGED vars
  BY <1>1, <1>8, RoomAside DEF vars
<1> QED
  BY <1>2, <1>3, <1>4, <1>5, <1>6, <1>7, <1>8, LaunchRoom, SpawnedRoom, StartRoom
     DEF Next, Acquires, Runs

LEMMA InitBoundInv == Init => BoundInv
<1> SUFFICES ASSUME Init PROVE BoundInv
  OBVIOUS
<1>1. /\ IInv /\ pool = <<>> /\ poolLock = <<>> /\ peak = 0
      /\ \A t \in Turns : turns[t].pc = "idle"
  BY InitIInv DEF Init
<1>2. LockInv
  BY <1>1 DEF LockInv, Distinct, Within, Asks, HasIt
<1>3. UnderWay(turns) = 0
  <2>1. {t \in Turns : turns[t].pc \notin {"idle", "done"}} = {}
    BY <1>1
  <2> QED
    BY <2>1, FS_EmptySet DEF UnderWay
<1>4. RoomInv
  BY <1>1, <1>3 DEF RoomInv
<1>5. PoolIsBounded
  BY <1>1, PoolAssumption DEF PoolIsBounded
<1> QED
  BY <1>1, <1>2, <1>4, <1>5 DEF BoundInv

\* The pool holds no more agents than _MAX_AGENTS, or than turns were ever under
\* way at once: it overshoots only for agents that are all claimed
\* (_evict_if_full).
THEOREM PoolStaysBounded == Spec => []PoolIsBounded
<1>1. BoundInv => PoolIsBounded
  BY DEF BoundInv
<1> QED
  BY <1>1, InitBoundInv, StepBoundInv, PTL DEF Spec

(***************************************************************************)
(* Which conversation a turn goes on with.                                 *)
(***************************************************************************)
\* A turn is prompted in no session before it is at it; it is prompted in the
\* one asked for, or told that it is not; and its agent is its context's.
Fits(turn, made) ==
  /\ turn.pc \notin {"prompting", "unbinding", "closing", "done"}
       => turn.ran = NoSession
  /\ turn.resume # NoSession /\ turn.ran # NoSession
       => turn.ran = turn.resume \/ turn.told
  /\ turn.pc \in InUse => made[turn.agent].context = turn.context
  /\ turn.pc = "opening" =>
       turn.told = (turn.resume # NoSession /\ ~made[turn.agent].canLoad)

\* The session s, one of the first n that were created, is at home in x.
Belongs(home, n, s, x) == s # NoSession => s \in 1..n /\ home[s] = x

\* Every session is at home in one context, by whichever of turns, agents and
\* the executor's notes it is named.
Homed(home) ==
  /\ \A t \in Turns : /\ Belongs(home, opened, turns[t].ran, turns[t].context)
                      /\ Belongs(home, opened, turns[t].resume, turns[t].context)
  /\ \A x \in Contexts : Belongs(home, opened, known[x], x)
  /\ \A a \in Agents :
       Belongs(home, opened, agents[a].session, agents[a].context)

Homes == [1..opened -> Contexts \cup {NoContext}]

ConvInv == /\ IInv
           /\ \A t \in Turns : Fits(turns[t], agents)
           /\ \E home \in Homes : Homed(home)

SameTalk(old, new) == /\ new.context = old.context /\ new.canLoad = old.canLoad
                      /\ new.session = old.session

\* No agent changes what it is, or the session it holds, and a new one has none.
AgentsTalk ==
  /\ Agents \subseteq Agents'
  /\ \A a \in Agents : SameTalk(agents[a], agents'[a])
  /\ \A a \in Agents' \ Agents : agents'[a].session = NoSession

LEMMA NoneTalks ==
  ASSUME agents' = agents
  PROVE  AgentsTalk
BY DEF AgentsTalk, Agents, SameTalk

LEMMA OneTalks ==
  ASSUME IInv, IInv', NEW a \in Agents, NEW new,
         agents' = [agents EXCEPT ![a] = new], SameTalk(agents[a], new)
  PROVE  AgentsTalk
<1>1. /\ agents \in Seq(AgentInfo) /\ agents' \in Seq(AgentInfo)
  BY DEF IInv, TypeOK
<1>2. DOMAIN agents = Agents
  BY <1>1, LenProperties DEF Agents
<1>3. DOMAIN agents' = Agents'
  <2>1. PICK later : later = agents'
    OBVIOUS
  <2>2. DOMAIN later = 1..Len(later)
    BY <1>1, <2>1, LenProperties
  <2> QED
    BY <2>1, <2>2 DEF Agents
<1>4. Agents' = Agents
  BY <1>2, <1>3
<1>5. \A b \in Agents : agents'[b] = IF b = a THEN new ELSE agents[b]
  BY <1>2
<1> QED
  BY <1>4, <1>5 DEF AgentsTalk, SameTalk

LEMMA ChangesTalkNot ==
  ASSUME NEW agent \in AgentInfo, NEW t \in Turns
  PROVE  /\ SameTalk(agent, BeginClosing(agent)) /\ SameTalk(agent, Closed(agent))
         /\ SameTalk(agent, Claimed(agent, t))
         /\ SameTalk(agent, [agent EXCEPT !.stack = "torn"])
         /\ SameTalk(agent, [agent EXCEPT !.alive = FALSE])
         /\ SameTalk(agent, [agent EXCEPT !.bound = NoTurn])
         /\ SameTalk(agent, [agent EXCEPT !.bound = t])
         /\ SameTalk(agent, [agent EXCEPT !.broken = TRUE, !.bound = NoTurn])
<1>1. SameTalk(agent, BeginClosing(agent)) /\ SameTalk(agent, Closed(agent))
  BY DEF SameTalk, BeginClosing, Closed, AgentInfo
<1>2. SameTalk(agent, Claimed(agent, t))
  BY DEF SameTalk, Claimed, AgentInfo
<1>3. /\ SameTalk(agent, [agent EXCEPT !.stack = "torn"])
      /\ SameTalk(agent, [agent EXCEPT !.alive = FALSE])
  BY DEF SameTalk, AgentInfo
<1>4. /\ SameTalk(agent, [agent EXCEPT !.bound = NoTurn])
      /\ SameTalk(agent, [agent EXCEPT !.bound = t])
  BY DEF SameTalk, AgentInfo
<1>5. SameTalk(agent, [agent EXCEPT !.broken = TRUE, !.bound = NoTurn])
  BY DEF SameTalk, AgentInfo
<1> QED
  BY <1>1, <1>2, <1>3, <1>4, <1>5

\* Searching the pool changes no agent's talk, ...
LEMMA SearchTalk ==
  ASSUME IInv, IInv', NEW t \in Turns,
         \/ Reuse(t) \/ Replace(t) \/ Miss(t) \/ Evict(t) \/ ClosedForRoom(t)
         \/ Launch(t) \/ SpawnFails(t) \/ Start(t)
  PROVE  AgentsTalk /\ known' = known /\ opened' = opened
<1>1. known' = known /\ opened' = opened
  BY DEF Reuse, Replace, Miss, Evict, ClosedForRoom, Launch, SpawnFails, Start,
         aside
<1>2. CASE Miss(t) \/ Launch(t) \/ SpawnFails(t) \/ Start(t)
  BY <1>1, <1>2, NoneTalks DEF Miss, Launch, SpawnFails, Start
<1>3. CASE Reuse(t)
  <2>1. PICK a \in Agents : a = Pooled(turns[t].context)
    BY <1>3, PooledIs DEF Reuse, IInv
  <2>2. agents' = [agents EXCEPT ![a] = Claimed(agents[a], t)]
    BY <1>3, <2>1 DEF Reuse
  <2>3. SameTalk(agents[a], Claimed(agents[a], t))
    BY KnownAgent, ChangesTalkNot
  <2> QED
    BY <1>1, <2>2, <2>3, OneTalks
<1>4. CASE Replace(t)
  <2>1. PICK a \in Agents : a = Pooled(turns[t].context)
    BY <1>4, PooledIs DEF Replace, IInv
  <2>2. agents' = [agents EXCEPT ![a] = BeginClosing(agents[a])]
    BY <1>4, <2>1 DEF Replace
  <2>3. SameTalk(agents[a], BeginClosing(agents[a]))
    BY KnownAgent, ChangesTalkNot
  <2> QED
    BY <1>1, <2>2, <2>3, OneTalks
<1>5. CASE Evict(t)
  <2>1. PICK a \in Agents :
          agents' = [agents EXCEPT ![a] = BeginClosing(agents[a])]
    BY <1>5, VictimIs
  <2>2. SameTalk(agents[a], BeginClosing(agents[a]))
    BY KnownAgent, ChangesTalkNot
  <2> QED
    BY <1>1, <2>1, <2>2, OneTalks
<1>6. CASE ClosedForRoom(t)
  <2>1. PICK a \in Agents : a = turns[t].agent
    BY <1>6 DEF ClosedForRoom, IInv, HasAgent
  <2>2. agents' = [agents EXCEPT ![a] = Closed(agents[a])]
    BY <1>6, <2>1 DEF ClosedForRoom
  <2>3. SameTalk(agents[a], Closed(agents[a]))
    BY KnownAgent, ChangesTalkNot
  <2> QED
    BY <1>1, <2>2, <2>3, OneTalks
<1> QED
  BY <1>1, <1>2, <1>3, <1>4, <1>5, <1>6

\* ... nor does the turn's way through it, but for the session it opens.
LEMMA RunTalk ==
  ASSUME IInv, IInv', NEW t \in Turns,
         \/ Enter(t) \/ Prompted(t) \/ Breaks(t) \/ Leave(t) \/ GiveUp(t)
         \/ ClosedAfter(t) \/ Cancelled(t)
  PROVE  AgentsTalk /\ opened' = opened /\ (known' = known \/ Prompted(t))
<1>1. opened' = opened /\ (known' = known \/ Prompted(t))
  BY DEF Enter, Prompted, Breaks, Leave, GiveUp, ClosedAfter, Cancelled, aside
<1>2. CASE Cancelled(t) /\ turns[t].pc \notin {"replacing", "evicting", "closing"}
  BY <1>1, <1>2, NoneTalks DEF Cancelled
<1>3. CASE ~(Cancelled(t)
             /\ turns[t].pc \notin {"replacing", "evicting", "closing"})
  <2>1. turns[t].pc \in HasAgent
    BY <1>3 DEF Enter, Prompted, Breaks, Leave, GiveUp, ClosedAfter, Cancelled,
                HasAgent, InUse, AtWork
  <2>2. PICK a \in Agents : a = turns[t].agent
    BY <2>1 DEF IInv
  <2>3. PICK old : old = agents[a]
    OBVIOUS
  <2>4. old \in AgentInfo
    BY <2>3, KnownAgent
  <2>5. \E new : agents' = [agents EXCEPT ![a] = new] /\ SameTalk(old, new)
    <3>1. CASE Enter(t)
      <4>1. agents' = [agents EXCEPT ![a] = [old EXCEPT !.bound = t]]
        BY <2>2, <2>3, <3>1 DEF Enter
      <4> QED
        BY <2>4, <4>1, ChangesTalkNot
    <3>2. CASE Prompted(t)
      <4>1. agents' = [agents EXCEPT ![a] = [old EXCEPT !.bound = NoTurn]]
        BY <2>2, <2>3, <3>2 DEF Prompted
      <4> QED
        BY <2>4, <4>1, ChangesTalkNot
    <3>3. CASE Breaks(t)
      <4>1. agents' = [agents EXCEPT ![a] =
                         [old EXCEPT !.broken = TRUE, !.bound = NoTurn]]
        BY <2>2, <2>3, <3>3 DEF Breaks
      <4> QED
        BY <2>4, <4>1, ChangesTalkNot
    <3>4. CASE Leave(t) \/ GiveUp(t)
      <4>1. PICK left : left = [old EXCEPT !.lock = Without(@, t), !.claims = @ - 1]
        OBVIOUS
      <4>2. SameTalk(old, left)
        BY <2>4, <4>1 DEF SameTalk, AgentInfo
      <4>3. SameTalk(left, BeginClosing(left))
        BY DEF SameTalk, BeginClosing
      <4>4. GiveBack(t, old)
        BY <2>2, <2>3, <3>4 DEF Leave, GiveUp
      <4>5. \/ agents' = [agents EXCEPT ![a] = BeginClosing(left)]
            \/ agents' = [agents EXCEPT ![a] = left]
        BY <2>2, <4>1, <4>4 DEF GiveBack
      <4> QED
        BY <4>2, <4>3, <4>5 DEF SameTalk
    <3>5. CASE ClosedAfter(t)
      <4>1. agents' = [agents EXCEPT ![a] = Closed(old)]
        BY <2>2, <2>3, <3>5 DEF ClosedAfter
      <4> QED
        BY <2>4, <4>1, ChangesTalkNot
    <3>6. CASE Cancelled(t)
      <4>1. agents' = [agents EXCEPT ![a] = [old EXCEPT !.stack = "torn"]]
        BY <1>3, <2>2, <2>3, <3>6 DEF Cancelled
      <4> QED
        BY <2>4, <4>1, ChangesTalkNot
    <3> QED
      BY <3>1, <3>2, <3>3, <3>4, <3>5, <3>6
  <2>6. AgentsTalk
    BY <2>3, <2>5, OneTalks
  <2> QED
    BY <1>1, <2>6
<1> QED
  BY <1>2, <1>3

\* A turn whose agent changes nothing that it is or holds is as well placed as
\* before.
LEMMA FitsStill ==
  ASSUME IInv, AgentsTalk, NEW u \in Turns, Fits(turns[u], agents)
  PROVE  Fits(turns[u], agents')
<1>1. turns[u].pc \in InUse => turns[u].agent \in Agents
  BY DEF IInv, HasAgent
<1>2. \A a \in Agents : /\ agents'[a].context = agents[a].context
                        /\ agents'[a].canLoad = agents[a].canLoad
  BY DEF AgentsTalk, SameTalk
<1> QED
  BY <1>1, <1>2 DEF Fits, InUse, AtWork

\* The sessions are at home where they were, also for a turn that comes to be
\* prompted in the one its agent holds.
LEMMA HomedStays ==
  ASSUME IInv, IInv', AgentsTalk, opened' = opened, NEW t \in Turns, Onwards(t),
         NEW home \in Homes, Homed(home),
         \/ known' = known
         \/ \E x \in Contexts : /\ x = turns[t].context
                                /\ known' = [known EXCEPT ![x] = turns[t].ran],
         \/ turns'[t].ran = turns[t].ran
         \/ turns'[t].ran = NoSession
         \/ \E a \in Agents : /\ turns'[t].ran = agents[a].session
                              /\ turns[t].context = agents[a].context
  PROVE  \E later \in Homes' : Homed(later)'
<1>1. Belongs(home, opened, turns'[t].ran, turns'[t].context)
  BY DEF Homed, Onwards, Belongs
<1>2. Belongs(home, opened, turns'[t].resume, turns'[t].context)
  BY DEF Homed, Onwards
<1>3. \A u \in Turns : /\ Belongs(home, opened, turns'[u].ran, turns'[u].context)
                       /\ Belongs(home, opened, turns'[u].resume, turns'[u].context)
  BY <1>1, <1>2 DEF Homed, Onwards
<1>4. \A x \in Contexts : Belongs(home, opened, known'[x], x)
  <2>1. CASE known' = known
    BY <2>1 DEF Homed
  <2>2. CASE known' # known
    <3>1. PICK x \in Contexts : /\ x = turns[t].context
                                /\ known' = [known EXCEPT ![x] = turns[t].ran]
      BY <2>2
    <3>2. known \in [Contexts -> Nat]
      BY DEF IInv, TypeOK
    <3> QED
      BY <3>1, <3>2 DEF Homed
  <2> QED
    BY <2>1, <2>2
<1>5. ASSUME NEW a \in Agents'
      PROVE  Belongs(home, opened, agents'[a].session, agents'[a].context)
  <2>1. CASE a \in Agents
    BY <2>1 DEF AgentsTalk, SameTalk, Homed
  <2>2. CASE a \notin Agents
    BY <2>2 DEF AgentsTalk, Belongs
  <2> QED
    BY <2>1, <2>2
<1>6. Homed(home)'
  BY <1>3, <1>4, <1>5 DEF Homed
<1>7. home \in Homes'
  BY DEF Homes
<1> QED
  BY <1>6, <1>7

\* A step in which the turn fits, and no session is created.
LEMMA ConvStays ==
  ASSUME ConvInv, IInv', AgentsTalk, opened' = opened, NEW t \in Turns, Onwards(t),
         Fits(turns'[t], agents'),
         \/ known' = known
         \/ \E x \in Contexts : /\ x = turns[t].context
                                /\ known' = [known EXCEPT ![x] = turns[t].ran],
         \/ turns'[t].ran = turns[t].ran
         \/ turns'[t].ran = NoSession
         \/ \E a \in Agents : /\ turns'[t].ran = agents[a].session
                              /\ turns[t].context = agents[a].context
  PROVE  ConvInv'
<1>1. IInv /\ \A u \in Turns : Fits(turns[u], agents)
  BY DEF ConvInv
<1>2. PICK home \in Homes : Homed(home)
  BY DEF ConvInv
<1>3. \A u \in Turns : Fits(turns'[u], agents')
  <2>1. \A u \in Turns : Fits(turns[u], agents')
    BY <1>1, FitsStill
  <2> QED
    BY <2>1 DEF Onwards
<1>4. \E later \in Homes' : Homed(later)'
  BY <1>1, <1>2, HomedStays
<1> QED
  BY <1>3, <1>4 DEF ConvInv

\* The agent the pool has for a context is that context's.
LEMMA PooledFits ==
  ASSUME NEW x, Pooled(x) # NoAgent
  PROVE  agents[Pooled(x)].context = x
<1> DEFINE at == CHOOSE i \in 1..Len(pool) : agents[pool[i]].context = x
<1>1. \E i \in 1..Len(pool) : agents[pool[i]].context = x
  BY DEF Pooled
<1>2. agents[pool[at]].context = x
  BY <1>1
<1>3. Pooled(x) = pool[at]
  BY <1>1 DEF Pooled
<1> QED
  BY <1>2, <1>3

LEMMA SearchConv ==
  ASSUME ConvInv, NEW t \in Turns,
         \/ Replace(t) \/ Miss(t) \/ Evict(t) \/ ClosedForRoom(t) \/ Launch(t)
  PROVE  ConvInv'
<1>1. IInv /\ Fits(turns[t], agents)
  BY DEF ConvInv
<1>2. IInv'
  BY <1>1, Replaced, Missed, Evicted, ClosedToMakeRoom, Launched
<1>3. AgentsTalk /\ known' = known /\ opened' = opened
  BY <1>1, <1>2, SearchTalk
<1>4. /\ Onwards(t) /\ turns'[t].ran = turns[t].ran
      /\ turns[t].pc \in {"locking", "choosing", "replacing", "evicting"}
      /\ turns'[t].pc \in {"choosing", "replacing", "evicting", "spawning"}
  BY <1>1, SearchIs
<1>5. Fits(turns'[t], agents')
  BY <1>1, <1>4 DEF Fits, InUse, AtWork
<1> QED
  BY <1>2, <1>3, <1>4, <1>5, ConvStays

LEMMA ReuseConv == ASSUME ConvInv, NEW t \in Turns, Reuse(t) PROVE ConvInv'
<1>1. IInv /\ Fits(turns[t], agents) /\ turns[t].pc = "locking"
  BY DEF ConvInv, Reuse
<1>2. IInv'
  BY <1>1, Reused
<1>3. AgentsTalk /\ known' = known /\ opened' = opened
  BY <1>1, <1>2, SearchTalk
<1>4. Onwards(t)
  BY <1>1, ReuseIs
<1>5. PICK a \in Agents : /\ a = Pooled(turns[t].context)
                          /\ turns'[t] = Holding(turns[t], a, agents[a])
                          /\ turns'[t].agent = a
  BY <1>1, ReuseIs
<1>6. agents[a].context = turns[t].context
  BY <1>5, PooledFits DEF Reuse
<1>7. agents[a] \in AgentInfo /\ turns[t] \in TurnInfo /\ a \in Nat
  BY <1>1, Known
<1>8. PICK old, turn, new :
        old = agents[a] /\ turn = turns[t] /\ new = turns'[t]
  OBVIOUS
<1>9. /\ new.context = turn.context /\ new.resume = turn.resume /\ new.agent = a
      /\ \/ new.pc = "queued" /\ new.ran = turn.ran
         \/ /\ new.pc = "prompting" /\ new.ran = old.session
            /\ turn.resume \in {NoSession, old.session}
         \/ /\ new.pc = "opening" /\ new.ran = turn.ran
            /\ new.told = (turn.resume # NoSession /\ ~old.canLoad)
  <2>1. old \in AgentInfo /\ turn \in TurnInfo /\ new = Holding(turn, a, old)
    BY <1>5, <1>7, <1>8
  <2> QED
    BY <1>5, <1>7, <1>8, <2>1, HoldingKeeps
<1>10. turn.ran = NoSession
  BY <1>1, <1>8 DEF Fits
<1>11. agents'[a].context = old.context /\ agents'[a].canLoad = old.canLoad
  BY <1>3, <1>8 DEF AgentsTalk, SameTalk
<1>12. Fits(new, agents')
  BY <1>6, <1>8, <1>9, <1>10, <1>11 DEF Fits
<1>13. new.ran = turn.ran \/ new.ran = old.session
  BY <1>9
<1> QED
  BY <1>2, <1>3, <1>4, <1>6, <1>8, <1>12, <1>13, ConvStays

LEMMA EnterConv == ASSUME ConvInv, NEW t \in Turns, Enter(t) PROVE ConvInv'
<1>1. IInv /\ Fits(turns[t], agents) /\ turns[t].pc = "queued"
  BY DEF ConvInv, Enter
<1>2. IInv'
  BY <1>1, CameIn
<1>3. AgentsTalk /\ opened' = opened /\ known' = known
  BY <1>1, <1>2, RunTalk DEF Enter, aside
<1>4. /\ Onwards(t) /\ turns[t].agent \in Agents
      /\ turns'[t] = Entered(turns[t], agents[turns[t].agent])
  BY <1>1, EnterIs
<1>5. PICK a \in Agents : a = turns[t].agent
  BY <1>4
<1>6. agents[a].context = turns[t].context
  BY <1>1, <1>5 DEF Fits, InUse
<1>7. agents[a] \in AgentInfo /\ turns[t] \in TurnInfo
  BY <1>1, Known
<1>8. PICK old, turn, new :
        old = agents[a] /\ turn = turns[t] /\ new = turns'[t]
  OBVIOUS
<1>9. /\ new.context = turn.context /\ new.resume = turn.resume /\ new.agent = a
      /\ \/ /\ new.pc = "prompting" /\ new.ran = old.session
            /\ turn.resume \in {NoSession, old.session}
         \/ /\ new.pc = "opening" /\ new.ran = turn.ran
            /\ new.told = (turn.resume # NoSession /\ ~old.canLoad)
  <2>1. old \in AgentInfo /\ turn \in TurnInfo /\ new = Entered(turn, old)
    BY <1>4, <1>5, <1>7, <1>8
  <2>2. new.agent = a
    BY <1>5, <1>8, <2>1, EnteredIs
  <2> QED
    BY <2>1, <2>2, EnteredKeeps
<1>10. turn.ran = NoSession
  BY <1>1, <1>8 DEF Fits
<1>11. agents'[a].context = old.context /\ agents'[a].canLoad = old.canLoad
  BY <1>3, <1>8 DEF AgentsTalk, SameTalk
<1>12. Fits(new, agents')
  BY <1>6, <1>8, <1>9, <1>10, <1>11 DEF Fits
<1>13. new.ran = turn.ran \/ new.ran = old.session
  BY <1>9
<1> QED
  BY <1>2, <1>3, <1>4, <1>6, <1>8, <1>12, <1>13, ConvStays

\* The turn is through with its agent.
LEMMA RunConv ==
  ASSUME ConvInv, NEW t \in Turns,
         \/ Prompted(t) \/ Breaks(t) \/ Leave(t) \/ GiveUp(t) \/ ClosedAfter(t)
  PROVE  ConvInv'
<1>1. IInv /\ Fits(turns[t], agents)
  BY DEF ConvInv
<1>2. IInv'
  BY <1>1, WasPrompted, Broke, GaveBack, ClosedBehind
<1>3. AgentsTalk /\ opened' = opened /\ (known' = known \/ Prompted(t))
  BY <1>1, <1>2, RunTalk
<1>4. /\ Onwards(t) /\ turns'[t].ran = turns[t].ran
      /\ turns[t].pc \in InUse \cup {"closing"}
      /\ turns'[t].pc \in {"unbinding", "closing", "done"}
      /\ turns'[t].told = turns[t].told /\ turns'[t].agent = turns[t].agent
  BY <1>1, RunIs
<1>5. turns'[t].pc = "unbinding" => turns[t].pc \in InUse
  BY <1>1, RunIs DEF InUse
<1>6. Fits(turns[t], agents')
  BY <1>1, <1>3, FitsStill
<1>7. Fits(turns'[t], agents')
  BY <1>4, <1>5, <1>6 DEF Fits, Onwards, InUse, AtWork
<1>8. \/ known' = known
      \/ \E x \in Contexts : /\ x = turns[t].context
                             /\ known' = [known EXCEPT ![x] = turns[t].ran]
  <2>1. CASE Prompted(t)
    <3>1. turns[t].context \in Contexts \cup {NoContext}
      BY <1>1 DEF IInv, TypeOK, TurnInfo
    <3> QED
      BY <2>1, <3>1 DEF Prompted
  <2> QED
    BY <1>3, <2>1
<1> QED
  BY <1>2, <1>3, <1>4, <1>7, <1>8, ConvStays

LEMMA EndConv ==
  ASSUME ConvInv, NEW t \in Turns, SpawnFails(t) \/ Cancelled(t)
  PROVE  ConvInv'
<1>1. IInv /\ Fits(turns[t], agents)
  BY DEF ConvInv
<1>2. IInv'
  BY <1>1, LaunchFailed, CancelledThere
<1>3. AgentsTalk /\ opened' = opened /\ known' = known
  <2>1. CASE SpawnFails(t)
    BY <1>1, <1>2, <2>1, SearchTalk
  <2>2. CASE Cancelled(t)
    BY <1>1, <1>2, <2>2, RunTalk DEF Cancelled, aside
  <2> QED
    BY <2>1, <2>2
<1>4. /\ Onwards(t) /\ turns'[t].ran = turns[t].ran
      /\ turns'[t].pc = "done" /\ turns'[t].told = turns[t].told
  BY <1>1, EndIs
<1>5. Fits(turns'[t], agents')
  BY <1>1, <1>4 DEF Fits, Onwards, InUse, AtWork
<1> QED
  BY <1>2, <1>3, <1>4, <1>5, ConvStays

\* The agent a turn launches has no session, and is of the turn's context.
LEMMA SpawnedConv == ASSUME ConvInv, NEW t \in Turns, Spawned(t) PROVE ConvInv'
<1>1. /\ IInv /\ Fits(turns[t], agents) /\ turns[t].pc = "spawning"
      /\ known' = known /\ opened' = opened
  BY DEF ConvInv, Spawned, aside
<1>2. IInv'
  BY <1>1, MadeOne
<1>3. Onwards(t) /\ turns'[t].pc = "opening"
  BY <1>1, SpawnedIs
<1>4. PICK loads \in BOOLEAN :
        LET agent == NewAgent(turns[t].context, loads)
            a == Len(agents) + 1
        IN  /\ agent \in AgentInfo
            /\ agents' = Append(agents, Claimed(agent, t))
            /\ turns'[t] = Holding(turns[t], a, agent)
            /\ turns'[t].agent = a
  BY <1>1, SpawnedIs
<1>5. PICK agent, a, other, turn, new :
        /\ agent = NewAgent(turns[t].context, loads) /\ a = Len(agents) + 1
        /\ other = Claimed(agent, t) /\ turn = turns[t] /\ new = turns'[t]
  OBVIOUS
<1>6. /\ agent \in AgentInfo /\ agents' = Append(agents, other)
      /\ new = Holding(turn, a, agent) /\ new.agent = a
  BY <1>4, <1>5
<1>7. /\ agents \in Seq(AgentInfo) /\ turn \in TurnInfo /\ Len(agents) \in Nat
      /\ a \in Nat
  BY <1>1, <1>5, LenProperties DEF IInv, TypeOK
<1>8. /\ agent.context = turn.context /\ agent.session = NoSession
      /\ SameTalk(agent, other)
  BY <1>5, <1>6, ChangesTalkNot DEF NewAgent
<1>9. /\ Len(agents') = a /\ agents'[a] = other
      /\ \A b \in 1..Len(agents) : agents'[b] = agents[b]
  <2>1. PICK made : made = agents
    OBVIOUS
  <2>2. made \in Seq(AgentInfo \cup {other}) /\ agents' = Append(made, other)
    BY <1>6, <1>7, <2>1
  <2>3. /\ Len(agents') = Len(made) + 1
        /\ agents'[Len(made) + 1] = other
        /\ \A b \in 1..Len(made) : agents'[b] = made[b]
    BY <2>2, AppendProperties
  <2> QED
    BY <1>5, <2>1, <2>3
<1>10. AgentsTalk
  <2>1. Agents \subseteq Agents' /\ \A b \in Agents' \ Agents : b = a
    BY <1>5, <1>7, <1>9 DEF Agents
  <2>2. \A b \in Agents : agents'[b] = agents[b]
    BY <1>9 DEF Agents
  <2>3. agents'[a].session = NoSession
    BY <1>8, <1>9 DEF SameTalk
  <2> QED
    BY <2>1, <2>2, <2>3 DEF AgentsTalk, SameTalk
<1>11. /\ new.context = turn.context /\ new.resume = turn.resume
       /\ new.ran = turn.ran
       /\ new.told = (turn.resume # NoSession /\ ~agent.canLoad)
  <2>1. new.pc = "opening"
    BY <1>3, <1>5
  <2> QED
    BY <1>6, <1>7, <2>1, HoldingKeeps
<1>12. turn.ran = NoSession
  BY <1>1, <1>5 DEF Fits
<1>13. new.pc = "opening"
  BY <1>3, <1>5
<1>14. agents'[a].context = turn.context /\ agents'[a].canLoad = agent.canLoad
  BY <1>8, <1>9 DEF SameTalk
<1>15. Fits(new, agents')
  BY <1>6, <1>11, <1>12, <1>13, <1>14 DEF Fits
<1>16. turns'[t].ran = turns[t].ran /\ Fits(turns'[t], agents')
  BY <1>5, <1>11, <1>15
<1> QED
  BY <1>1, <1>2, <1>3, <1>10, <1>16, ConvStays

\* A turn asks for the session its context is known to be at, or for none.
LEMMA StartConv == ASSUME ConvInv, NEW t \in Turns, Start(t) PROVE ConvInv'
<1>1. /\ IInv /\ Fits(turns[t], agents) /\ turns[t].pc = "idle"
      /\ known' = known /\ opened' = opened /\ agents' = agents
  BY DEF ConvInv, Start
<1>2. IInv'
  BY <1>1, Started
<1>3. PICK x \in Contexts \cup {NoContext} :
        \E resume \in {NoSession} \cup (IF x = NoContext THEN {} ELSE {known[x]}) :
          turns' = [turns EXCEPT
                      ![t].pc = IF x = NoContext THEN "spawning" ELSE "locking",
                      ![t].context = x,
                      ![t].resume = resume]
  BY DEF Start
<1>4. PICK resume \in {NoSession} \cup (IF x = NoContext THEN {} ELSE {known[x]}) :
        turns' = [turns EXCEPT
                    ![t].pc = IF x = NoContext THEN "spawning" ELSE "locking",
                    ![t].context = x,
                    ![t].resume = resume]
  BY <1>3
<1>5. turns \in [Turns -> TurnInfo] /\ turns[t] \in TurnInfo
  BY <1>1 DEF IInv, TypeOK
<1>6. PICK pc : pc = IF x = NoContext THEN "spawning" ELSE "locking"
  OBVIOUS
<1>7. /\ turns'[t].pc = pc /\ turns'[t].context = x /\ turns'[t].resume = resume
      /\ turns'[t].ran = turns[t].ran
      /\ \A u \in Turns : u # t => turns'[u] = turns[u]
  BY <1>4, <1>5, <1>6 DEF TurnInfo
<1>8. turns[t].ran = NoSession
  BY <1>1 DEF Fits
<1>9. Fits(turns'[t], agents')
  BY <1>6, <1>7, <1>8 DEF Fits, InUse, AtWork
<1>10. \A u \in Turns : Fits(turns'[u], agents')
  BY <1>1, <1>7, <1>9 DEF ConvInv
<1>11. PICK home \in Homes : Homed(home)
  BY DEF ConvInv
<1>12. resume # NoSession => x \in Contexts /\ resume = known[x]
  BY <1>4
<1>13. Belongs(home, opened, resume, x)
  BY <1>11, <1>12 DEF Homed, Belongs
<1>14. Belongs(home, opened, turns'[t].ran, x)
  BY <1>7, <1>8 DEF Belongs
<1>15. Homed(home)'
  <2>1. \A u \in Turns : /\ Belongs(home, opened, turns'[u].ran, turns'[u].context)
                         /\ Belongs(home, opened, turns'[u].resume, turns'[u].context)
    BY <1>7, <1>11, <1>13, <1>14 DEF Homed
  <2> QED
    BY <1>1, <1>11, <2>1 DEF Homed, Agents
<1>16. home \in Homes'
  BY <1>1 DEF Homes
<1> QED
  BY <1>2, <1>10, <1>15, <1>16 DEF ConvInv

\* A session is loaded or created, in the agent's context, which is the turn's.
LEMMA OpenedConv == ASSUME ConvInv, NEW t \in Turns, Opened(t) PROVE ConvInv'
<1>1. /\ IInv /\ Fits(turns[t], agents) /\ turns[t].pc = "opening"
      /\ known' = known
  BY DEF ConvInv, Opened
<1>2. IInv'
  BY <1>1, WasOpened
<1>3. PICK a \in Agents : a = turns[t].agent
  BY <1>1 DEF IInv, HasAgent, InUse, AtWork
<1>4. PICK loads \in BOOLEAN :
        loads = (turns[t].resume # NoSession /\ agents[a].canLoad)
  OBVIOUS
<1>5. PICK id : id = IF loads THEN turns[t].resume ELSE opened + 1
  OBVIOUS
<1>6. /\ opened' = IF loads THEN opened ELSE id
      /\ agents' = [agents EXCEPT ![a] = [agents[a] EXCEPT !.session = id]]
  BY <1>3, <1>4, <1>5 DEF Opened
<1>7. /\ Onwards(t) /\ turns'[t].pc = "prompting" /\ turns'[t].ran = id
      /\ turns'[t].told = turns[t].told /\ turns'[t].agent = a
  BY <1>1, <1>3, <1>4, <1>5, OpenedIs
<1>8. /\ agents[a] \in AgentInfo /\ turns[t] \in TurnInfo /\ opened \in Nat
  BY <1>1, Known DEF IInv, TypeOK
<1>9. /\ Agents' = Agents
      /\ \A b \in Agents : agents'[b] = IF b = a
                             THEN [agents[a] EXCEPT !.session = id]
                             ELSE agents[b]
  <2>1. agents \in Seq(AgentInfo) /\ agents' \in Seq(AgentInfo)
    BY <1>1, <1>2 DEF IInv, TypeOK
  <2>2. DOMAIN agents = Agents
    BY <2>1, LenProperties DEF Agents
  <2>3. PICK later : later = agents'
    OBVIOUS
  <2>4. DOMAIN later = 1..Len(later)
    BY <2>1, <2>3, LenProperties
  <2>5. DOMAIN agents' = Agents'
    BY <2>3, <2>4 DEF Agents
  <2> QED
    BY <1>6, <2>2, <2>5
<1>10. /\ agents'[a].context = agents[a].context
       /\ agents'[a].canLoad = agents[a].canLoad /\ agents'[a].session = id
  BY <1>8, <1>9 DEF AgentInfo
<1>11. agents[a].context = turns[t].context
  BY <1>1, <1>3 DEF Fits, InUse, AtWork
<1>12. \A u \in Turns : Fits(turns'[u], agents')
  <2>1. Fits(turns'[t], agents')
    <3>1. id # turns[t].resume /\ turns[t].resume # NoSession => turns[t].told
      BY <1>1, <1>3, <1>4, <1>5 DEF Fits
    <3> QED
      BY <1>7, <1>10, <1>11, <3>1 DEF Fits, Onwards
  <2>2. ASSUME NEW u \in Turns, u # t PROVE Fits(turns'[u], agents')
    <3>1. turns'[u] = turns[u] /\ Fits(turns[u], agents)
      BY <1>7, <2>2 DEF Onwards, ConvInv
    <3>2. turns[u].pc \in InUse => turns[u].agent \in Agents
      BY <1>1 DEF IInv, HasAgent
    <3>3. \A b \in Agents : /\ agents'[b].context = agents[b].context
                            /\ agents'[b].canLoad = agents[b].canLoad
      BY <1>9, <1>10
    <3> QED
      BY <3>1, <3>2, <3>3 DEF Fits, InUse, AtWork
  <2> QED
    BY <2>1, <2>2
<1>13. PICK home \in Homes : Homed(home)
  BY DEF ConvInv
<1>14. PICK later : later = IF loads THEN home
          ELSE [s \in 1..(opened + 1) |->
                  IF s = opened + 1 THEN turns[t].context ELSE home[s]]
  OBVIOUS
<1>15. opened' \in Nat /\ later \in Homes'
  BY <1>5, <1>6, <1>8, <1>13, <1>14 DEF Homes, TurnInfo
<1>16. \A s, x : Belongs(home, opened, s, x) => Belongs(later, opened', s, x)
  BY <1>5, <1>6, <1>8, <1>14 DEF Belongs
<1>17. Belongs(later, opened', id, turns[t].context)
  <2>1. CASE loads
    BY <1>5, <1>6, <1>13, <1>14, <2>1 DEF Homed
  <2>2. CASE ~loads
    <3>1. id = opened + 1 /\ opened' = opened + 1 /\ id \in 1..opened'
      BY <1>5, <1>6, <1>8, <2>2
    <3>2. later[id] = turns[t].context
      BY <1>14, <2>2, <3>1
    <3> QED
      BY <3>1, <3>2 DEF Belongs
  <2> QED
    BY <2>1, <2>2
<1>18. \A u \in Turns :
         /\ Belongs(later, opened', turns'[u].ran, turns'[u].context)
         /\ Belongs(later, opened', turns'[u].resume, turns'[u].context)
  <2>1. Belongs(later, opened', turns[t].resume, turns[t].context)
    BY <1>13, <1>16 DEF Homed
  <2>2. \A u \in Turns :
          u # t => /\ Belongs(later, opened', turns[u].ran, turns[u].context)
                   /\ Belongs(later, opened', turns[u].resume, turns[u].context)
    BY <1>13, <1>16 DEF Homed
  <2> QED
    BY <1>7, <1>17, <2>1, <2>2 DEF Onwards
<1>19. \A x \in Contexts : Belongs(later, opened', known'[x], x)
  BY <1>1, <1>13, <1>16 DEF Homed
<1>20. ASSUME NEW b \in Agents'
       PROVE  Belongs(later, opened', agents'[b].session, agents'[b].context)
  <2>1. CASE b = a
    BY <1>10, <1>11, <1>17, <2>1
  <2>2. CASE b # a
    BY <1>9, <1>13, <1>16, <2>2 DEF Homed
  <2> QED
    BY <2>1, <2>2
<1>21. Homed(later)'
  BY <1>18, <1>19, <1>20 DEF Homed
<1> QED
  BY <1>2, <1>12, <1>15, <1>21 DEF ConvInv

\* No turn moves.
LEMMA ConvAside ==
  ASSUME ConvInv, IInv', AgentsTalk, turns' = turns, known' = known,
         opened' = opened
  PROVE  ConvInv'
<1>1. \A u \in Turns : Fits(turns'[u], agents')
  BY FitsStill DEF ConvInv
<1>2. PICK home \in Homes : Homed(home)
  BY DEF ConvInv
<1>3. ASSUME NEW a \in Agents'
      PROVE  Belongs(home, opened, agents'[a].session, agents'[a].context)
  <2>1. CASE a \in Agents
    BY <1>2, <2>1 DEF AgentsTalk, SameTalk, Homed
  <2>2. CASE a \notin Agents
    BY <2>2 DEF AgentsTalk, Belongs
  <2> QED
    BY <2>1, <2>2
<1>4. Homed(home)' /\ home \in Homes'
  BY <1>2, <1>3 DEF Homed, Homes
<1> QED
  BY <1>1, <1>4 DEF ConvInv

LEMMA StepConvInv == ConvInv /\ [Next]_vars => ConvInv'
<1> SUFFICES ASSUME ConvInv, [Next]_vars PROVE ConvInv'
  OBVIOUS
<1>1. IInv /\ IInv'
  BY StepIInv DEF ConvInv
<1>2. ASSUME NEW t \in Turns, Acquires(t) PROVE ConvInv'
  BY <1>2, ReuseConv, SearchConv, SpawnedConv, EndConv DEF Acquires
<1>3. ASSUME NEW t \in Turns, Runs(t) PROVE ConvInv'
  BY <1>3, EnterConv, OpenedConv, RunConv DEF Runs
<1>4. ASSUME NEW t \in Turns, Start(t) \/ GiveUp(t) \/ Cancelled(t) PROVE ConvInv'
  BY <1>4, StartConv, RunConv, EndConv
<1>5. ASSUME NEW a \in Agents, Dies(a) \/ StopAgent(a) PROVE ConvInv'
  <2>1. PICK old : old = agents[a]
    OBVIOUS
  <2>2. old \in AgentInfo
    BY <1>1, <2>1, KnownAgent
  <2>3. PICK new \in {Closed(old), [old EXCEPT !.alive = FALSE]} :
          agents' = [agents EXCEPT ![a] = new]
    BY <1>5, <2>1 DEF Dies, StopAgent
  <2>4. SameTalk(old, new)
    BY <2>2, <2>3 DEF SameTalk, Closed, AgentInfo
  <2>5. turns' = turns /\ known' = known /\ opened' = opened
    BY <1>5 DEF Dies, StopAgent, aside
  <2>6. AgentsTalk
    BY <1>1, <2>1, <2>3, <2>4, OneTalks
  <2> QED
    BY <1>1, <2>5, <2>6, ConvAside
<1>6. CASE Stop \/ UNCHANGED vars
  BY <1>1, <1>6, NoneTalks, ConvAside DEF Stop, vars
<1> QED
  BY <1>2, <1>3, <1>4, <1>5, <1>6 DEF Next

LEMMA InitConvInv == Init => ConvInv
<1> SUFFICES ASSUME Init PROVE ConvInv
  OBVIOUS
<1>1. IInv /\ agents = <<>> /\ opened = 0 /\ Agents = {}
  BY InitIInv DEF Init, Agents
<1>2. \A t \in Turns : /\ turns[t].pc = "idle" /\ turns[t].ran = NoSession
                       /\ turns[t].resume = NoSession
  BY DEF Init
<1>3. \A t \in Turns : Fits(turns[t], agents)
  BY <1>2 DEF Fits, InUse, AtWork
<1>4. \A x \in Contexts : known[x] = NoSession
  BY DEF Init
<1>5. PICK home : home = [s \in 1..opened |-> NoContext]
  OBVIOUS
<1>6. Homed(home)
  BY <1>1, <1>2, <1>4 DEF Homed, Belongs
<1>7. home \in Homes
  BY <1>5 DEF Homes
<1> QED
  BY <1>1, <1>3, <1>6, <1>7 DEF ConvInv

\* A turn goes on with the session it was asked to, or its caller was told that
\* it does not; and no session is prompted on behalf of two contexts
\* (_open_session).
THEOREM TalksAreKeptApart == Spec => []RightConversation
<1>1. ASSUME ConvInv, NEW t \in Turns, NEW u \in Turns,
             turns[t].ran # NoSession, turns[t].ran = turns[u].ran
      PROVE  turns[t].context = turns[u].context
  <2>1. PICK home \in Homes : Homed(home)
    BY <1>1 DEF ConvInv
  <2> QED
    BY <1>1, <2>1 DEF Homed, Belongs
<1>2. ConvInv => \A t \in Turns :
        turns[t].resume # NoSession /\ turns[t].ran # NoSession
          => turns[t].ran = turns[t].resume \/ turns[t].told
  BY DEF ConvInv, Fits
<1>3. ConvInv => RightConversation
  BY <1>1, <1>2 DEF RightConversation
<1> QED
  BY <1>3, InitConvInv, StepConvInv, PTL DEF Spec
=============================================================================
