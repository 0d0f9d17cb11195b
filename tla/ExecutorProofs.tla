---------------------------- MODULE ExecutorProofs ----------------------------
(***************************************************************************)
(* What holds of the executor's tables whatever the number of tasks,       *)
(* messages and runs, and whatever the capacity: theorems about Executor.  *)
(* What each action does to them is stated once, action by action, in      *)
(* lemmas named after it; from there on nothing looks into the actions but *)
(* to learn who holds the event loop.  The types and the references to     *)
(* what exists are inductive (BaseInv), with them the line of the lock     *)
(* (LockInv), and with both the bound.  Module ExecutorTurnsProofs goes on *)
(* from there.                                                             *)
(***************************************************************************)
EXTENDS Executor, SequenceTheorems, WellFoundedInduction, TLAPS

Entries == [task : Tasks, run : Nat \ {None}]

\* What the table says, without the places of its entries.
Has(table, t, r) == \E i \in 1..Len(table) : table[i].task = t /\ table[i].run = r

\* No task has two entries.
Keyed(table) == \A i, j \in 1..Len(table) : table[i].task = table[j].task => i = j

\* A table with one entry per task has one run for it.
LEMMA KeyedHas ==
  ASSUME NEW table, Keyed(table), NEW t, NEW r, NEW s, Has(table, t, r), Has(table, t, s)
  PROVE  r = s
BY DEF Keyed, Has

\* Popping a task takes its entry out, and no other.
LEMMA DroppedIs ==
  ASSUME NEW table \in Seq(Entries), Keyed(table), NEW t
  PROVE  /\ Dropped(table, t) \in Seq(Entries)
         /\ Keyed(Dropped(table, t))
         /\ Len(Dropped(table, t)) <= Len(table)
         /\ (\E r : Has(table, t, r)) => Len(Dropped(table, t)) = Len(table) - 1
         /\ \A u, r : Has(Dropped(table, t), u, r) <=> Has(table, u, r) /\ u # t
<1>1. Len(table) \in Nat /\ \A i \in 1..Len(table) : table[i] \in Entries
  BY LenProperties, ElementOfSeq
<1>2. CASE \E i \in 1..Len(table) : table[i].task = t
  <2> DEFINE at == CHOOSE i \in 1..Len(table) : table[i].task = t
             value(i) == IF i < at THEN table[i] ELSE table[i + 1]
             left == [i \in 1..(Len(table) - 1) |-> value(i)]
  <2>1. Dropped(table, t) = left
    BY <1>2 DEF Dropped
  <2>2. Len(table) - 1 \in Nat
    BY <1>1, <1>2
  <2>3. \A i \in 1..(Len(table) - 1) : value(i) \in Entries
    BY <1>1
  <2>4. left \in Seq(Entries) /\ Len(left) = Len(table) - 1
    <3> HIDE DEF value
    <3> QED
      BY <2>2, <2>3, IsASeq
  <2>5. at \in 1..Len(table) /\ table[at].task = t
    BY <1>2
  <2> HIDE DEF at
  <2>6. \A i \in 1..Len(left) : left[i] = IF i < at THEN table[i] ELSE table[i + 1]
    BY <2>4
  <2> HIDE DEF value, left
  <2>7. Keyed(left)
    <3> SUFFICES ASSUME NEW i \in 1..Len(left), NEW j \in 1..Len(left),
                        left[i].task = left[j].task
                 PROVE  i = j
      BY DEF Keyed
    <3> DEFINE p == IF i < at THEN i ELSE i + 1
               q == IF j < at THEN j ELSE j + 1
    <3>1. /\ p \in 1..Len(table) /\ left[i] = table[p]
          /\ q \in 1..Len(table) /\ left[j] = table[q]
      BY <1>1, <2>4, <2>5, <2>6
    <3>2. p = q
      BY <3>1 DEF Keyed
    <3> QED
      BY <2>4, <2>5, <3>2
  <2>8. ASSUME NEW u, NEW r PROVE Has(left, u, r) <=> Has(table, u, r) /\ u # t
    <3>1. ASSUME NEW i \in 1..Len(left), left[i].task = u, left[i].run = r
          PROVE  Has(table, u, r) /\ u # t
      <4> DEFINE p == IF i < at THEN i ELSE i + 1
      <4>1. p \in 1..Len(table) /\ left[i] = table[p] /\ p # at
        BY <1>1, <2>4, <2>5, <2>6
      <4> QED
        BY <2>5, <3>1, <4>1 DEF Has, Keyed
    <3>2. ASSUME NEW i \in 1..Len(table), table[i].task = u, table[i].run = r, u # t
          PROVE  Has(left, u, r)
      <4>1. i < at \/ i > at
        BY <2>5, <3>2
      <4>2. CASE i < at
        <5>1. i \in 1..Len(left) /\ left[i] = table[i]
          BY <1>1, <2>4, <2>5, <2>6, <4>2
        <5> QED
          BY <3>2, <5>1 DEF Has
      <4>3. CASE i > at
        <5>1. i - 1 \in 1..Len(left) /\ left[i - 1] = table[i]
          BY <1>1, <2>4, <2>5, <2>6, <4>3
        <5> QED
          BY <3>2, <5>1 DEF Has
      <4> QED
        BY <4>1, <4>2, <4>3
    <3> QED
      BY <3>1, <3>2 DEF Has
  <2> QED
    BY <1>1, <2>1, <2>4, <2>7, <2>8
<1>3. CASE ~\E i \in 1..Len(table) : table[i].task = t
  <2>1. Dropped(table, t) = table
    BY <1>3 DEF Dropped
  <2> QED
    BY <1>1, <1>3, <2>1 DEF Has
<1> QED
  BY <1>2, <1>3

\* Registering a run gives the task that entry, and lengthens the table by one
\* at most.
LEMMA RegisteredIs ==
  ASSUME NEW table \in Seq(Entries), Keyed(table), NEW t \in Tasks, NEW r \in Nat \ {None}
  PROVE  /\ Registered(table, t, r) \in Seq(Entries)
         /\ Keyed(Registered(table, t, r))
         /\ Len(Registered(table, t, r)) <= Len(table) + 1
         /\ \A u, s : Has(Registered(table, t, r), u, s)
                        <=> (u = t /\ s = r) \/ (u # t /\ Has(table, u, s))
<1>1. Len(table) \in Nat /\ \A i \in 1..Len(table) : table[i] \in Entries
  BY LenProperties, ElementOfSeq
<1>2. CASE \E i \in 1..Len(table) : table[i].task = t
  <2> DEFINE value(i) == IF table[i].task = t THEN [table[i] EXCEPT !.run = r]
                                              ELSE table[i]
             new == [i \in 1..Len(table) |-> value(i)]
  <2>1. Registered(table, t, r) = new
    BY <1>2 DEF Registered
  <2>2. \A i \in 1..Len(table) :
          /\ value(i) \in Entries
          /\ value(i).task = table[i].task
          /\ value(i).run = IF table[i].task = t THEN r ELSE table[i].run
    BY <1>1 DEF Entries
  <2>3. new \in Seq(Entries) /\ Len(new) = Len(table)
    <3> HIDE DEF value
    <3> QED
      BY <1>1, <2>2, IsASeq
  <2>4. \A i \in 1..Len(new) : /\ new[i].task = table[i].task
                               /\ new[i].run = IF table[i].task = t THEN r ELSE table[i].run
    <3> HIDE DEF value
    <3> QED
      BY <2>2, <2>3
  <2> HIDE DEF new, value
  <2>5. Keyed(new)
    BY <2>3, <2>4 DEF Keyed
  <2>6. ASSUME NEW u, NEW s
        PROVE  Has(new, u, s) <=> (u = t /\ s = r) \/ (u # t /\ Has(table, u, s))
    BY <1>2, <2>3, <2>4 DEF Has
  <2> QED
    BY <1>1, <2>1, <2>3, <2>5, <2>6
<1>3. CASE ~\E i \in 1..Len(table) : table[i].task = t
  <2> DEFINE entry == [task |-> t, run |-> r]
             new == Append(table, entry)
  <2>1. Registered(table, t, r) = new
    BY <1>3 DEF Registered
  <2>2. entry \in Entries
    BY DEF Entries
  <2>3. /\ new \in Seq(Entries) /\ Len(new) = Len(table) + 1
        /\ \A i \in 1..Len(table) : new[i] = table[i]
        /\ new[Len(table) + 1].task = t /\ new[Len(table) + 1].run = r
    BY <2>2, AppendProperties
  <2> HIDE DEF new, entry
  <2>4. \A i : i \in 1..Len(new) <=> i \in 1..Len(table) \/ i = Len(table) + 1
    BY <1>1, <2>3
  <2>5. Keyed(new)
    BY <1>1, <1>3, <2>3, <2>4 DEF Keyed
  <2>6. ASSUME NEW u, NEW s
        PROVE  Has(new, u, s) <=> (u = t /\ s = r) \/ (u # t /\ Has(table, u, s))
    BY <1>3, <2>3, <2>4 DEF Has
  <2> QED
    BY <1>1, <2>1, <2>3, <2>5, <2>6
<1> QED
  BY <1>2, <1>3

\* _live.get: the run of the task's entry.
LEMMA LiveRunIs ==
  ASSUME live \in Seq(Entries), Keyed(live), NEW t
  PROVE  /\ LiveRun(t) # None => Has(live, t, LiveRun(t))
         /\ \A r : Has(live, t, r) => LiveRun(t) = r /\ r # None
<1>1. \A i \in 1..Len(live) : live[i] \in Entries
  BY ElementOfSeq
<1>2. CASE \E i \in 1..Len(live) : live[i].task = t
  <2> DEFINE at == CHOOSE i \in 1..Len(live) : live[i].task = t
  <2>1. at \in 1..Len(live) /\ live[at].task = t
    BY <1>2
  <2>2. LiveRun(t) = live[at].run
    BY <1>2 DEF LiveRun
  <2> HIDE DEF at
  <2>3. Has(live, t, live[at].run)
    BY <2>1 DEF Has
  <2> QED
    BY <1>1, <2>1, <2>2, <2>3, KeyedHas DEF Entries
<1>3. CASE ~\E i \in 1..Len(live) : live[i].task = t
  BY <1>3 DEF LiveRun, Has
<1> QED
  BY <1>2, <1>3

\* What _evict_if_full takes is in the table.
LEMMA VictimIsLive ==
  ASSUME live \in Seq(Entries), Len(live) >= MaxLive
  PROVE  /\ Has(live, Victim.task, Victim.run)
         /\ Victim.task \in Tasks /\ Victim.run \in Nat \ {None}
<1> DEFINE parked == {i \in 1..Len(live) : IsParked(sessions[live[i].run])}
<1>1. Len(live) \in Nat /\ 1 \in 1..Len(live)
  BY LenProperties, ExecutorAssumption
<1>2. ASSUME NEW i \in 1..Len(live), Victim = live[i]
      PROVE  /\ Has(live, Victim.task, Victim.run)
             /\ Victim.task \in Tasks /\ Victim.run \in Nat \ {None}
  <2>1. live[i] \in Entries
    BY ElementOfSeq
  <2> QED
    BY <1>2, <2>1 DEF Has, Entries
<1>3. CASE parked = {}
  BY <1>1, <1>2, <1>3 DEF Victim
<1>4. CASE parked # {}
  <2>1. \E i \in parked : \A j \in parked : i <= j
    <3>1. parked \subseteq Nat
      OBVIOUS
    <3>2. PICK i \in parked : \A j \in parked : ~(<<j, i>> \in OpToRel(<, Nat))
      BY <1>4, <3>1, WFMin, NatLessThanWellFounded
    <3>3. \A j \in parked : ~(j < i)
      BY <3>1, <3>2 DEF OpToRel
    <3> QED
      BY <3>1, <3>3
  <2> DEFINE oldest == CHOOSE i \in parked : \A j \in parked : i <= j
  <2>2. oldest \in parked
    BY <2>1
  <2>3. Victim = live[oldest]
    BY <1>4 DEF Victim
  <2> QED
    BY <1>2, <2>2, <2>3
<1> QED
  BY <1>3, <1>4

(***************************************************************************)
(* Queues and sessions.                                                    *)
(***************************************************************************)
\* The prompt for request q is in the queue.
Prompted(queue, q) == \E i \in 1..Len(queue) : queue[i] = Prompt(q)

\* The end of the run is.
Over(queue) == \E i \in 1..Len(queue) : queue[i].kind \in {"error", "done"}

\* No prompt is in it twice.
OnceEach(queue) == \A i, j \in 1..Len(queue) :
                     queue[i] = queue[j] /\ queue[i].kind = "request" => i = j

\* The items of an event queue.
LEMMA ItemsAre ==
  /\ Output \in Items /\ Failure \in Items /\ Sentinel \in Items
  /\ \A q \in Requests : Prompt(q) \in Items /\ Prompt(q).kind = "request" /\ Prompt(q).id = q
  /\ Output.kind = "output" /\ Failure.kind = "error" /\ Sentinel.kind = "done"
  /\ \A item \in Items : item.kind = "request" => item.id \in Requests /\ item = Prompt(item.id)
<1>1. \A q : Prompt(q).kind = "request" /\ Prompt(q).id = q
  BY DEF Prompt
<1>2. Output.kind = "output" /\ Failure.kind = "error" /\ Sentinel.kind = "done"
  BY DEF Output, Failure, Sentinel
<1>3. \A item \in Items : \/ item \in {Output, Failure, Sentinel}
                          \/ \E q \in Requests : item = Prompt(q)
  BY DEF Items
<1>4. \A item \in Items : item.kind = "request"
                             => item.id \in Requests /\ item = Prompt(item.id)
  BY <1>1, <1>2, <1>3
<1> QED
  BY <1>1, <1>2, <1>4 DEF Items

\* An item is taken.
LEMMA QueueTaken ==
  ASSUME NEW queue \in Seq(Items), queue # <<>>
  PROVE  /\ Head(queue) \in Items /\ Tail(queue) \in Seq(Items)
         /\ \A q : Prompted(Tail(queue), q) => Prompted(queue, q)
         /\ Over(Tail(queue)) => Over(queue)
         /\ Head(queue).kind \in {"error", "done"} => Over(queue)
         /\ OnceEach(queue) => OnceEach(Tail(queue))
         /\ Head(queue).kind = "request" =>
              /\ Head(queue).id \in Requests
              /\ Prompted(queue, Head(queue).id)
              /\ OnceEach(queue) => ~Prompted(Tail(queue), Head(queue).id)
<1> DEFINE rest == Tail(queue)
           head == Head(queue)
<1>1. /\ head \in Items /\ rest \in Seq(Items) /\ Len(rest) = Len(queue) - 1
      /\ \A i \in 1..Len(rest) : rest[i] = queue[i + 1]
      /\ Len(queue) \in Nat /\ Len(queue) >= 1
  BY HeadTailProperties, LenProperties, EmptySeq
<1>2. head = queue[1]
  OBVIOUS
<1> HIDE DEF rest, head
<1>3. \A i \in 1..Len(rest) : i + 1 \in 1..Len(queue) /\ i + 1 # 1
  BY <1>1
<1>4. 1 \in 1..Len(queue)
  BY <1>1
<1>5. \A q : Prompted(rest, q) => Prompted(queue, q)
  BY <1>1, <1>3 DEF Prompted
<1>6. (Over(rest) => Over(queue)) /\ (head.kind \in {"error", "done"} => Over(queue))
  BY <1>1, <1>2, <1>3, <1>4 DEF Over
<1>7. OnceEach(queue) => OnceEach(rest)
  <2> SUFFICES ASSUME OnceEach(queue), NEW i \in 1..Len(rest), NEW j \in 1..Len(rest),
                      rest[i] = rest[j], rest[i].kind = "request"
               PROVE  i = j
    BY DEF OnceEach
  <2>1. i + 1 = j + 1
    BY <1>1, <1>3 DEF OnceEach
  <2> QED
    BY <2>1
<1>8. ASSUME head.kind = "request"
      PROVE  /\ head.id \in Requests
             /\ Prompted(queue, head.id)
             /\ OnceEach(queue) => ~Prompted(rest, head.id)
  <2>1. head.id \in Requests /\ head = Prompt(head.id)
    BY <1>1, <1>8, ItemsAre
  <2> QED
    BY <1>1, <1>2, <1>3, <1>4, <1>8, <2>1 DEF Prompted, OnceEach
<1> QED
  BY <1>1, <1>5, <1>6, <1>7, <1>8 DEF rest, head

\* An item is put.
LEMMA QueuePut ==
  ASSUME NEW queue \in Seq(Items), NEW item \in Items
  PROVE  /\ Append(queue, item) \in Seq(Items)
         /\ \A q : Prompted(Append(queue, item), q) <=> Prompted(queue, q) \/ item = Prompt(q)
         /\ Over(Append(queue, item)) <=> Over(queue) \/ item.kind \in {"error", "done"}
         /\ /\ OnceEach(queue)
            /\ item.kind = "request" => ~Prompted(queue, item.id)
            => OnceEach(Append(queue, item))
<1> DEFINE new == Append(queue, item)
<1>1. /\ new \in Seq(Items) /\ Len(new) = Len(queue) + 1 /\ Len(queue) \in Nat
      /\ \A i \in 1..Len(queue) : new[i] = queue[i]
      /\ new[Len(queue) + 1] = item
  BY AppendProperties, LenProperties
<1> HIDE DEF new
<1>2. \A i : i \in 1..Len(new) <=> i \in 1..Len(queue) \/ i = Len(queue) + 1
  BY <1>1
<1>3. \A q : Prompted(new, q) <=> Prompted(queue, q) \/ item = Prompt(q)
  BY <1>1, <1>2 DEF Prompted
<1>4. Over(new) <=> Over(queue) \/ item.kind \in {"error", "done"}
  BY <1>1, <1>2 DEF Over
<1>5. ASSUME OnceEach(queue), item.kind = "request" => ~Prompted(queue, item.id)
      PROVE  OnceEach(new)
  <2>1. item.kind = "request" => \A i \in 1..Len(queue) : queue[i] # item
    BY <1>5, ItemsAre DEF Prompted
  <2> QED
    BY <1>1, <1>2, <1>5, <2>1 DEF OnceEach
<1> QED
  BY <1>1, <1>3, <1>4, <1>5 DEF new

\* The run is over or being stopped.
Leaving(s) == \/ ~Alive(s)
              \/ s.runner = "cancelling"
              \/ s.closer \in {"asking", "winding", "joining", "abandoned"}

\* What most steps do to a session: no prompt is put on its queue, none becomes
\* pending or is recorded, and the run may end but not come back.
Fades(s, s2) == /\ s2 \in Sessions
                /\ s2.own = NoRequest
                /\ s2.pending \subseteq s.pending
                /\ s2.lastRequest = s.lastRequest
                /\ \A q : Prompted(s2.queue, q) => Prompted(s.queue, q)
                /\ OnceEach(s.queue) => OnceEach(s2.queue)
                /\ Over(s2.queue) => Over(s.queue) \/ ~Alive(s2)
                /\ Alive(s2) => Alive(s)

\* What the runner, and what cancels it, makes of a session ...
LEMMA RunnerFades ==
  ASSUME NEW s \in Sessions, s.own = NoRequest
  PROVE  /\ Fades(s, CancelRunner(s)) /\ CancelRunner(s).pending = s.pending
         /\ CancelRunner(s).closer = s.closer /\ Leaving(CancelRunner(s))
         /\ Fades(s, SetCanceller(s)) /\ SetCanceller(s).pending = s.pending
         /\ SetCanceller(s).closer = s.closer
         /\ s.runner = "created" => /\ Fades(s, RunnerBegins(s))
                                    /\ RunnerBegins(s).pending = s.pending
                                    /\ RunnerBegins(s).closer = s.closer
         /\ Leaving(s) => Leaving(SetCanceller(s))
         /\ s.runner = "created" /\ Leaving(s) => Leaving(RunnerBegins(s))
BY DEF Fades, CancelRunner, SetCanceller, RunnerBegins, Alive, Leaving, Sessions

\* ... what close() makes of it ...
LEMMA ClosingFades ==
  ASSUME NEW s \in Sessions, s.own = NoRequest
  PROVE  /\ Fades(s, ClearPending(s)) /\ ClearPending(s).closer = s.closer
         /\ Leaving(s) => Leaving(ClearPending(s))
         /\ Alive(s) <=> Alive(ClearPending(s))
         /\ Fades(s, BeginClose(s)) /\ Leaving(BeginClose(s))
         /\ Fades(s, ContinueClose(s)) /\ Leaving(ContinueClose(s))
         /\ Fades(s, InterruptClose(s)) /\ Leaving(InterruptClose(s))
<1>1. /\ Fades(s, ClearPending(s)) /\ ClearPending(s).closer = s.closer
      /\ Leaving(s) => Leaving(ClearPending(s))
      /\ Alive(s) <=> Alive(ClearPending(s))
      /\ ClearPending(s).runner = s.runner
  BY DEF Fades, ClearPending, Alive, Leaving, Sessions
<1>2. Fades(s, BeginClose(s)) /\ Leaving(BeginClose(s))
  BY DEF Fades, BeginClose, CancelRunner, ClearPending, Alive, Leaving, Sessions, Closers
<1>3. Fades(s, ContinueClose(s)) /\ Leaving(ContinueClose(s))
  BY ZenonT(60) DEF Fades, ContinueClose, CancelRunner, ClearPending, Alive, Leaving, Sessions, Closers
<1>4. Fades(s, InterruptClose(s)) /\ Leaving(InterruptClose(s))
  BY ZenonT(60) DEF Fades, InterruptClose, CancelRunner, ClearPending, Alive, Leaving, Sessions, Closers
<1> QED
  BY <1>1, <1>2, <1>3, <1>4

\* Its runner speaks, or ends.
LEMMA SpeakingFades ==
  ASSUME NEW s \in Sessions, s.own = NoRequest
  PROVE  /\ Fades(s, Emit(s)) /\ Emit(s).closer = s.closer
         /\ Emit(s).pending = s.pending
         /\ Leaving(s) => Leaving(Emit(s))
         /\ Fades(s, RunnerReturns(s)) /\ RunnerReturns(s).closer = s.closer
         /\ RunnerReturns(s).pending = s.pending /\ Leaving(RunnerReturns(s))
         /\ Fades(s, RunnerFails(s)) /\ RunnerFails(s).closer = s.closer
         /\ RunnerFails(s).pending = s.pending /\ Leaving(RunnerFails(s))
<1>1. s.queue \in Seq(Items)
  BY DEF Sessions
<1> DEFINE one == Append(s.queue, Output)
           ended == Append(s.queue, Sentinel)
           failing == Append(s.queue, Failure)
           failed == Append(failing, Sentinel)
<1>2. /\ one \in Seq(Items)
      /\ Over(one) => Over(s.queue)
      /\ OnceEach(s.queue) => OnceEach(one)
      /\ \A q : Prompted(one, q) => Prompted(s.queue, q)
  <2>1. \A q : Output # Prompt(q)
    BY DEF Output, Prompt
  <2> QED
    BY <1>1, <2>1, QueuePut, ItemsAre
<1>3. \A q : Sentinel # Prompt(q) /\ Failure # Prompt(q)
  BY DEF Sentinel, Failure, Prompt
<1>4. /\ ended \in Seq(Items)
      /\ OnceEach(s.queue) => OnceEach(ended)
      /\ \A q : Prompted(ended, q) => Prompted(s.queue, q)
  BY <1>1, <1>3, QueuePut, ItemsAre
<1>5. /\ failing \in Seq(Items)
      /\ OnceEach(s.queue) => OnceEach(failing)
      /\ \A q : Prompted(failing, q) => Prompted(s.queue, q)
  BY <1>1, <1>3, QueuePut, ItemsAre
<1>6. /\ failed \in Seq(Items)
      /\ OnceEach(failing) => OnceEach(failed)
      /\ \A q : Prompted(failed, q) => Prompted(failing, q)
  <2> HIDE DEF failing
  <2> QED
    BY <1>3, <1>5, QueuePut, ItemsAre
<1>7. /\ Emit(s) = [s EXCEPT !.queue = one]
      /\ RunnerReturns(s) = [s EXCEPT !.queue = ended, !.runner = "finished"]
      /\ RunnerFails(s) = [s EXCEPT !.queue = failed, !.runner = "finished"]
  BY DEF Emit, RunnerReturns, RunnerFails, Put, Sessions
<1>0. one \in Seq(Items) /\ ended \in Seq(Items) /\ failed \in Seq(Items)
  BY <1>2, <1>4, <1>6
<1> HIDE DEF one, ended, failing, failed
<1>8. /\ Fades(s, Emit(s)) /\ Emit(s).closer = s.closer /\ Emit(s).pending = s.pending
      /\ Leaving(s) => Leaving(Emit(s))
  <2>1. /\ Emit(s) \in Sessions /\ Emit(s).queue = one /\ Emit(s).own = s.own
        /\ Emit(s).pending = s.pending /\ Emit(s).lastRequest = s.lastRequest
        /\ Emit(s).runner = s.runner /\ Emit(s).closer = s.closer
    BY <1>0, <1>7 DEF Sessions
  <2> QED
    BY <1>2, <2>1 DEF Fades, Alive, Leaving
<1>9. /\ Fades(s, RunnerReturns(s)) /\ RunnerReturns(s).closer = s.closer
      /\ RunnerReturns(s).pending = s.pending /\ Leaving(RunnerReturns(s))
  <2>1. /\ RunnerReturns(s) \in Sessions /\ RunnerReturns(s).queue = ended
        /\ RunnerReturns(s).own = s.own /\ RunnerReturns(s).pending = s.pending
        /\ RunnerReturns(s).lastRequest = s.lastRequest
        /\ RunnerReturns(s).runner = "finished" /\ RunnerReturns(s).closer = s.closer
    BY <1>0, <1>7 DEF Sessions
  <2> QED
    BY <1>4, <2>1 DEF Fades, Alive, Leaving
<1>10. /\ Fades(s, RunnerFails(s)) /\ RunnerFails(s).closer = s.closer
       /\ RunnerFails(s).pending = s.pending /\ Leaving(RunnerFails(s))
  <2>1. /\ RunnerFails(s) \in Sessions /\ RunnerFails(s).queue = failed
        /\ RunnerFails(s).own = s.own /\ RunnerFails(s).pending = s.pending
        /\ RunnerFails(s).lastRequest = s.lastRequest
        /\ RunnerFails(s).runner = "finished" /\ RunnerFails(s).closer = s.closer
    BY <1>0, <1>7 DEF Sessions
  <2> QED
    BY <1>5, <1>6, <2>1 DEF Fades, Alive, Leaving
<1> QED
  BY <1>8, <1>9, <1>10

\* Its pump takes an item, the last of them or not; an answer is applied.
LEMMA PumpingFades ==
  ASSUME NEW s \in Sessions, s.own = NoRequest
  PROVE  /\ s.queue # <<>> =>
              /\ Fades(s, Take(s)) /\ Take(s).closer = s.closer
              /\ Take(s).pending = s.pending /\ Take(s).runner = s.runner
              /\ Take(s).queue = Tail(s.queue)
              /\ Fades(s, End(s)) /\ End(s).closer = s.closer
              /\ End(s).pending = s.pending /\ End(s).runner = s.runner
              /\ Fades(s, ClearPending(End(s)))
              /\ ClearPending(End(s)).closer = s.closer
              /\ ClearPending(End(s)).runner = s.runner
         /\ \A q : /\ Fades(s, Resolve(s, q)) /\ Resolve(s, q).closer = s.closer
                   /\ Resolve(s, q).pending = s.pending \ {q}
                   /\ Resolve(s, q).runner = s.runner
                   /\ Resolve(s, q).queue = s.queue
<1>1. s.queue \in Seq(Items)
  BY DEF Sessions
<1>2. ASSUME s.queue # <<>>
      PROVE  /\ Fades(s, Take(s)) /\ Take(s).closer = s.closer
             /\ Take(s).pending = s.pending /\ Take(s).runner = s.runner
             /\ Take(s).queue = Tail(s.queue)
             /\ Fades(s, End(s)) /\ End(s).closer = s.closer
             /\ End(s).pending = s.pending /\ End(s).runner = s.runner
             /\ Fades(s, ClearPending(End(s)))
             /\ ClearPending(End(s)).closer = s.closer
             /\ ClearPending(End(s)).runner = s.runner
  <2> DEFINE rest == Tail(s.queue)
  <2>1. /\ rest \in Seq(Items)
        /\ Over(rest) => Over(s.queue)
        /\ OnceEach(s.queue) => OnceEach(rest)
        /\ \A q : Prompted(rest, q) => Prompted(s.queue, q)
    BY <1>1, <1>2, QueueTaken
  <2>2. /\ Take(s) = [s EXCEPT !.queue = rest]
        /\ End(s) = [s EXCEPT !.queue = rest, !.done = TRUE]
    BY DEF Take, End
  <2> HIDE DEF rest
  <2>3. /\ Fades(s, Take(s)) /\ Take(s).closer = s.closer
        /\ Take(s).pending = s.pending /\ Take(s).runner = s.runner
        /\ Take(s).queue = rest
    <3>1. /\ Take(s) \in Sessions /\ Take(s).queue = rest /\ Take(s).own = s.own
          /\ Take(s).pending = s.pending /\ Take(s).lastRequest = s.lastRequest
          /\ Take(s).runner = s.runner /\ Take(s).closer = s.closer
      BY <2>1, <2>2 DEF Sessions
    <3> QED
      BY <2>1, <3>1 DEF Fades, Alive
  <2>4. /\ Fades(s, End(s)) /\ End(s).closer = s.closer
        /\ End(s).pending = s.pending /\ End(s).runner = s.runner
        /\ End(s).queue = rest /\ End(s).own = NoRequest /\ End(s) \in Sessions
    <3>1. /\ End(s) \in Sessions /\ End(s).queue = rest /\ End(s).own = s.own
          /\ End(s).pending = s.pending /\ End(s).lastRequest = s.lastRequest
          /\ End(s).runner = s.runner /\ End(s).closer = s.closer
      BY <2>1, <2>2 DEF Sessions
    <3> QED
      BY <2>1, <3>1 DEF Fades, Alive
  <2>5. /\ ClearPending(End(s)) \in Sessions
        /\ ClearPending(End(s)).own = NoRequest
        /\ ClearPending(End(s)).pending = {}
        /\ ClearPending(End(s)).lastRequest = End(s).lastRequest
        /\ ClearPending(End(s)).queue = rest
        /\ ClearPending(End(s)).runner = s.runner
        /\ ClearPending(End(s)).closer = s.closer
    BY <2>4 DEF ClearPending, Sessions
  <2>6. Fades(s, ClearPending(End(s)))
    BY <2>1, <2>4, <2>5 DEF Fades, Alive
  <2> QED
    BY <2>3, <2>4, <2>5, <2>6 DEF rest
<1>3. ASSUME NEW q
      PROVE  /\ Fades(s, Resolve(s, q)) /\ Resolve(s, q).closer = s.closer
             /\ Resolve(s, q).pending = s.pending \ {q}
             /\ Resolve(s, q).runner = s.runner
             /\ Resolve(s, q).queue = s.queue
  BY DEF Fades, Resolve, Sessions, Alive
<1> QED
  BY <1>2, <1>3

\* A prompt is asked.
LEMMA AskIs ==
  ASSUME NEW s \in Sessions, NEW q \in Requests
  PROVE  /\ Ask(s, q) \in Sessions
         /\ Ask(s, q).own = s.own
         /\ Ask(s, q).pending = s.pending \cup {q}
         /\ Ask(s, q).lastRequest = s.lastRequest
         /\ Ask(s, q).runner = s.runner
         /\ Ask(s, q).closer = s.closer
         /\ \A p : Prompted(Ask(s, q).queue, p) <=> Prompted(s.queue, p) \/ p = q
         /\ OnceEach(s.queue) /\ ~Prompted(s.queue, q) => OnceEach(Ask(s, q).queue)
         /\ Over(Ask(s, q).queue) <=> Over(s.queue)
<1> DEFINE new == Append(s.queue, Prompt(q))
<1>1. s.queue \in Seq(Items) /\ Prompt(q) \in Items
  BY ItemsAre DEF Sessions
<1>2. \A p : Prompt(p) = Prompt(q) <=> p = q
  BY DEF Prompt
<1>3. /\ new \in Seq(Items)
      /\ \A p : Prompted(new, p) <=> Prompted(s.queue, p) \/ p = q
      /\ OnceEach(s.queue) /\ ~Prompted(s.queue, q) => OnceEach(new)
      /\ Over(new) <=> Over(s.queue)
  BY <1>1, <1>2, QueuePut, ItemsAre
<1>4. Ask(s, q) = [s EXCEPT !.queue = new, !.pending = @ \cup {q},
                            !.waiting = @ \cup {q}]
  BY DEF Ask, Put, Sessions
<1>5. new \in Seq(Items)
  BY <1>3
<1> HIDE DEF new
<1> DEFINE asked == s.pending \cup {q}
           suspended == s.waiting \cup {q}
<1>7. Ask(s, q) = [s EXCEPT !.queue = new, !.pending = asked, !.waiting = suspended]
  BY <1>4 DEF Sessions
<1>8. asked \in SUBSET Requests /\ suspended \in SUBSET Requests
  BY DEF Sessions
<1> HIDE DEF asked, suspended
<1>9. /\ Ask(s, q) \in Sessions /\ Ask(s, q).queue = new
      /\ Ask(s, q).own = s.own /\ Ask(s, q).pending = asked
      /\ Ask(s, q).lastRequest = s.lastRequest
      /\ Ask(s, q).runner = s.runner /\ Ask(s, q).closer = s.closer
  BY <1>5, <1>7, <1>8 DEF Sessions
<1>6. /\ Ask(s, q) \in Sessions /\ Ask(s, q).queue = new
      /\ Ask(s, q).own = s.own /\ Ask(s, q).pending = s.pending \cup {q}
      /\ Ask(s, q).lastRequest = s.lastRequest
      /\ Ask(s, q).runner = s.runner /\ Ask(s, q).closer = s.closer
  BY <1>9 DEF asked
<1> QED
  BY <1>3, <1>6

\* Parking a session only records the request it waits on.
LEMMA ParkIs ==
  ASSUME NEW s \in Sessions, NEW q \in Requests \cup {NoRequest}
  PROVE  /\ Park(s, q) \in Sessions
         /\ Park(s, q).lastRequest = q
         /\ Park(s, q).own = s.own /\ Park(s, q).pending = s.pending
         /\ Park(s, q).queue = s.queue /\ Park(s, q).runner = s.runner
         /\ Park(s, q).closer = s.closer
BY DEF Park, Sessions

\* A new session has nothing queued and nothing asked.
LEMMA NewSessionIs ==
  /\ NewSession \in Sessions
  /\ NewSession.own = NoRequest /\ NewSession.pending = {}
  /\ NewSession.lastRequest = NoRequest /\ NewSession.closer = "no"
  /\ OnceEach(NewSession.queue) /\ ~Over(NewSession.queue)
  /\ \A q : ~Prompted(NewSession.queue, q)
<1>1. NewSession.queue = <<>> /\ <<>> \in Seq(Items) /\ Len(<<>>) = 0
  BY EmptySeq DEF NewSession
<1>2. OnceEach(<<>>) /\ ~Over(<<>>) /\ \A q : ~Prompted(<<>>, q)
  BY <1>1 DEF OnceEach, Over, Prompted
<1> QED
  BY <1>1, <1>2 DEF NewSession, Sessions, Closers

Cs == 1..Len(calls)

Entering == {"greeting", "waiting", "admitting", "evicting"}
Pumping  == {"draining", "publishing", "closing"}
Attended == {"answering"} \cup Pumping

\* Types, and what names what.
TypeInv ==
  /\ tasks \in [Tasks -> TaskInfo]
  /\ calls \in Seq(CallInfo) /\ Len(calls) <= MaxCalls
  /\ live \in Seq(Entries) /\ Keyed(live)
  /\ streamOf \in [Tasks -> Nat]
  /\ sessions \in Seq(Sessions)
  /\ streams \in Seq(StreamInfo)
  /\ evicted \subseteq Runs
  /\ askedBy \in [Requests -> Nat]
  /\ settled \in [Requests -> Nat]

CallsInRange ==
  \A c \in Cs :
    /\ calls[c].run \in 0..Len(sessions)
    /\ calls[c].stream \in 0..Len(streams)
    /\ calls[c].pc \in {"queued", "refused"} \cup Entering => calls[c].run = None
    /\ calls[c].pc \in Attended => calls[c].run # None
    /\ calls[c].pc \in Pumping => calls[c].stream # None
    /\ calls[c].pc = "evicting" => calls[c].victim \in Runs
    /\ calls[c].message <= c

TablesInRange ==
  /\ \A t \in Tasks : streamOf[t] \in 0..Len(streams)
  /\ \A t, r : Has(live, t, r) => t \in Tasks /\ r \in Runs

\* Prompts are asked from tasks of the backend's, not from the runner itself.
NoneInline == \A r \in Runs : sessions[r].own = NoRequest

HistoryInRange ==
  \A q \in Requests : askedBy[q] \in 0..Len(sessions) /\ settled[q] \in 0..Len(calls)

RangeInv == CallsInRange /\ TablesInRange /\ NoneInline /\ HistoryInRange

BaseInv == TypeInv /\ RangeInv

\* What the types give of each call, session, stream and task.
LEMMA Facts ==
  ASSUME BaseInv
  PROVE  /\ Len(calls) \in Nat /\ Len(sessions) \in Nat /\ Len(streams) \in Nat
         /\ \A c \in Cs : /\ calls[c] \in CallInfo
                          /\ calls[c].task \in Tasks
                          /\ calls[c].pc \in {"queued"} \cup Unfinished \cup Finished
                          /\ calls[c].echo \in Requests \cup {NoRequest}
                          /\ calls[c].message \in Nat
         /\ \A c \in Cs : calls[c].pc \in Attended => calls[c].run \in Runs
         /\ \A c \in Cs : calls[c].pc \in Pumping => calls[c].stream \in 1..Len(streams)
         /\ \A r \in Runs : /\ sessions[r] \in Sessions /\ sessions[r].own = NoRequest
                            /\ sessions[r].queue \in Seq(Items)
                            /\ sessions[r].pending \subseteq Requests
                            /\ sessions[r].lastRequest \in Requests \cup {NoRequest}
         /\ \A s \in 1..Len(streams) : /\ streams[s] \in StreamInfo
                                       /\ streams[s].asked \in Requests \cup {NoRequest}
         /\ \A t \in Tasks : tasks[t] \in TaskInfo
<1>1. Len(calls) \in Nat /\ Len(sessions) \in Nat /\ Len(streams) \in Nat
  BY LenProperties DEF BaseInv, TypeInv
<1>2. \A c \in Cs : calls[c] \in CallInfo
  BY ElementOfSeq DEF BaseInv, TypeInv, Cs
<1>3. \A r \in Runs : sessions[r] \in Sessions
  BY ElementOfSeq DEF BaseInv, TypeInv, Runs
<1>4. \A s \in 1..Len(streams) : streams[s] \in StreamInfo
  BY ElementOfSeq DEF BaseInv, TypeInv
<1>5. \A t \in Tasks : tasks[t] \in TaskInfo
  BY DEF BaseInv, TypeInv
<1>6. \A c \in Cs : /\ calls[c].task \in Tasks
                    /\ calls[c].pc \in {"queued"} \cup Unfinished \cup Finished
                    /\ calls[c].echo \in Requests \cup {NoRequest}
                    /\ calls[c].message \in Nat
  BY <1>2 DEF CallInfo, Calls
<1>7. /\ \A c \in Cs : calls[c].pc \in Attended => calls[c].run \in Runs
      /\ \A c \in Cs : calls[c].pc \in Pumping => calls[c].stream \in 1..Len(streams)
  BY <1>1 DEF BaseInv, RangeInv, CallsInRange, TablesInRange, NoneInline, Runs, None
<1>8. \A r \in Runs : /\ sessions[r].own = NoRequest
                      /\ sessions[r].queue \in Seq(Items)
                      /\ sessions[r].pending \subseteq Requests
                      /\ sessions[r].lastRequest \in Requests \cup {NoRequest}
  BY <1>3 DEF BaseInv, RangeInv, CallsInRange, TablesInRange, NoneInline, Sessions
<1>9. \A s \in 1..Len(streams) : streams[s].asked \in Requests \cup {NoRequest}
  BY <1>4 DEF StreamInfo
<1> QED
  BY <1>1, <1>2, <1>3, <1>4, <1>5, <1>6, <1>7, <1>8, <1>9

(***************************************************************************)
(* Steps, cell by cell.                                                    *)
(***************************************************************************)
\* Of the calls only c changes, and of it what is named.
CallSteps(c, pc, run, stream) ==
  /\ calls' \in Seq(CallInfo) /\ Len(calls') = Len(calls)
  /\ \A d \in Cs : /\ calls'[d].task = calls[d].task
                   /\ calls'[d].message = calls[d].message
                   /\ calls'[d].echo = calls[d].echo
                   /\ d # c => calls'[d] = calls[d]
  /\ calls'[c].pc = pc /\ calls'[c].run = run /\ calls'[c].stream = stream

\* Of the sessions only r's.
SessionSteps(r, s) ==
  /\ sessions' \in Seq(Sessions) /\ Len(sessions') = Len(sessions)
  /\ sessions'[r] = s
  /\ \A x \in Runs : x # r => sessions'[x] = sessions[x]

\* Of the tasks only t.
TaskSteps(t, info) ==
  /\ tasks' \in [Tasks -> TaskInfo]
  /\ tasks'[t] = info
  /\ \A u \in Tasks : u # t => tasks'[u] = tasks[u]

StreamOfSteps(t, s) ==
  /\ streamOf' \in [Tasks -> Nat]
  /\ streamOf'[t] = s
  /\ \A u \in Tasks : u # t => streamOf'[u] = streamOf[u]

LiveDrops(t) ==
  /\ live' \in Seq(Entries) /\ Keyed(live')
  /\ \A u, r : Has(live', u, r) <=> Has(live, u, r) /\ u # t

\* An assignment to one cell of calls, and so of the other tables, leaves
\* the rest.
LEMMA CallCell ==
  ASSUME BaseInv, NEW c \in Cs, NEW x \in CallInfo, calls' = [calls EXCEPT ![c] = x],
         x.task = calls[c].task, x.message = calls[c].message, x.echo = calls[c].echo
  PROVE  /\ calls' \in Seq(CallInfo) /\ Len(calls') = Len(calls)
         /\ calls'[c] = x
         /\ CallSteps(c, x.pc, x.run, x.stream)
<1>1. calls \in Seq(CallInfo)
  BY DEF BaseInv, TypeInv
<1>2. /\ calls' \in Seq(CallInfo) /\ Len(calls') = Len(calls)
      /\ \A d \in Cs : calls'[d] = IF d = c THEN x ELSE calls[d]
  BY <1>1, ExceptSeq DEF Cs
<1> QED
  BY <1>2 DEF CallSteps

\* ... of sessions,
LEMMA SessionCell ==
  ASSUME BaseInv, NEW r \in Runs, NEW s \in Sessions, sessions' = [sessions EXCEPT ![r] = s]
  PROVE  SessionSteps(r, s)
<1>1. sessions \in Seq(Sessions)
  BY DEF BaseInv, TypeInv
<1>2. /\ sessions' \in Seq(Sessions) /\ Len(sessions') = Len(sessions)
      /\ \A d \in Runs : sessions'[d] = IF d = r THEN s ELSE sessions[d]
  BY <1>1, ExceptSeq DEF Runs
<1> QED
  BY <1>2 DEF SessionSteps

\* ... of tasks,
LEMMA TaskCell ==
  ASSUME BaseInv, NEW t \in Tasks, NEW info \in TaskInfo, tasks' = [tasks EXCEPT ![t] = info]
  PROVE  TaskSteps(t, info)
BY DEF TaskSteps, BaseInv, TypeInv

\* ... of _streams;
LEMMA StreamOfCell ==
  ASSUME BaseInv, NEW t \in Tasks, NEW s \in Nat, streamOf' = [streamOf EXCEPT ![t] = s]
  PROVE  StreamOfSteps(t, s)
BY DEF StreamOfSteps, BaseInv, TypeInv

\* and popping a task from _live drops its entry only.
LEMMA LiveCell ==
  ASSUME BaseInv, NEW t, live' = Dropped(live, t)
  PROVE  LiveDrops(t)
BY DroppedIs DEF LiveDrops, BaseInv, TypeInv

\* Only its progress changes.
LEMMA GoesIs ==
  ASSUME BaseInv, NEW c \in Cs, NEW pc \in {"queued"} \cup Unfinished \cup Finished,
         Goes(c, pc)
  PROVE  /\ CallSteps(c, pc, calls[c].run, calls[c].stream)
         /\ calls'[c].interrupted = calls[c].interrupted
         /\ calls'[c].victim = calls[c].victim
<1> DEFINE x == [calls[c] EXCEPT !.pc = pc]
<1>1. calls[c] \in CallInfo
  BY Facts
<1>2. /\ x \in CallInfo /\ x.pc = pc /\ x.task = calls[c].task
      /\ x.message = calls[c].message /\ x.echo = calls[c].echo
      /\ x.run = calls[c].run /\ x.stream = calls[c].stream
      /\ x.interrupted = calls[c].interrupted /\ x.victim = calls[c].victim
  BY <1>1 DEF CallInfo
<1>3. calls' = [calls EXCEPT ![c] = x]
  BY DEF Goes
<1> HIDE DEF x
<1>4. CallSteps(c, pc, calls[c].run, calls[c].stream) /\ calls'[c] = x
  BY <1>2, <1>3, CallCell
<1> QED
  BY <1>2, <1>4

\* The unwinding of a call that was cancelled.
LEMMA UnwindIs ==
  ASSUME BaseInv, NEW c \in Cs, Unwind(c)
  PROVE  /\ CallSteps(c, "dropped", calls[c].run, calls[c].stream)
         /\ ~calls'[c].interrupted /\ calls[c].interrupted
<1> DEFINE x == [calls[c] EXCEPT !.pc = "dropped", !.interrupted = FALSE, !.victim = None]
<1>1. calls[c] \in CallInfo
  BY Facts
<1>2. /\ x \in CallInfo /\ x.pc = "dropped" /\ x.task = calls[c].task
      /\ x.message = calls[c].message /\ x.echo = calls[c].echo
      /\ x.run = calls[c].run /\ x.stream = calls[c].stream
      /\ x.interrupted = FALSE
  BY <1>1 DEF CallInfo, Finished, None
<1>3. calls' = [calls EXCEPT ![c] = x]
  <2>1. \A d \in DOMAIN calls : calls'[d] = IF d = c THEN x ELSE calls[d]
    BY DEF Unwind
  <2>2. DOMAIN calls' = DOMAIN calls
    BY DEF Unwind
  <2> QED
    BY DEF Unwind
<1> HIDE DEF x
<1>4. CallSteps(c, "dropped", calls[c].run, calls[c].stream) /\ calls'[c] = x
  BY <1>2, <1>3, CallCell
<1> QED
  BY <1>2, <1>4 DEF Unwind

\* A publication keeps a task a task, and what it says of it.
LEMMA PublishedIs ==
  ASSUME NEW info \in TaskInfo, NEW state \in States
  PROVE  /\ Published(info, state) \in TaskInfo
         /\ Published(info, state).shown = info.shown
         /\ Published(info, state).open = info.open
         /\ Published(info, state).cancelled = info.cancelled
         /\ Published(info, state).endings \in Nat /\ info.endings \in Nat
         /\ info.open => /\ Published(info, state).status = state
                         /\ Published(info, state).endings
                              = IF state \in Final THEN info.endings + 1 ELSE info.endings
         /\ ~info.open => Published(info, state) = info
<1>1. CASE ~info.open
  <2>1. Published(info, state) = info
    BY <1>1 DEF Published
  <2>2. info.endings \in Nat
    BY DEF TaskInfo
  <2> QED
    BY <1>1, <2>1, <2>2
<1>2. CASE info.open
  <2> DEFINE n == IF state \in Final THEN info.endings + 1 ELSE info.endings
  <2>1. Published(info, state) = [info EXCEPT !.status = state, !.endings = n]
    BY <1>2 DEF Published
  <2>2. info.endings \in Nat /\ n \in Nat
    BY DEF TaskInfo
  <2> HIDE DEF n
  <2>3. /\ Published(info, state) \in TaskInfo
        /\ Published(info, state).shown = info.shown
        /\ Published(info, state).open = info.open
        /\ Published(info, state).cancelled = info.cancelled
        /\ Published(info, state).status = state
        /\ Published(info, state).endings = n
    BY <2>1, <2>2 DEF TaskInfo
  <2> QED
    BY <1>2, <2>2, <2>3 DEF n
<1> QED
  BY <1>1, <1>2

\* ... and what a prompt published does.
LEMMA AskedIs ==
  ASSUME NEW info \in TaskInfo, NEW q \in Requests \cup {NoRequest}
  PROVE  /\ Asked(info, q) \in TaskInfo
         /\ Asked(info, q).open = info.open
         /\ Asked(info, q).cancelled = info.cancelled
         /\ Asked(info, q).endings = info.endings
         /\ info.open => Asked(info, q).status = "input" /\ Asked(info, q).shown = q
         /\ ~info.open => Asked(info, q) = info
BY DEF Asked, TaskInfo, States

(***************************************************************************)
(* What each action does.                                                  *)
(***************************************************************************)
\* Session r is changed as Fades allows, and is over or being stopped after.
Stopped(r) == /\ SessionSteps(r, sessions'[r])
              /\ Fades(sessions[r], sessions'[r])
              /\ Leaving(sessions'[r])

\* Session r is changed as Fades allows, and its close not touched.
Worked(r) == /\ SessionSteps(r, sessions'[r])
             /\ Fades(sessions[r], sessions'[r])
             /\ sessions'[r].closer = sessions[r].closer
             /\ Leaving(sessions[r]) => Leaving(sessions'[r])

\* No stream is lost, nor what it says; a new one has asked nothing.
StreamsGrow ==
  /\ streams' \in Seq(StreamInfo) /\ Len(streams') \in {Len(streams), Len(streams) + 1}
  /\ \A s \in 1..Len(streams) : /\ streams'[s].asked = streams[s].asked
                                /\ streams[s].answered \subseteq streams'[s].answered
  /\ Len(streams') = Len(streams) + 1 => streams'[Len(streams) + 1].asked = NoRequest

\* Task t has a stream, its own or a new one.
HasStream(t) ==
  /\ StreamsGrow
  /\ streamOf[t] # None => StreamFor(t) = streamOf[t] /\ Len(streams') = Len(streams)
  /\ streamOf[t] = None => StreamFor(t) = Len(streams) + 1 /\ Len(streams') = Len(streams) + 1
  /\ StreamFor(t) \in 1..Len(streams')
  /\ StreamOfSteps(t, StreamFor(t))

\* A step that changes no call steps each to where it is.
LEMMA CallStays ==
  ASSUME BaseInv, NEW c \in Cs, calls' = calls
  PROVE  CallSteps(c, calls[c].pc, calls[c].run, calls[c].stream)
BY DEF CallSteps, BaseInv, TypeInv

\* _streams.setdefault: the task's stream, or a new one at the end.
LEMMA StreamTaken ==
  ASSUME BaseInv, NEW t \in Tasks, NEW objects \in Seq(StreamInfo),
         Len(objects) = Len(streams),
         \A s \in 1..Len(streams) : /\ objects[s].asked = streams[s].asked
                                    /\ streams[s].answered \subseteq objects[s].answered,
         streams' = WithStreamFor(t, objects),
         streamOf' = [streamOf EXCEPT ![t] = StreamFor(t)]
  PROVE  /\ HasStream(t)
         /\ \A s \in 1..Len(streams) : streams'[s] = objects[s]
<1>1. Len(streams) \in Nat /\ streamOf[t] \in 0..Len(streams)
  BY Facts DEF BaseInv, RangeInv, CallsInRange, TablesInRange, NoneInline
<1>2. NewStream \in StreamInfo /\ NewStream.asked = NoRequest
  BY DEF NewStream, StreamInfo
<1>3. StreamFor(t) \in Nat
  BY <1>1 DEF StreamFor
<1>4. StreamOfSteps(t, StreamFor(t))
  BY <1>3, StreamOfCell
<1>5. CASE streamOf[t] = None
  <2>1. streams' = Append(objects, NewStream)
    BY <1>5 DEF WithStreamFor
  <2>2. /\ streams' \in Seq(StreamInfo) /\ Len(streams') = Len(streams) + 1
        /\ \A s \in 1..Len(streams) : streams'[s] = objects[s]
        /\ streams'[Len(streams) + 1] = NewStream
    BY <1>2, <2>1, AppendProperties
  <2>3. StreamFor(t) = Len(streams) + 1
    BY <1>5 DEF StreamFor
  <2>4. StreamsGrow
    BY <1>2, <2>2 DEF StreamsGrow
  <2> QED
    BY <1>1, <1>4, <1>5, <2>2, <2>3, <2>4 DEF HasStream
<1>6. CASE streamOf[t] # None
  <2>1. streams' = objects
    BY <1>6 DEF WithStreamFor
  <2>2. StreamFor(t) = streamOf[t]
    BY <1>6 DEF StreamFor
  <2>3. StreamsGrow
    BY <1>1, <2>1 DEF StreamsGrow
  <2>4. streamOf[t] \in 1..Len(streams')
    BY <1>1, <1>6, <2>1 DEF None
  <2> QED
    BY <1>4, <1>6, <2>1, <2>2, <2>3, <2>4 DEF HasStream
<1> QED
  BY <1>5, <1>6

\* A message arrives: a call at the end of the list, new or sent again.
LEMMA DeliverDoes ==
  ASSUME BaseInv, NEW t \in Tasks, Deliver(t)
  PROVE  LET n == Len(calls) + 1
         IN  /\ tasks[t].status \notin Final
             /\ calls' \in Seq(CallInfo) /\ Len(calls') = n /\ n <= MaxCalls
             /\ \A d \in Cs : calls'[d] = calls[d]
             /\ calls'[n].task = t /\ calls'[n].pc = "queued"
             /\ calls'[n].run = None /\ calls'[n].stream = None
             /\ calls'[n].interrupted = FALSE
             /\ \/ calls'[n].message = n
                \/ \E d \in Cs : /\ calls'[n].message = calls[d].message
                                 /\ calls'[n].echo = calls[d].echo
             /\ UNCHANGED <<tasks, live, streamOf, sessions, streams, evicted,
                            askedBy, settled>>
<1> DEFINE n == Len(calls) + 1
<1>1. /\ Len(calls) \in Nat /\ calls \in Seq(CallInfo) /\ MaxCalls \in Nat
      /\ \A c \in Cs : calls[c] \in CallInfo
  BY Facts, ExecutorAssumption DEF BaseInv, TypeInv
<1>2. tasks[t].shown \in Requests \cup {NoRequest}
  BY Facts DEF TaskInfo
<1>3. n \in Calls
  BY <1>1 DEF Deliver, Calls
<1>4. PICK message, echo :
        /\ calls' = Append(calls, NewCall(t, message, echo))
        /\ \/ message = n /\ echo \in Requests \cup {NoRequest}
           \/ \E d \in Cs : message = calls[d].message /\ echo = calls[d].echo
  <2>1. CASE \E echo \in {NoRequest, tasks[t].shown} :
               calls' = Append(calls, NewCall(t, Len(calls) + 1, echo))
    BY <1>2, <2>1
  <2>2. CASE \E d \in 1..Len(calls) : \E c \in (d + 1)..Len(calls) :
               /\ calls[d].task = t /\ calls[c].task = t
               /\ calls' = Append(calls, NewCall(t, calls[c].message, calls[c].echo))
    <3>1. PICK d \in 1..Len(calls) : \E c \in (d + 1)..Len(calls) :
            calls' = Append(calls, NewCall(t, calls[c].message, calls[c].echo))
      BY <2>2
    <3>2. PICK c \in (d + 1)..Len(calls) :
            calls' = Append(calls, NewCall(t, calls[c].message, calls[c].echo))
      BY <3>1
    <3>3. c \in Cs
      BY <1>1, <3>1, <3>2 DEF Cs
    <3> QED
      BY <3>2, <3>3
  <2> QED
    BY <2>1, <2>2 DEF Deliver
<1> DEFINE new == NewCall(t, message, echo)
<1>5. message \in Calls /\ echo \in Requests \cup {NoRequest}
  BY <1>1, <1>3, <1>4 DEF CallInfo
<1>6. /\ new \in CallInfo /\ new.task = t /\ new.pc = "queued"
      /\ new.run = None /\ new.stream = None /\ new.interrupted = FALSE
      /\ new.message = message /\ new.echo = echo
  BY <1>5 DEF NewCall, CallInfo, None
<1>10. calls' = Append(calls, new)
  BY <1>4
<1> HIDE DEF new
<1>7. /\ calls' \in Seq(CallInfo) /\ Len(calls') = n
      /\ \A d \in Cs : calls'[d] = calls[d]
      /\ calls'[n] = new
  BY <1>1, <1>6, <1>10, AppendProperties DEF Cs
<1>8. tasks[t].status \notin Final /\ n <= MaxCalls
  BY <1>1 DEF Deliver
<1>9. UNCHANGED <<tasks, live, streamOf, sessions, streams, evicted, askedBy, settled>>
  BY DEF Deliver
<1> QED
  BY <1>4, <1>6, <1>7, <1>8, <1>9

\* The steps of a call on its way to a run of its own.
LEMMA GreetDoes ==
  ASSUME BaseInv, NEW c \in Cs, Greet(c)
  PROVE  /\ calls[c].pc = "queued" /\ Turn(c)
         /\ ~calls[c].interrupted /\ ~calls'[c].interrupted
         /\ tasks[calls[c].task].status \notin Final
         /\ \A r : ~Has(live, calls[c].task, r)
         /\ CallSteps(c, "greeting", calls[c].run, calls[c].stream)
         /\ UNCHANGED <<tasks, live, streamOf, sessions, streams, evicted, askedBy, settled>>
<1>1. Goes(c, "greeting") /\ "greeting" \in Unfinished
  BY DEF Greet, Unfinished
<1>2. \A r : ~Has(live, calls[c].task, r)
  BY LiveRunIs DEF Greet, BaseInv, TypeInv
<1> QED
  BY <1>1, <1>2, GoesIs DEF Greet, Begins, MayRun

\* `working` is published and the lock, or a place in its line, is taken.
LEMMA AcquireDoes ==
  ASSUME BaseInv, NEW c \in Cs, Acquire(c)
  PROVE  /\ calls[c].pc = "greeting" /\ ~calls[c].interrupted /\ ~calls'[c].interrupted
         /\ \E pc \in {"waiting", "admitting"} : CallSteps(c, pc, calls[c].run, calls[c].stream)
         /\ TaskSteps(calls[c].task, Published(tasks[calls[c].task], "working"))
         /\ UNCHANGED <<live, streamOf, sessions, streams, evicted, askedBy, settled>>
<1> DEFINE t == calls[c].task
<1>1. \E pc \in {"waiting", "admitting"} : Goes(c, pc)
  BY DEF Acquire
<1>2. {"waiting", "admitting"} \subseteq Unfinished
  BY DEF Unfinished
<1>3. t \in Tasks /\ tasks[t] \in TaskInfo
  BY Facts
<1>4. "working" \in States
  BY DEF States
<1>5. Published(tasks[t], "working") \in TaskInfo
  BY <1>3, <1>4, PublishedIs
<1>6. TaskSteps(t, Published(tasks[t], "working"))
  BY <1>3, <1>5, TaskCell DEF Acquire
<1> QED
  BY <1>1, <1>2, <1>6, GoesIs DEF Acquire, MayRun

\* The lock is passed on.
LEMMA GetLockDoes ==
  ASSUME BaseInv, NEW c \in Cs, GetLock(c)
  PROVE  /\ calls[c].pc = "waiting" /\ ~calls[c].interrupted /\ ~calls'[c].interrupted
         /\ CallSteps(c, "admitting", calls[c].run, calls[c].stream)
         /\ UNCHANGED <<tasks, live, streamOf, sessions, streams, evicted, askedBy, settled>>
BY GoesIs DEF GetLock, MayRun, Unfinished

\* The victim leaves both tables, marked, and its close begins.
LEMMA EvictDoes ==
  ASSUME BaseInv, NEW c \in Cs, Evict(c)
  PROVE  /\ calls[c].pc = "admitting" /\ ~calls[c].interrupted /\ ~calls'[c].interrupted
         /\ \E pc \in {"admitting", "evicting"} :
              /\ CallSteps(c, pc, calls[c].run, calls[c].stream)
              /\ pc = "evicting" => calls'[c].victim \in Runs
         /\ \E u \in Tasks : \E r \in Runs :
              /\ Has(live, u, r) /\ LiveDrops(u) /\ StreamOfSteps(u, None)
              /\ Stopped(r) /\ evicted' = evicted \cup {r}
         /\ UNCHANGED <<tasks, streams, askedBy, settled>>
<1> DEFINE v == Victim
           s == sessions[v.run]
<1>1. /\ Has(live, v.task, v.run) /\ v.task \in Tasks /\ v.run \in Runs
  BY VictimIsLive DEF Evict, BaseInv, TypeInv, RangeInv, CallsInRange, TablesInRange, NoneInline
<1>2. LiveDrops(v.task)
  BY LiveCell DEF Evict
<1>3. StreamOfSteps(v.task, None)
  BY <1>1, StreamOfCell DEF Evict, None
<1>4. Fades(s, BeginClose(s)) /\ Leaving(BeginClose(s)) /\ BeginClose(s) \in Sessions
  BY <1>1, Facts, ClosingFades DEF Fades
<1>5. Stopped(v.run)
  <2>1. SessionSteps(v.run, BeginClose(s))
    BY <1>1, <1>4, SessionCell DEF Evict
  <2>2. sessions'[v.run] = BeginClose(s)
    BY <2>1 DEF SessionSteps
  <2> QED
    BY <1>4, <2>1, <2>2 DEF Stopped
<1>6. evicted' = evicted \cup {v.run} /\ ~calls[c].interrupted /\ calls[c].pc = "admitting"
  BY DEF Evict, MayRun
<1>7. UNCHANGED <<tasks, streams, askedBy, settled>>
  BY DEF Evict
<1>8. /\ ~calls'[c].interrupted
      /\ \E pc \in {"admitting", "evicting"} :
              /\ CallSteps(c, pc, calls[c].run, calls[c].stream)
              /\ pc = "evicting" => calls'[c].victim \in Runs
  <2>1. CASE calls' = calls
    BY <1>6, <2>1, CallStays
  <2>2. CASE calls' = [calls EXCEPT ![c].pc = "evicting", ![c].victim = v.run]
    <3> DEFINE x == [calls[c] EXCEPT !.pc = "evicting", !.victim = v.run]
    <3>1. calls[c] \in CallInfo
      BY Facts
    <3>2. v.run \in Nat
      BY <1>1, Facts DEF Runs
    <3>3. /\ x \in CallInfo /\ x.pc = "evicting" /\ x.task = calls[c].task
          /\ x.message = calls[c].message /\ x.echo = calls[c].echo
          /\ x.run = calls[c].run /\ x.stream = calls[c].stream
          /\ x.interrupted = calls[c].interrupted /\ x.victim = v.run
      BY <3>1, <3>2 DEF CallInfo, Unfinished
    <3>4. calls' = [calls EXCEPT ![c] = x]
      <4>1. \A d \in DOMAIN calls : calls'[d] = IF d = c THEN x ELSE calls[d]
        BY <2>2
      <4>2. DOMAIN calls' = DOMAIN calls
        BY <2>2
      <4> QED
        BY <2>2
    <3> HIDE DEF x, v
    <3>5. CallSteps(c, "evicting", calls[c].run, calls[c].stream) /\ calls'[c] = x
      BY <3>3, <3>4, CallCell
    <3> QED
      BY <1>1, <1>6, <3>3, <3>5
  <2> QED
    BY <2>1, <2>2 DEF Evict
<1> QED
  BY <1>1, <1>2, <1>3, <1>5, <1>6, <1>7, <1>8

\* A close that had begun goes on, or is left.
LEMMA AwaitVictimDoes ==
  ASSUME BaseInv, NEW c \in Cs, AwaitVictim(c)
  PROVE  /\ calls[c].pc = "evicting" /\ ~calls[c].interrupted /\ ~calls'[c].interrupted
         /\ \E pc \in {"admitting", "evicting"} :
              /\ CallSteps(c, pc, calls[c].run, calls[c].stream)
              /\ pc = "evicting" => calls'[c].victim \in Runs
         /\ \E r \in Runs : Stopped(r) /\ sessions[r].closer # "no"
         /\ UNCHANGED <<tasks, live, streamOf, streams, evicted, askedBy, settled>>
<1> DEFINE v == calls[c].victim
           s == sessions[v]
<1>1. calls[c].pc = "evicting" /\ ~calls[c].interrupted /\ v \in Runs /\ CloseGoesOn(s)
  BY DEF AwaitVictim, MayRun, BaseInv, RangeInv, CallsInRange, TablesInRange, NoneInline
<1>2. Fades(s, ContinueClose(s)) /\ Leaving(ContinueClose(s)) /\ ContinueClose(s) \in Sessions
  BY <1>1, Facts, ClosingFades DEF Fades
<1>3. Stopped(v)
  <2>1. SessionSteps(v, ContinueClose(s))
    BY <1>1, <1>2, SessionCell DEF AwaitVictim
  <2>2. sessions'[v] = ContinueClose(s)
    BY <2>1 DEF SessionSteps
  <2> QED
    BY <1>2, <2>1, <2>2 DEF Stopped
<1>4. s.closer # "no"
  BY <1>1 DEF CloseGoesOn
<1>5. UNCHANGED <<tasks, live, streamOf, streams, evicted, askedBy, settled>>
  BY DEF AwaitVictim
<1>6. /\ ~calls'[c].interrupted
      /\ \E pc \in {"admitting", "evicting"} :
              /\ CallSteps(c, pc, calls[c].run, calls[c].stream)
              /\ pc = "evicting" => calls'[c].victim \in Runs
  <2>1. CASE calls' = calls
    BY <1>1, <2>1, CallStays
  <2>2. CASE calls' = [calls EXCEPT ![c].pc = "admitting", ![c].victim = None]
    <3> DEFINE x == [calls[c] EXCEPT !.pc = "admitting", !.victim = None]
    <3>1. calls[c] \in CallInfo
      BY Facts
    <3>3. /\ x \in CallInfo /\ x.pc = "admitting" /\ x.task = calls[c].task
          /\ x.message = calls[c].message /\ x.echo = calls[c].echo
          /\ x.run = calls[c].run /\ x.stream = calls[c].stream
          /\ x.interrupted = calls[c].interrupted
      BY <3>1 DEF CallInfo, Unfinished, None
    <3>4. calls' = [calls EXCEPT ![c] = x]
      <4>1. \A d \in DOMAIN calls : calls'[d] = IF d = c THEN x ELSE calls[d]
        BY <2>2
      <4>2. DOMAIN calls' = DOMAIN calls
        BY <2>2
      <4> QED
        BY <2>2
    <3> HIDE DEF x, v
    <3>5. CallSteps(c, "admitting", calls[c].run, calls[c].stream) /\ calls'[c] = x
      BY <3>3, <3>4, CallCell
    <3> QED
      BY <1>1, <3>3, <3>5
  <2> QED
    BY <2>1, <2>2 DEF AwaitVictim
<1> QED
  BY <1>1, <1>3, <1>4, <1>5, <1>6

\* ... and so does a close on behalf of cancel.
LEMMA KeepClosingDoes ==
  ASSUME BaseInv, NEW r \in Runs, KeepClosing(r)
  PROVE  /\ Stopped(r) /\ sessions[r].closer # "no"
         /\ UNCHANGED <<tasks, calls, live, streamOf, streams, evicted, askedBy, settled>>
<1> DEFINE s == sessions[r]
<1>1. Fades(s, ContinueClose(s)) /\ Leaving(ContinueClose(s)) /\ ContinueClose(s) \in Sessions
  BY Facts, ClosingFades DEF Fades
<1>2. SessionSteps(r, ContinueClose(s))
  BY <1>1, SessionCell DEF KeepClosing
<1>3. sessions'[r] = ContinueClose(s)
  BY <1>2 DEF SessionSteps
<1>4. s.closer # "no"
  BY DEF KeepClosing, CloseGoesOn
<1> QED
  BY <1>1, <1>2, <1>3, <1>4 DEF Stopped, KeepClosing

\* A close that is cancelled leaves a run on its way out.
LEMMA InterruptCloseDoes ==
  ASSUME BaseInv, NEW r \in Runs, sessions' = [sessions EXCEPT ![r] = InterruptClose(@)]
  PROVE  Stopped(r)
<1> DEFINE s == sessions[r]
<1>1. Fades(s, InterruptClose(s)) /\ Leaving(InterruptClose(s)) /\ InterruptClose(s) \in Sessions
  BY Facts, ClosingFades DEF Fades
<1>2. SessionSteps(r, InterruptClose(s))
  BY <1>1, SessionCell
<1>3. sessions'[r] = InterruptClose(s)
  BY <1>2 DEF SessionSteps
<1> QED
  BY <1>1, <1>2, <1>3 DEF Stopped

\* A call cancelled as it closes its victim ...
LEMMA InterruptEvictingDoes ==
  ASSUME BaseInv, NEW c \in Cs, InterruptEvicting(c)
  PROVE  /\ calls[c].pc = "evicting" /\ calls[c].interrupted /\ ~calls'[c].interrupted
         /\ CallSteps(c, "dropped", calls[c].run, calls[c].stream)
         /\ \E r \in Runs : Stopped(r) /\ sessions[r].closer # "no"
         /\ TaskSteps(calls[c].task, [tasks[calls[c].task] EXCEPT !.open = FALSE])
         /\ UNCHANGED <<live, streamOf, streams, evicted, askedBy, settled>>
<1> DEFINE v == calls[c].victim
           t == calls[c].task
<1>1. v \in Runs /\ sessions[v].closer # "no"
  BY DEF InterruptEvicting, BaseInv, RangeInv, CallsInRange, TablesInRange, NoneInline
<1>2. Stopped(v)
  BY <1>1, InterruptCloseDoes DEF InterruptEvicting
<1>3. t \in Tasks /\ tasks[t] \in TaskInfo
  BY Facts
<1>4. [tasks[t] EXCEPT !.open = FALSE] \in TaskInfo
  BY <1>3 DEF TaskInfo
<1>5. TaskSteps(t, [tasks[t] EXCEPT !.open = FALSE])
  BY <1>3, <1>4, TaskCell DEF InterruptEvicting, QueueCloses
<1> QED
  BY <1>1, <1>2, <1>5, UnwindIs DEF InterruptEvicting, Unwind

\* ... or, joining, going on as if it had not been.
LEMMA SwallowCancelDoes ==
  ASSUME BaseInv, NEW c \in Cs, SwallowCancel(c)
  PROVE  /\ calls[c].pc = "evicting" /\ calls[c].interrupted /\ ~calls'[c].interrupted
         /\ CallSteps(c, "evicting", calls[c].run, calls[c].stream)
         /\ calls'[c].victim \in Runs
         /\ \E r \in Runs : Stopped(r) /\ sessions[r].closer # "no"
         /\ UNCHANGED <<tasks, live, streamOf, streams, evicted, askedBy, settled>>
<1> DEFINE v == calls[c].victim
           x == [calls[c] EXCEPT !.interrupted = FALSE]
<1>1. v \in Runs /\ sessions[v].closer # "no" /\ calls[c].pc = "evicting"
  BY DEF SwallowCancel, BaseInv, RangeInv, CallsInRange, TablesInRange, NoneInline
<1>2. Stopped(v)
  BY <1>1, InterruptCloseDoes DEF SwallowCancel
<1>3. calls[c] \in CallInfo
  BY Facts
<1>4. /\ x \in CallInfo /\ x.pc = "evicting" /\ x.task = calls[c].task
      /\ x.message = calls[c].message /\ x.echo = calls[c].echo
      /\ x.run = calls[c].run /\ x.stream = calls[c].stream
      /\ ~x.interrupted /\ x.victim = v
  BY <1>1, <1>3 DEF CallInfo
<1>5. calls' = [calls EXCEPT ![c] = x]
  BY DEF SwallowCancel
<1> HIDE DEF x
<1>6. CallSteps(c, "evicting", calls[c].run, calls[c].stream) /\ calls'[c] = x
  BY <1>1, <1>4, <1>5, CallCell
<1> QED
  BY <1>1, <1>2, <1>4, <1>6 DEF SwallowCancel

\* A run is started and registered.
LEMMA AdmitDoes ==
  ASSUME BaseInv, NEW c \in Cs, Admit(c)
  PROVE  LET t == calls[c].task
             r == Len(sessions) + 1
         IN  /\ calls[c].pc = "admitting" /\ ~calls[c].interrupted /\ ~calls'[c].interrupted
             /\ CallSteps(c, "draining", r, StreamFor(t))
             /\ sessions' \in Seq(Sessions) /\ Len(sessions') = r
             /\ sessions'[r] = NewSession
             /\ \A x \in Runs : sessions'[x] = sessions[x]
             /\ live' \in Seq(Entries) /\ Keyed(live')
             /\ \A u, x : Has(live', u, x)
                            <=> (u = t /\ x = r) \/ (u # t /\ Has(live, u, x))
             /\ HasStream(t)
             /\ UNCHANGED <<tasks, evicted, askedBy, settled>>
<1> DEFINE t == calls[c].task
           r == Len(sessions) + 1
           x == [calls[c] EXCEPT !.pc = "draining", !.run = r, !.stream = StreamFor(t)]
<1>1. /\ Len(sessions) \in Nat /\ Len(streams) \in Nat /\ t \in Tasks
      /\ calls[c] \in CallInfo /\ sessions \in Seq(Sessions) /\ streams \in Seq(StreamInfo)
  BY Facts DEF BaseInv, TypeInv
<1>2. HasStream(t)
  BY <1>1, StreamTaken DEF Admit
<1>3. /\ sessions' \in Seq(Sessions) /\ Len(sessions') = r
      /\ sessions'[r] = NewSession
      /\ \A y \in Runs : sessions'[y] = sessions[y]
  BY <1>1, NewSessionIs, AppendProperties DEF Admit, Runs
<1>4. /\ live' \in Seq(Entries) /\ Keyed(live')
      /\ \A u, y : Has(live', u, y) <=> (u = t /\ y = r) \/ (u # t /\ Has(live, u, y))
  <2>1. r \in Nat \ {None} /\ live \in Seq(Entries) /\ Keyed(live)
    BY <1>1 DEF None, BaseInv, TypeInv
  <2> HIDE DEF r
  <2>2. live' = Registered(live, t, r)
    BY DEF Admit, r
  <2> QED
    BY <1>1, <2>1, <2>2, RegisteredIs
<1>5. StreamFor(t) \in Nat
  BY <1>1 DEF StreamFor, BaseInv, TypeInv
<1>6. /\ x \in CallInfo /\ x.pc = "draining" /\ x.task = calls[c].task
      /\ x.message = calls[c].message /\ x.echo = calls[c].echo
      /\ x.run = r /\ x.stream = StreamFor(t)
      /\ x.interrupted = calls[c].interrupted
  <2>1. r \in Nat
    BY <1>1
  <2> QED
    BY <1>1, <1>5, <2>1 DEF CallInfo, Unfinished
<1>7. calls' = [calls EXCEPT ![c] = x]
  <2>1. \A d \in DOMAIN calls : calls'[d] = IF d = c THEN x ELSE calls[d]
    BY DEF Admit
  <2>2. DOMAIN calls' = DOMAIN calls
    BY DEF Admit
  <2> QED
    BY DEF Admit
<1> HIDE DEF x
<1>8. CallSteps(c, "draining", r, StreamFor(t)) /\ calls'[c] = x
  BY <1>6, <1>7, CallCell
<1> QED
  BY <1>2, <1>3, <1>4, <1>6, <1>8 DEF Admit, MayRun

\* An answer comes.
LEMMA RaiseDoes ==
  ASSUME BaseInv, NEW c \in Cs, Raise(c)
  PROVE  /\ calls[c].pc = "queued" /\ ~calls[c].interrupted /\ ~calls'[c].interrupted
         /\ CallSteps(c, "raised", calls[c].run, calls[c].stream)
         /\ UNCHANGED <<tasks, live, streamOf, sessions, streams, evicted, askedBy, settled>>
BY GoesIs DEF Raise, Begins, MayRun, Finished

\* A misdirected answer has the prompt of its task's stream published again.
LEMMA RefuseDoes ==
  ASSUME BaseInv, NEW c \in Cs, Refuse(c)
  PROVE  LET t == calls[c].task
         IN  /\ calls[c].pc = "queued" /\ ~calls[c].interrupted /\ ~calls'[c].interrupted
             /\ Turn(c) /\ tasks[t].status \notin Final
             /\ CallSteps(c, "refused", calls[c].run, calls[c].stream)
             /\ \E r \in Runs : Has(live, t, r) /\ IsParked(sessions[r])
             /\ streamOf[t] \in 1..Len(streams)
             /\ streams[streamOf[t]].asked # NoRequest
             /\ TaskSteps(t, Asked(tasks[t], streams[streamOf[t]].asked))
             /\ UNCHANGED <<live, streamOf, sessions, streams, evicted, askedBy, settled>>
<1> DEFINE t == calls[c].task
           q == streams[streamOf[t]].asked
<1>1. t \in Tasks /\ tasks[t] \in TaskInfo /\ Len(streams) \in Nat
  BY Facts
<1>2. streamOf[t] \in 1..Len(streams)
  BY <1>1 DEF Refuse, BaseInv, RangeInv, CallsInRange, TablesInRange, NoneInline, None
<1>3. q \in Requests \cup {NoRequest}
  BY <1>2, Facts
<1>4. TaskSteps(t, Asked(tasks[t], q))
  BY <1>1, <1>3, AskedIs, TaskCell DEF Refuse
<1>5. LiveRun(t) \in Runs /\ Has(live, t, LiveRun(t)) /\ IsParked(sessions[LiveRun(t)])
  BY LiveRunIs DEF Refuse, BaseInv, TypeInv, RangeInv, CallsInRange, TablesInRange, NoneInline
<1>6. q # NoRequest
  BY DEF Refuse, AnswersSomethingElse
<1>7. Goes(c, "refused") /\ "refused" \in Finished
  BY DEF Refuse, Finished
<1> QED
  BY <1>2, <1>4, <1>5, <1>6, <1>7, GoesIs DEF Refuse, Begins, MayRun

\* An answer goes to the run of its task, and to the stream it has then.
LEMMA AcceptDoes ==
  ASSUME BaseInv, NEW c \in Cs, Accept(c)
  PROVE  LET t == calls[c].task
         IN  /\ calls[c].pc = "queued" /\ ~calls[c].interrupted /\ ~calls'[c].interrupted
             /\ Turn(c) /\ tasks[t].status \notin Final
             /\ \E r \in Runs : /\ Has(live, t, r) /\ IsParked(sessions[r])
                                /\ CallSteps(c, "answering", r, streamOf[t])
             /\ streamOf[t] = None \/ ~AnswersSomethingElse(c, streamOf[t])
             /\ UNCHANGED <<tasks, live, streamOf, sessions, streams, evicted, askedBy, settled>>
<1> DEFINE t == calls[c].task
           r == LiveRun(t)
           x == [calls[c] EXCEPT !.pc = "answering", !.run = r, !.stream = streamOf[t]]
<1>1. /\ t \in Tasks /\ calls[c] \in CallInfo /\ Len(sessions) \in Nat
      /\ streamOf[t] \in Nat
  BY Facts DEF BaseInv, TypeInv
<1>2. r \in Runs /\ Has(live, t, r) /\ IsParked(sessions[r])
  BY LiveRunIs DEF Accept, BaseInv, TypeInv, RangeInv, CallsInRange, TablesInRange, NoneInline
<1>3. r \in Nat
  BY <1>1, <1>2 DEF Runs
<1> HIDE DEF r
<1>4. /\ x \in CallInfo /\ x.pc = "answering" /\ x.task = calls[c].task
      /\ x.message = calls[c].message /\ x.echo = calls[c].echo
      /\ x.run = r /\ x.stream = streamOf[t]
      /\ x.interrupted = calls[c].interrupted
  BY <1>1, <1>3 DEF CallInfo, Unfinished
<1>5. calls' = [calls EXCEPT ![c] = x]
  <2>1. \A d \in DOMAIN calls : calls'[d] = IF d = c THEN x ELSE calls[d]
    BY DEF Accept, r
  <2>2. DOMAIN calls' = DOMAIN calls
    BY DEF Accept
  <2> QED
    BY DEF Accept, r
<1> HIDE DEF x
<1>6. CallSteps(c, "answering", r, streamOf[t]) /\ calls'[c] = x
  BY <1>4, <1>5, CallCell
<1> QED
  BY <1>2, <1>4, <1>6 DEF Accept, Begins, MayRun

\* Publishing a state changes its own task only.
LEMMA TaskPublishes ==
  ASSUME BaseInv, NEW t \in Tasks, NEW state \in States,
         tasks' = [tasks EXCEPT ![t] = Published(@, state)]
  PROVE  TaskSteps(t, Published(tasks[t], state))
<1>1. tasks[t] \in TaskInfo
  BY Facts
<1>2. Published(tasks[t], state) \in TaskInfo
  BY <1>1, PublishedIs
<1> QED
  BY <1>2, TaskCell

\* The states, spelled out.
LEMMA StatesAre == {"none", "working", "input", "completed", "failed", "canceled"} = States
BY DEF States, Final

\* The places a call that has begun can be in, spelled out.
LEMMA PcsAre ==
  Unfinished \cup Finished
    = {"greeting", "waiting", "admitting", "evicting", "answering", "draining",
       "publishing", "closing", "completed", "failed", "evicted", "paused",
       "refused", "raised", "dropped"}
BY DEF Unfinished, Finished

\* The answer is applied, or its request is gone.
LEMMA SettleDoes ==
  ASSUME BaseInv, NEW c \in Cs, Settle(c)
  PROVE  LET t == calls[c].task
             r == calls[c].run
             q == sessions[r].lastRequest
         IN  /\ calls[c].pc = "answering" /\ ~calls[c].interrupted /\ ~calls'[c].interrupted
             /\ r \in Runs
             /\ TaskSteps(t, Published(tasks[t], "working"))
             /\ \/ /\ q \in sessions[r].pending /\ q \in Requests
                   /\ Worked(r) /\ sessions'[r].pending = sessions[r].pending \ {q}
                   /\ settled' \in [Requests -> Nat] /\ settled'[q] = c
                   /\ \A p \in Requests : p # q => settled'[p] = settled[p]
                   /\ HasStream(t)
                   /\ calls[c].stream # None
                        => calls[c].message \in streams'[calls[c].stream].answered
                   /\ CallSteps(c, "draining", r, StreamFor(t))
                \/ /\ q \notin sessions[r].pending
                   /\ CallSteps(c, "raised", r, calls[c].stream)
                   /\ UNCHANGED <<sessions, settled, streams, streamOf>>
             /\ UNCHANGED <<live, evicted, askedBy>>
<1> DEFINE t == calls[c].task
           r == calls[c].run
           q == sessions[r].lastRequest
           s == calls[c].stream
<1>1. calls[c].pc = "answering" /\ ~calls[c].interrupted
  BY DEF Settle, MayRun
<1>2. /\ r \in Runs /\ t \in Tasks /\ calls[c] \in CallInfo /\ Len(streams) \in Nat
      /\ sessions[r] \in Sessions /\ sessions[r].own = NoRequest
      /\ sessions[r].pending \subseteq Requests
      /\ streams \in Seq(StreamInfo)
      /\ \A k \in 1..Len(streams) : streams[k] \in StreamInfo
  BY <1>1, Facts DEF Attended, BaseInv, TypeInv
<1>3. TaskSteps(t, Published(tasks[t], "working"))
  BY <1>2, StatesAre, TaskPublishes DEF Settle
<1>4. UNCHANGED <<live, evicted, askedBy>>
  BY DEF Settle
<1>5. CASE q \in sessions[r].pending
  <2>1. q \in Requests
    BY <1>2, <1>5
  <2>2. Worked(r) /\ sessions'[r].pending = sessions[r].pending \ {q}
    <3>1. /\ Fades(sessions[r], Resolve(sessions[r], q))
          /\ Resolve(sessions[r], q).closer = sessions[r].closer
          /\ Resolve(sessions[r], q).runner = sessions[r].runner
          /\ Resolve(sessions[r], q).pending = sessions[r].pending \ {q}
      BY <1>2, PumpingFades
    <3>2. SessionSteps(r, Resolve(sessions[r], q))
      BY <1>2, <1>5, <3>1, SessionCell DEF Settle, Fades
    <3>3. sessions'[r] = Resolve(sessions[r], q)
      BY <3>2 DEF SessionSteps
    <3> QED
      BY <3>1, <3>2, <3>3 DEF Worked, Leaving, Alive
  <2>3. /\ settled' \in [Requests -> Nat] /\ settled'[q] = c
        /\ \A p \in Requests : p # q => settled'[p] = settled[p]
    <3>1. settled' = [settled EXCEPT ![q] = c] /\ c \in Nat
      BY <1>5, Facts DEF Settle, Cs
    <3> HIDE DEF q
    <3> QED
      BY <2>1, <3>1 DEF BaseInv, TypeInv
  <2>4. /\ HasStream(t)
        /\ s # None => calls[c].message \in streams'[s].answered
    <3>1. s \in 0..Len(streams)
      BY DEF BaseInv, RangeInv, CallsInRange, TablesInRange, NoneInline
    <3>2. calls[c].message \in Calls
      BY <1>2 DEF CallInfo
    <3>3. /\ Noted(c) \in Seq(StreamInfo) /\ Len(Noted(c)) = Len(streams)
          /\ \A k \in 1..Len(streams) : /\ Noted(c)[k].asked = streams[k].asked
                                        /\ streams[k].answered \subseteq Noted(c)[k].answered
          /\ s # None => calls[c].message \in Noted(c)[s].answered
      <4>1. CASE s = None
        BY <1>2, <4>1 DEF Noted
      <4>2. CASE s # None
        <5> DEFINE x == [streams[s] EXCEPT !.answered = @ \cup {calls[c].message}]
        <5>1. s \in 1..Len(streams)
          BY <1>2, <3>1, <4>2 DEF None
        <5>2. /\ x \in StreamInfo /\ x.asked = streams[s].asked
              /\ x.answered = streams[s].answered \cup {calls[c].message}
          BY <1>2, <3>2, <5>1 DEF StreamInfo
        <5>3. Noted(c) = [streams EXCEPT ![s] = x]
          BY <4>2 DEF Noted
        <5> HIDE DEF x
        <5>4. /\ Noted(c) \in Seq(StreamInfo) /\ Len(Noted(c)) = Len(streams)
              /\ \A k \in 1..Len(streams) : Noted(c)[k] = IF k = s THEN x ELSE streams[k]
          BY <1>2, <5>1, <5>2, <5>3, ExceptSeq
        <5> QED
          BY <5>1, <5>2, <5>4
      <4> QED
        BY <4>1, <4>2
    <3>4. streams' = WithStreamFor(t, Noted(c)) /\ streamOf' = [streamOf EXCEPT ![t] = StreamFor(t)]
      BY <1>5 DEF Settle
    <3>5. HasStream(t) /\ \A k \in 1..Len(streams) : streams'[k] = Noted(c)[k]
      BY <1>2, <3>3, <3>4, StreamTaken
    <3>6. s # None => s \in 1..Len(streams)
      BY <1>2, <3>1 DEF None
    <3> QED
      BY <3>3, <3>5, <3>6
  <2>5. CallSteps(c, "draining", r, StreamFor(t)) /\ ~calls'[c].interrupted
    <3> DEFINE x == [calls[c] EXCEPT !.pc = "draining", !.stream = StreamFor(t)]
    <3>1. StreamFor(t) \in Nat
      BY <1>2 DEF StreamFor, BaseInv, TypeInv
    <3>2. /\ x \in CallInfo /\ x.pc = "draining" /\ x.task = calls[c].task
          /\ x.message = calls[c].message /\ x.echo = calls[c].echo
          /\ x.run = r /\ x.stream = StreamFor(t)
          /\ x.interrupted = calls[c].interrupted
      BY <1>2, <3>1 DEF CallInfo, Unfinished
    <3>3. calls' = [calls EXCEPT ![c] = x]
      <4>1. \A d \in DOMAIN calls : calls'[d] = IF d = c THEN x ELSE calls[d]
        BY <1>5 DEF Settle
      <4>2. DOMAIN calls' = DOMAIN calls
        BY <1>5 DEF Settle
      <4> QED
        BY <1>5 DEF Settle
    <3> HIDE DEF x
    <3>4. CallSteps(c, "draining", r, StreamFor(t)) /\ calls'[c] = x
      BY <3>2, <3>3, CallCell
    <3> QED
      BY <1>1, <3>2, <3>4
  <2> QED
    BY <1>1, <1>2, <1>3, <1>4, <1>5, <2>1, <2>2, <2>3, <2>4, <2>5
<1>6. CASE q \notin sessions[r].pending
  <2>1. Goes(c, "raised") /\ UNCHANGED <<sessions, settled, streams, streamOf>>
    BY <1>6 DEF Settle
  <2>2. CallSteps(c, "raised", r, s) /\ ~calls'[c].interrupted
    BY <1>1, <2>1, GoesIs, PcsAre
  <2> QED
    BY <1>1, <1>2, <1>3, <1>4, <1>6, <2>1, <2>2
<1> QED
  BY <1>5, <1>6

\* What every step of _pump's loop finds.
LEMMA Draining ==
  ASSUME BaseInv, NEW c \in Cs, NEW kind, DrainsItem(c, kind)
  PROVE  LET r == calls[c].run
             s == sessions[r]
         IN  /\ calls[c].pc = "draining" /\ ~calls[c].interrupted
             /\ r \in Runs /\ calls[c].stream \in 1..Len(streams) /\ calls[c].task \in Tasks
             /\ s \in Sessions /\ s.own = NoRequest
             /\ s.queue # <<>> /\ s.queue \in Seq(Items) /\ Head(s.queue).kind = kind
BY Facts DEF DrainsItem, MayRun, Queue, Attended, Pumping

\* An output is taken and published.
LEMMA PumpOutputDoes ==
  ASSUME BaseInv, NEW c \in Cs, PumpOutput(c)
  PROVE  LET t == calls[c].task
             r == calls[c].run
         IN  /\ calls[c].pc = "draining" /\ ~calls[c].interrupted /\ r \in Runs
             /\ Worked(r) /\ sessions'[r].pending = sessions[r].pending
             /\ TaskSteps(t, Published(tasks[t], "working"))
             /\ UNCHANGED <<calls, live, streamOf, streams, evicted, askedBy, settled>>
<1> DEFINE r == calls[c].run
           s == sessions[r]
<1>1. DrainsItem(c, "output")
  BY DEF PumpOutput
<1>2. /\ Fades(s, Take(s)) /\ Take(s).closer = s.closer
      /\ Take(s).pending = s.pending /\ Take(s).runner = s.runner
  BY <1>1, Draining, PumpingFades
<1>3. SessionSteps(r, Take(s))
  BY <1>1, <1>2, Draining, SessionCell DEF PumpOutput, Fades
<1>4. sessions'[r] = Take(s)
  BY <1>3 DEF SessionSteps
<1>5. Worked(r)
  BY <1>2, <1>3, <1>4 DEF Worked, Leaving, Alive
<1>6. TaskSteps(calls[c].task, Published(tasks[calls[c].task], "working"))
  BY <1>1, Draining, StatesAre, TaskPublishes DEF PumpOutput
<1> QED
  BY <1>1, <1>2, <1>4, <1>5, <1>6, Draining DEF PumpOutput

\* A prompt is taken and kept as what the stream asks.
LEMMA PumpPromptDoes ==
  ASSUME BaseInv, NEW c \in Cs, PumpPrompt(c)
  PROVE  LET r == calls[c].run
             k == calls[c].stream
             q == Head(sessions[r].queue).id
         IN  /\ calls[c].pc = "draining" /\ ~calls[c].interrupted /\ ~calls'[c].interrupted
             /\ r \in Runs /\ k \in 1..Len(streams) /\ q \in Requests
             /\ Worked(r) /\ sessions'[r].pending = sessions[r].pending
             /\ Prompted(sessions[r].queue, q)
             /\ OnceEach(sessions[r].queue) => ~Prompted(sessions'[r].queue, q)
             /\ streams' \in Seq(StreamInfo) /\ Len(streams') = Len(streams)
             /\ streams'[k].asked = q /\ streams'[k].answered = streams[k].answered
             /\ \A x \in 1..Len(streams) : x # k => streams'[x] = streams[x]
             /\ CallSteps(c, "publishing", r, k)
             /\ UNCHANGED <<tasks, live, streamOf, evicted, askedBy, settled>>
<1> DEFINE r == calls[c].run
           s == sessions[r]
           k == calls[c].stream
           q == Head(s.queue).id
           x == [streams[k] EXCEPT !.asked = q]
<1>1. DrainsItem(c, "request")
  BY DEF PumpPrompt
<1>2. /\ Fades(s, Take(s)) /\ Take(s).closer = s.closer
      /\ Take(s).pending = s.pending /\ Take(s).runner = s.runner
      /\ Take(s).queue = Tail(s.queue)
  BY <1>1, Draining, PumpingFades
<1>3. SessionSteps(r, Take(s))
  BY <1>1, <1>2, Draining, SessionCell DEF PumpPrompt, Fades
<1>4. sessions'[r] = Take(s)
  BY <1>3 DEF SessionSteps
<1>5. Worked(r)
  BY <1>2, <1>3, <1>4 DEF Worked, Leaving, Alive
<1>6. /\ q \in Requests /\ Prompted(s.queue, q)
      /\ OnceEach(s.queue) => ~Prompted(Take(s).queue, q)
  BY SMTT(30), <1>1, <1>2, Draining, QueueTaken
<1>7. k \in 1..Len(streams) /\ streams[k] \in StreamInfo /\ streams \in Seq(StreamInfo)
  BY <1>1, Draining, Facts DEF BaseInv, TypeInv
<1>8. x \in StreamInfo /\ x.asked = q /\ x.answered = streams[k].answered
  BY <1>6, <1>7 DEF StreamInfo
<1>9. streams' = [streams EXCEPT ![k] = x]
  BY DEF PumpPrompt, Queue
<1> HIDE DEF x
<1>10. /\ streams' \in Seq(StreamInfo) /\ Len(streams') = Len(streams)
       /\ \A y \in 1..Len(streams) : streams'[y] = IF y = k THEN x ELSE streams[y]
  BY <1>7, <1>8, <1>9, ExceptSeq
<1>11. CallSteps(c, "publishing", r, k) /\ calls'[c].interrupted = calls[c].interrupted
  BY PcsAre, GoesIs DEF PumpPrompt
<1>12. UNCHANGED <<tasks, live, streamOf, evicted, askedBy, settled>>
  BY DEF PumpPrompt
<1>13. calls[c].pc = "draining" /\ ~calls[c].interrupted /\ r \in Runs
  BY <1>1, Draining
<1> QED
  BY <1>2, <1>4, <1>5, <1>6, <1>7, <1>8, <1>10, <1>11, <1>12, <1>13

\* Published, it is what the session is parked on.
LEMMA PumpPauseDoes ==
  ASSUME BaseInv, NEW c \in Cs, PumpPause(c)
  PROVE  LET t == calls[c].task
             r == calls[c].run
             q == streams[calls[c].stream].asked
         IN  /\ calls[c].pc = "publishing" /\ ~calls[c].interrupted /\ ~calls'[c].interrupted
             /\ r \in Runs /\ calls[c].stream \in 1..Len(streams)
             /\ SessionSteps(r, Park(sessions[r], q))
             /\ TaskSteps(t, Asked(tasks[t], q))
             /\ CallSteps(c, "paused", r, calls[c].stream)
             /\ UNCHANGED <<live, streamOf, streams, evicted, askedBy, settled>>
<1> DEFINE t == calls[c].task
           r == calls[c].run
           q == streams[calls[c].stream].asked
<1>1. calls[c].pc = "publishing" /\ ~calls[c].interrupted
  BY DEF PumpPause, MayRun
<1>2. /\ r \in Runs /\ calls[c].stream \in 1..Len(streams) /\ t \in Tasks
      /\ sessions[r] \in Sessions /\ tasks[t] \in TaskInfo
  BY <1>1, Facts DEF Attended, Pumping
<1>3. q \in Requests \cup {NoRequest}
  BY <1>2, Facts
<1>4. SessionSteps(r, Park(sessions[r], q))
  BY <1>2, <1>3, ParkIs, SessionCell DEF PumpPause
<1>5. TaskSteps(t, Asked(tasks[t], q))
  BY <1>2, <1>3, AskedIs, TaskCell DEF PumpPause
<1>6. CallSteps(c, "paused", r, calls[c].stream) /\ ~calls'[c].interrupted
  BY <1>1, PcsAre, GoesIs DEF PumpPause
<1> QED
  BY <1>1, <1>2, <1>4, <1>5, <1>6 DEF PumpPause

\* A failed run leaves both tables, and its task fails.
LEMMA PumpFailureDoes ==
  ASSUME BaseInv, NEW c \in Cs, PumpFailure(c)
  PROVE  LET t == calls[c].task
             r == calls[c].run
         IN  /\ calls[c].pc = "draining" /\ ~calls[c].interrupted /\ ~calls'[c].interrupted
             /\ r \in Runs /\ Over(sessions[r].queue)
             /\ Worked(r) /\ (Alive(sessions'[r]) <=> Alive(sessions[r]))
             /\ LiveDrops(t) /\ StreamOfSteps(t, None)
             /\ TaskSteps(t, Published(tasks[t], "failed"))
             /\ CallSteps(c, "failed", r, calls[c].stream)
             /\ UNCHANGED <<streams, evicted, askedBy, settled>>
<1> DEFINE t == calls[c].task
           r == calls[c].run
           s == sessions[r]
           s2 == ClearPending(End(s))
<1>1. DrainsItem(c, "error")
  BY DEF PumpFailure
<1>2. Fades(s, s2) /\ s2.closer = s.closer /\ s2.runner = s.runner
  BY <1>1, Draining, PumpingFades
<1>3. SessionSteps(r, s2)
  BY <1>1, <1>2, Draining, SessionCell DEF PumpFailure, Fades
<1>4. sessions'[r] = s2
  BY <1>3 DEF SessionSteps
<1>5. Worked(r) /\ (Alive(sessions'[r]) <=> Alive(s))
  BY <1>2, <1>3, <1>4 DEF Worked, Leaving, Alive
<1>6. TaskSteps(t, Published(tasks[t], "failed"))
  BY <1>1, Draining, StatesAre, TaskPublishes DEF PumpFailure
<1>7. LiveDrops(t)
  BY LiveCell DEF PumpFailure
<1>8. StreamOfSteps(t, None)
  BY <1>1, Draining, StreamOfCell DEF PumpFailure, None
<1>9. CallSteps(c, "failed", r, calls[c].stream) /\ calls'[c].interrupted = calls[c].interrupted
  BY PcsAre, GoesIs DEF PumpFailure
<1>10. calls[c].pc = "draining" /\ ~calls[c].interrupted /\ r \in Runs /\ Over(s.queue)
  BY <1>1, Draining, QueueTaken
<1> QED
  BY <1>5, <1>6, <1>7, <1>8, <1>9, <1>10 DEF PumpFailure

\* An evicted run's task fails.
LEMMA PumpEvictedDoes ==
  ASSUME BaseInv, NEW c \in Cs, PumpEvicted(c)
  PROVE  LET t == calls[c].task
             r == calls[c].run
         IN  /\ calls[c].pc = "draining" /\ ~calls[c].interrupted /\ ~calls'[c].interrupted
             /\ r \in Runs /\ r \in evicted /\ Worked(r)
             /\ TaskSteps(t, Published(tasks[t], "failed"))
             /\ CallSteps(c, "evicted", r, calls[c].stream)
             /\ UNCHANGED <<live, streamOf, streams, evicted, askedBy, settled>>
<1> DEFINE t == calls[c].task
           r == calls[c].run
           s == sessions[r]
<1>1. DrainsItem(c, "done")
  BY DEF PumpEvicted
<1>2. Fades(s, End(s)) /\ End(s).closer = s.closer /\ End(s).runner = s.runner
  BY <1>1, Draining, PumpingFades
<1>3. SessionSteps(r, End(s))
  BY <1>1, <1>2, Draining, SessionCell DEF PumpEvicted, Fades
<1>4. sessions'[r] = End(s)
  BY <1>3 DEF SessionSteps
<1>5. Worked(r)
  BY <1>2, <1>3, <1>4 DEF Worked, Leaving, Alive
<1>6. TaskSteps(t, Published(tasks[t], "failed"))
  BY <1>1, Draining, StatesAre, TaskPublishes DEF PumpEvicted
<1>7. CallSteps(c, "evicted", r, calls[c].stream) /\ calls'[c].interrupted = calls[c].interrupted
  BY PcsAre, GoesIs DEF PumpEvicted
<1>8. calls[c].pc = "draining" /\ ~calls[c].interrupted /\ r \in Runs
  BY <1>1, Draining
<1> QED
  BY <1>5, <1>6, <1>7, <1>8 DEF PumpEvicted

\* A run that ended otherwise has its last chunks published.
LEMMA PumpEndDoes ==
  ASSUME BaseInv, NEW c \in Cs, PumpEnd(c)
  PROVE  LET r == calls[c].run
         IN  /\ calls[c].pc = "draining" /\ ~calls[c].interrupted /\ ~calls'[c].interrupted
             /\ r \in Runs /\ r \notin evicted /\ Over(sessions[r].queue)
             /\ Worked(r) /\ sessions'[r].pending = sessions[r].pending
             /\ CallSteps(c, "closing", r, calls[c].stream)
             /\ UNCHANGED <<tasks, live, streamOf, streams, evicted, askedBy, settled>>
<1> DEFINE r == calls[c].run
           s == sessions[r]
<1>1. DrainsItem(c, "done")
  BY DEF PumpEnd
<1>2. /\ Fades(s, End(s)) /\ End(s).closer = s.closer /\ End(s).runner = s.runner
      /\ End(s).pending = s.pending
  BY <1>1, Draining, PumpingFades
<1>3. SessionSteps(r, End(s))
  BY <1>1, <1>2, Draining, SessionCell DEF PumpEnd, Fades
<1>4. sessions'[r] = End(s)
  BY <1>3 DEF SessionSteps
<1>5. Worked(r) /\ sessions'[r].pending = s.pending
  BY <1>2, <1>3, <1>4 DEF Worked, Leaving, Alive
<1>7. CallSteps(c, "closing", r, calls[c].stream) /\ calls'[c].interrupted = calls[c].interrupted
  BY PcsAre, GoesIs DEF PumpEnd
<1>8. calls[c].pc = "draining" /\ ~calls[c].interrupted /\ r \in Runs /\ Over(s.queue)
  BY <1>1, Draining, QueueTaken
<1> QED
  BY <1>5, <1>7, <1>8 DEF PumpEnd

\* Then it leaves both tables, and its task completes.
LEMMA CompleteDoes ==
  ASSUME BaseInv, NEW c \in Cs, Complete(c)
  PROVE  LET t == calls[c].task
             r == calls[c].run
         IN  /\ calls[c].pc = "closing" /\ ~calls[c].interrupted /\ ~calls'[c].interrupted
             /\ r \in Runs
             /\ Worked(r) /\ (Alive(sessions'[r]) <=> Alive(sessions[r]))
             /\ LiveDrops(t) /\ StreamOfSteps(t, None)
             /\ TaskSteps(t, Published(tasks[t], "completed"))
             /\ CallSteps(c, "completed", r, calls[c].stream)
             /\ UNCHANGED <<streams, evicted, askedBy, settled>>
<1> DEFINE t == calls[c].task
           r == calls[c].run
           s == sessions[r]
           s2 == ClearPending(s)
<1>1. calls[c].pc = "closing" /\ ~calls[c].interrupted
  BY DEF Complete, MayRun
<1>2. /\ r \in Runs /\ t \in Tasks
      /\ s \in Sessions /\ s.own = NoRequest
  BY <1>1, Facts DEF Attended, Pumping
<1>3. /\ Fades(s, s2) /\ s2.closer = s.closer
      /\ Leaving(s) => Leaving(s2)
      /\ Alive(s) <=> Alive(s2)
  BY <1>2, ClosingFades
<1>4. SessionSteps(r, s2)
  BY <1>2, <1>3, SessionCell DEF Complete, Fades
<1>5. sessions'[r] = s2
  BY <1>4 DEF SessionSteps
<1>6. Worked(r) /\ (Alive(sessions'[r]) <=> Alive(s))
  BY <1>3, <1>4, <1>5 DEF Worked
<1>7. TaskSteps(t, Published(tasks[t], "completed"))
  BY <1>2, StatesAre, TaskPublishes DEF Complete
<1>8. LiveDrops(t)
  BY LiveCell DEF Complete
<1>9. StreamOfSteps(t, None)
  BY <1>2, StreamOfCell DEF Complete, None
<1>10. CallSteps(c, "completed", r, calls[c].stream) /\ ~calls'[c].interrupted
  BY <1>1, PcsAre, GoesIs DEF Complete
<1> QED
  BY <1>1, <1>2, <1>6, <1>7, <1>8, <1>9, <1>10 DEF Complete

\* A close that begins puts the run on its way out.
LEMMA BeginCloseDoes ==
  ASSUME BaseInv, NEW r \in Runs, sessions' = [sessions EXCEPT ![r] = BeginClose(@)]
  PROVE  Stopped(r)
<1> DEFINE s == sessions[r]
<1>1. Fades(s, BeginClose(s)) /\ Leaving(BeginClose(s)) /\ BeginClose(s) \in Sessions
  BY Facts, ClosingFades DEF Fades
<1>2. SessionSteps(r, BeginClose(s))
  BY <1>1, SessionCell
<1>3. sessions'[r] = BeginClose(s)
  BY <1>2 DEF SessionSteps
<1> QED
  BY <1>1, <1>2, <1>3 DEF Stopped

\* The calls of a task that is cancelled.
CallsOfCancelled(t) ==
  /\ calls' \in Seq(CallInfo) /\ Len(calls') = Len(calls)
  /\ \A d \in Cs :
       /\ calls'[d].task = calls[d].task /\ calls'[d].message = calls[d].message
       /\ calls'[d].echo = calls[d].echo /\ calls'[d].run = calls[d].run
       /\ calls'[d].stream = calls[d].stream /\ calls'[d].victim = calls[d].victim
       /\ calls'[d].pc = IF calls[d].task = t /\ calls[d].pc = "queued"
                           THEN "dropped" ELSE calls[d].pc
       /\ calls'[d].interrupted = (InProgress(d, t) \/ calls[d].interrupted)

\* tasks/cancel: the calls at work are interrupted, those queued dropped;
\* both tables forget the task; the end is published, or left to a pump.
LEMMA CancelDoes ==
  ASSUME BaseInv, NEW t \in Tasks, Cancel(t)
  PROVE  /\ t \in Cancels /\ loop = Nobody
         /\ tasks[t].status \notin Final /\ ~tasks[t].cancelled
         /\ CallsOfCancelled(t)
         /\ LiveDrops(t) /\ StreamOfSteps(t, None)
         /\ \/ /\ \A r : ~Has(live, t, r)
               /\ sessions' = sessions
            \/ \E r \in Runs : Has(live, t, r) /\ Stopped(r)
         /\ TaskSteps(t, tasks'[t])
         /\ tasks'[t].cancelled
         /\ tasks'[t].open <=> \E c \in Cs : InProgress(c, t)
         /\ tasks[t].open => \/ tasks'[t].endings > 0
                             \/ \E r \in Runs : Has(live, t, r) /\ ~IsParked(sessions[r])
         /\ UNCHANGED <<loop, admission, streams, evicted, askedBy, settled>>
<1> DEFINE r == LiveRun(t)
           busy == \E c \in 1..Len(calls) : InProgress(c, t)
           reported == IF ReportsItself(r) THEN Published(tasks[t], "canceled") ELSE tasks[t]
           info == [reported EXCEPT !.open = busy, !.cancelled = TRUE]
<1>1. /\ t \in Cancels /\ loop = Nobody
      /\ tasks[t].status \notin Final /\ ~tasks[t].cancelled
      /\ UNCHANGED <<loop, admission, streams, evicted, askedBy, settled>>
  BY DEF Cancel
<1>2. LiveDrops(t) /\ StreamOfSteps(t, None)
  BY LiveCell, StreamOfCell DEF Cancel, None
<1>3. /\ r # None => r \in Runs /\ Has(live, t, r)
      /\ r = None => \A x : ~Has(live, t, x)
  BY LiveRunIs DEF BaseInv, TypeInv, RangeInv, CallsInRange, TablesInRange, NoneInline
<1>4. \/ /\ \A x : ~Has(live, t, x)
         /\ sessions' = sessions
      \/ \E x \in Runs : Has(live, t, x) /\ Stopped(x)
  <2>1. CASE r = None
    BY <1>3, <2>1 DEF Cancel
  <2>2. CASE r # None
    BY <1>3, <2>2, BeginCloseDoes DEF Cancel
  <2> QED
    BY <2>1, <2>2
<1>5. CallsOfCancelled(t)
  <2> DEFINE x(c) == IF InProgress(c, t)
                       THEN [calls[c] EXCEPT !.interrupted = TRUE]
                     ELSE IF calls[c].task = t /\ calls[c].pc = "queued"
                       THEN [calls[c] EXCEPT !.pc = "dropped"]
                     ELSE calls[c]
  <2>1. calls' = [c \in 1..Len(calls) |-> x(c)]
    BY DEF Cancel
  <2>2. ASSUME NEW d \in Cs
        PROVE  /\ x(d) \in CallInfo
               /\ x(d).task = calls[d].task /\ x(d).message = calls[d].message
               /\ x(d).echo = calls[d].echo /\ x(d).run = calls[d].run
               /\ x(d).stream = calls[d].stream /\ x(d).victim = calls[d].victim
               /\ x(d).pc = IF calls[d].task = t /\ calls[d].pc = "queued"
                              THEN "dropped" ELSE calls[d].pc
               /\ x(d).interrupted = (InProgress(d, t) \/ calls[d].interrupted)
    <3>1. calls[d] \in CallInfo
      BY Facts
    <3>2. CASE InProgress(d, t)
      BY <3>1, <3>2 DEF CallInfo, InProgress, Unfinished
    <3>3. CASE ~InProgress(d, t) /\ calls[d].task = t /\ calls[d].pc = "queued"
      BY <3>1, <3>3 DEF CallInfo, Finished
    <3>4. CASE ~InProgress(d, t) /\ ~(calls[d].task = t /\ calls[d].pc = "queued")
      BY <3>1, <3>4 DEF CallInfo
    <3> QED
      BY <3>2, <3>3, <3>4
  <2>3. Len(calls) \in Nat
    BY Facts
  <2> HIDE DEF x
  <2>4. calls' \in Seq(CallInfo) /\ Len(calls') = Len(calls) /\ \A d \in Cs : calls'[d] = x(d)
    BY <2>1, <2>2, <2>3, IsASeq DEF Cs
  <2> QED
    BY <2>2, <2>4 DEF CallsOfCancelled
<1>6. tasks[t] \in TaskInfo /\ reported \in TaskInfo
  BY Facts, StatesAre, PublishedIs
<1>7. /\ info \in TaskInfo /\ info.cancelled /\ (info.open <=> busy)
      /\ info.endings = reported.endings
  <2> HIDE DEF reported
  <2>1. busy \in BOOLEAN
    OBVIOUS
  <2> HIDE DEF busy
  <2> QED
    BY <1>6, <2>1 DEF TaskInfo
<1>8. tasks' = [tasks EXCEPT ![t] = info]
  BY DEF Cancel
<1>9. TaskSteps(t, info) /\ tasks'[t] = info
  <2> HIDE DEF info
  <2> QED
    BY <1>7, <1>8, TaskCell DEF TaskSteps
<1>10. ASSUME tasks[t].open
       PROVE  \/ info.endings > 0
              \/ \E x \in Runs : Has(live, t, x) /\ ~IsParked(sessions[x])
  <2>1. CASE ReportsItself(r)
    <3>1. reported = Published(tasks[t], "canceled")
      BY <2>1
    <3>2. "canceled" \in Final /\ "canceled" \in States
      BY DEF Final, States
    <3>3. reported.endings = tasks[t].endings + 1 /\ tasks[t].endings \in Nat
      BY <1>6, <1>10, <3>1, <3>2, PublishedIs
    <3> QED
      BY <1>7, <3>3
  <2>2. CASE ~ReportsItself(r)
    BY <1>3, <2>2 DEF ReportsItself
  <2> QED
    BY <2>1, <2>2
<1> HIDE DEF info
<1> QED
  BY <1>1, <1>2, <1>4, <1>5, <1>7, <1>9, <1>10 DEF Cs

\* Closing an event queue changes nothing of what was published.
LEMMA QueueClosesIs ==
  ASSUME BaseInv, NEW t \in Tasks, QueueCloses(t)
  PROVE  /\ TaskSteps(t, tasks'[t])
         /\ ~tasks'[t].open
         /\ tasks'[t].cancelled = tasks[t].cancelled
         /\ tasks'[t].endings = tasks[t].endings
<1> DEFINE info == [tasks[t] EXCEPT !.open = FALSE]
<1>1. tasks[t] \in TaskInfo
  BY Facts
<1>2. /\ info \in TaskInfo /\ ~info.open /\ info.cancelled = tasks[t].cancelled
      /\ info.endings = tasks[t].endings
  BY <1>1 DEF TaskInfo
<1>3. tasks' = [tasks EXCEPT ![t] = info]
  BY DEF QueueCloses
<1> HIDE DEF info
<1>4. TaskSteps(t, info) /\ tasks'[t] = info
  BY <1>2, <1>3, TaskCell DEF TaskSteps
<1> QED
  BY <1>2, <1>4

\* A call cancelled as it publishes, or as it waits for the lock, undoes
\* nothing.
LEMMA InterruptQuietDoes ==
  ASSUME BaseInv, NEW c \in Cs, InterruptPublishing(c) \/ InterruptWaiting(c)
  PROVE  LET t == calls[c].task
         IN  /\ calls[c].pc \in {"greeting", "answering", "closing", "waiting"}
             /\ calls[c].interrupted /\ ~calls'[c].interrupted
             /\ CallSteps(c, "dropped", calls[c].run, calls[c].stream)
             /\ QueueCloses(t)
             /\ UNCHANGED <<live, streamOf, sessions, streams, evicted, askedBy, settled>>
BY UnwindIs DEF InterruptPublishing, InterruptWaiting, Unwind

\* One cancelled in the loop of _pump drops its session and tells the end.
LEMMA InterruptPumpDoes ==
  ASSUME BaseInv, NEW c \in Cs, InterruptPump(c)
  PROVE  LET t == calls[c].task
             r == calls[c].run
         IN  /\ calls[c].pc \in {"draining", "publishing"}
             /\ calls[c].interrupted /\ ~calls'[c].interrupted
             /\ CallSteps(c, "dropped", r, calls[c].stream)
             /\ LiveDrops(t) /\ StreamOfSteps(t, None)
             /\ r \in Runs /\ Stopped(r) /\ sessions'[r].closer = sessions[r].closer
             /\ TaskSteps(t, tasks'[t])
             /\ ~tasks'[t].open
             /\ tasks'[t].cancelled = tasks[t].cancelled
             /\ tasks[t].open => tasks'[t].endings > 0
             /\ tasks'[t].endings >= tasks[t].endings
             /\ UNCHANGED <<streams, evicted, askedBy, settled>>
<1> DEFINE t == calls[c].task
           r == calls[c].run
           s == sessions[r]
           said == Published(tasks[t], "canceled")
           info == [said EXCEPT !.open = FALSE]
<1>1. /\ calls[c].pc \in {"draining", "publishing"}
      /\ calls[c].interrupted /\ ~calls'[c].interrupted
      /\ CallSteps(c, "dropped", r, calls[c].stream)
      /\ UNCHANGED <<streams, evicted, askedBy, settled>>
  BY UnwindIs DEF InterruptPump, Unwind
<1>2. /\ r \in Runs /\ t \in Tasks /\ s \in Sessions /\ s.own = NoRequest
      /\ tasks[t] \in TaskInfo
  BY <1>1, Facts DEF Attended, Pumping
<1>3. LiveDrops(t) /\ StreamOfSteps(t, None)
  BY <1>2, LiveCell, StreamOfCell DEF InterruptPump, None
<1>4. /\ Fades(s, CancelRunner(s)) /\ Leaving(CancelRunner(s))
      /\ CancelRunner(s).closer = s.closer
  BY <1>2, RunnerFades
<1>5. SessionSteps(r, CancelRunner(s))
  BY <1>2, <1>4, SessionCell DEF InterruptPump, Fades
<1>6. sessions'[r] = CancelRunner(s)
  BY <1>5 DEF SessionSteps
<1>7. "canceled" \in States /\ "canceled" \in Final
  BY DEF States, Final
<1>8. /\ said \in TaskInfo /\ said.cancelled = tasks[t].cancelled
      /\ tasks[t].endings \in Nat
      /\ tasks[t].open => said.endings = tasks[t].endings + 1
      /\ ~tasks[t].open => said.endings = tasks[t].endings
  BY <1>2, <1>7, PublishedIs
<1> HIDE DEF said
<1>9. /\ info \in TaskInfo /\ ~info.open /\ info.cancelled = said.cancelled
      /\ info.endings = said.endings
  BY <1>8 DEF TaskInfo
<1>10. tasks' = [tasks EXCEPT ![t] = info]
  BY DEF InterruptPump, said
<1> HIDE DEF info
<1>11. TaskSteps(t, info) /\ tasks'[t] = info
  BY <1>2, <1>9, <1>10, TaskCell DEF TaskSteps
<1>12. /\ tasks[t].open => info.endings > 0
       /\ info.endings >= tasks[t].endings
  BY <1>8, <1>9
<1> QED
  BY <1>1, <1>2, <1>3, <1>4, <1>5, <1>6, <1>8, <1>9, <1>11, <1>12 DEF Stopped

\* A run goes on or ends.
LEMMA RunnerDoes ==
  ASSUME BaseInv, NEW r \in Runs,
         Begin(r) \/ Register(r) \/ Speak(r) \/ Return(r) \/ Fail(r)
  PROVE  /\ Worked(r) /\ sessions'[r].pending = sessions[r].pending
         /\ UNCHANGED <<tasks, calls, live, streamOf, streams, evicted, askedBy, settled>>
<1> DEFINE s == sessions[r]
<1>1. s \in Sessions /\ s.own = NoRequest
  BY Facts
<1>2. PICK s2 : /\ Backend(r, s2) /\ s2 \in Sessions
                /\ Fades(s, s2) /\ s2.closer = s.closer /\ s2.pending = s.pending
                /\ Leaving(s) => Leaving(s2)
  <2>1. CASE Begin(r)
    BY <1>1, <2>1, RunnerFades DEF Begin, Fades
  <2>2. CASE Register(r)
    BY <1>1, <2>2, RunnerFades DEF Register, Fades
  <2>3. CASE Speak(r)
    BY <1>1, <2>3, SpeakingFades DEF Speak, Fades
  <2>4. CASE Return(r)
    BY <1>1, <2>4, SpeakingFades DEF Return, Fades
  <2>5. CASE Fail(r)
    BY <1>1, <2>5, SpeakingFades DEF Fail, Fades
  <2> QED
    BY <2>1, <2>2, <2>3, <2>4, <2>5
<1>3. SessionSteps(r, s2)
  BY <1>2, SessionCell DEF Backend
<1>4. sessions'[r] = s2
  BY <1>3 DEF SessionSteps
<1>5. Worked(r) /\ sessions'[r].pending = s.pending
  BY <1>2, <1>3, <1>4 DEF Worked
<1>6. askedBy' = askedBy
  BY DEF Begin, Register, Speak, Return, Fail
<1> QED
  BY <1>2, <1>5, <1>6 DEF Backend

\* A request is asked of a run that goes on, under a fresh id.
LEMMA AskPermissionDoes ==
  ASSUME BaseInv, NEW r \in Runs, NEW q \in Requests, AskPermission(r, q)
  PROVE  /\ SessionSteps(r, Ask(sessions[r], q)) /\ Alive(sessions[r])
         /\ askedBy[q] = None /\ askedBy' \in [Requests -> Nat] /\ askedBy'[q] = r
         /\ \A p \in Requests : p # q => askedBy'[p] = askedBy[p]
         /\ UNCHANGED <<tasks, calls, live, streamOf, streams, evicted, settled>>
<1> DEFINE s == sessions[r]
<1>1. s \in Sessions /\ Len(sessions) \in Nat
  BY Facts
<1>2. SessionSteps(r, Ask(s, q))
  BY <1>1, AskIs, SessionCell DEF AskPermission, Backend
<1>3. Alive(s)
  BY DEF AskPermission, Driving, Alive
<1>4. /\ askedBy[q] = None /\ askedBy' \in [Requests -> Nat] /\ askedBy'[q] = r
      /\ \A p \in Requests : p # q => askedBy'[p] = askedBy[p]
  BY <1>1 DEF AskPermission, Runs, BaseInv, TypeInv
<1> QED
  BY <1>2, <1>3, <1>4 DEF AskPermission, Backend

(***************************************************************************)
(* Types, and references to what exists.                                   *)
(***************************************************************************)
\* The types are kept.
LEMMA TypeStep ==
  ASSUME BaseInv, [Next]_vars
  PROVE  TypeInv'
<1>0. TypeInv /\ Len(sessions) \in Nat
  BY Facts DEF BaseInv
<1>1. ASSUME NEW t \in Tasks, Deliver(t) PROVE TypeInv'
  <2>1. /\ calls' \in Seq(CallInfo) /\ Len(calls') <= MaxCalls
        /\ UNCHANGED <<tasks, live, streamOf, sessions, streams, evicted, askedBy, settled>>
    BY <1>1, DeliverDoes
  <2> QED
    BY <1>0, <2>1 DEF TypeInv, Runs
<1>2. ASSUME NEW t \in Tasks, Cancel(t) PROVE TypeInv'
  <2>1. calls' \in Seq(CallInfo) /\ Len(calls') = Len(calls)
    BY <1>2, CancelDoes DEF CallsOfCancelled
  <2>2. LiveDrops(t) /\ StreamOfSteps(t, None) /\ TaskSteps(t, tasks'[t])
    BY <1>2, CancelDoes
  <2>3. sessions' \in Seq(Sessions) /\ Len(sessions') = Len(sessions)
    BY <1>0, <1>2, CancelDoes DEF Stopped, SessionSteps, TypeInv
  <2>4. UNCHANGED <<streams, evicted, askedBy, settled>>
    BY <1>2, CancelDoes
  <2> QED
    BY <1>0, <2>1, <2>2, <2>3, <2>4
    DEF TypeInv, Runs, LiveDrops, StreamOfSteps, TaskSteps
<1>3. ASSUME NEW c \in Cs, Execute(c) PROVE TypeInv'
  <2>1. CASE Greet(c)
    BY <2>1, GreetDoes, <1>0 DEF TypeInv, CallSteps, SessionSteps, Worked,
       Stopped, TaskSteps, LiveDrops, StreamOfSteps, HasStream,
       StreamsGrow, Runs
  <2>2. CASE Acquire(c)
    <3>1. calls' \in Seq(CallInfo) /\ Len(calls') = Len(calls)
      BY <2>2, AcquireDoes DEF CallSteps
    <3>2. tasks' \in [Tasks -> TaskInfo]
      BY <2>2, AcquireDoes DEF TaskSteps
    <3>3. UNCHANGED <<live, streamOf, sessions, streams, evicted, askedBy, settled>>
      BY <2>2, AcquireDoes
    <3> QED
      BY <1>0, <3>1, <3>2, <3>3 DEF TypeInv, Runs
  <2>3. CASE GetLock(c)
    BY <2>3, GetLockDoes, <1>0 DEF TypeInv, CallSteps, SessionSteps,
       Worked, Stopped, TaskSteps, LiveDrops, StreamOfSteps, HasStream,
       StreamsGrow, Runs
  <2>4. CASE Evict(c)
    <3>1. calls' \in Seq(CallInfo) /\ Len(calls') = Len(calls)
      BY <2>4, EvictDoes DEF CallSteps
    <3>2. PICK u \in Tasks, r \in Runs :
            LiveDrops(u) /\ StreamOfSteps(u, None) /\ Stopped(r) /\ evicted' = evicted \cup {r}
      BY <2>4, EvictDoes
    <3>3. UNCHANGED <<tasks, streams, askedBy, settled>>
      BY <2>4, EvictDoes
    <3> QED
      BY <1>0, <3>1, <3>2, <3>3
      DEF TypeInv, Runs, LiveDrops, StreamOfSteps, Stopped, SessionSteps
  <2>5. CASE AwaitVictim(c)
    BY <2>5, AwaitVictimDoes, <1>0 DEF TypeInv, CallSteps, SessionSteps,
       Worked, Stopped, TaskSteps, LiveDrops, StreamOfSteps, HasStream,
       StreamsGrow, Runs
  <2>6. CASE Admit(c)
    <3>1. calls' \in Seq(CallInfo) /\ Len(calls') = Len(calls)
      BY <2>6, AdmitDoes DEF CallSteps
    <3>2. /\ sessions' \in Seq(Sessions) /\ Len(sessions') = Len(sessions) + 1
          /\ live' \in Seq(Entries) /\ Keyed(live')
          /\ UNCHANGED <<tasks, evicted, askedBy, settled>>
      BY <2>6, AdmitDoes
    <3>3. streams' \in Seq(StreamInfo) /\ streamOf' \in [Tasks -> Nat]
      BY <2>6, AdmitDoes DEF HasStream, StreamsGrow, StreamOfSteps
    <3>4. evicted' \subseteq Runs'
      BY <1>0, <3>2 DEF TypeInv, Runs
    <3> QED
      BY <1>0, <3>1, <3>2, <3>3, <3>4 DEF TypeInv
  <2>7. CASE Raise(c)
    BY <2>7, RaiseDoes, <1>0 DEF TypeInv, CallSteps, SessionSteps, Worked,
       Stopped, TaskSteps, LiveDrops, StreamOfSteps, HasStream,
       StreamsGrow, Runs
  <2>8. CASE Refuse(c)
    BY <2>8, RefuseDoes, <1>0 DEF TypeInv, CallSteps, SessionSteps,
       Worked, Stopped, TaskSteps, LiveDrops, StreamOfSteps, HasStream,
       StreamsGrow, Runs
  <2>9. CASE Accept(c)
    BY <2>9, AcceptDoes, <1>0 DEF TypeInv, CallSteps, SessionSteps,
       Worked, Stopped, TaskSteps, LiveDrops, StreamOfSteps, HasStream,
       StreamsGrow, Runs
  <2>10. CASE Settle(c)
    BY <2>10, SettleDoes, <1>0 DEF TypeInv, CallSteps, SessionSteps,
       Worked, Stopped, TaskSteps, LiveDrops, StreamOfSteps, HasStream,
       StreamsGrow, Runs
  <2>11. CASE PumpOutput(c)
    BY <2>11, PumpOutputDoes, <1>0 DEF TypeInv, CallSteps, SessionSteps,
       Worked, Stopped, TaskSteps, LiveDrops, StreamOfSteps, HasStream,
       StreamsGrow, Runs
  <2>12. CASE PumpPrompt(c)
    BY ZenonT(60), <2>12, PumpPromptDoes, <1>0 DEF TypeInv, CallSteps, SessionSteps,
       Worked, Stopped, TaskSteps, LiveDrops, StreamOfSteps, HasStream,
       StreamsGrow, Runs
  <2>13. CASE PumpPause(c)
    BY <2>13, PumpPauseDoes, <1>0 DEF TypeInv, CallSteps, SessionSteps,
       Worked, Stopped, TaskSteps, LiveDrops, StreamOfSteps, HasStream,
       StreamsGrow, Runs
  <2>14. CASE PumpFailure(c)
    BY <2>14, PumpFailureDoes, <1>0 DEF TypeInv, CallSteps, SessionSteps,
       Worked, Stopped, TaskSteps, LiveDrops, StreamOfSteps, HasStream,
       StreamsGrow, Runs
  <2>15. CASE PumpEvicted(c)
    BY <2>15, PumpEvictedDoes, <1>0 DEF TypeInv, CallSteps, SessionSteps,
       Worked, Stopped, TaskSteps, LiveDrops, StreamOfSteps, HasStream,
       StreamsGrow, Runs
  <2>16. CASE PumpEnd(c)
    BY ZenonT(60), <2>16, PumpEndDoes, <1>0 DEF TypeInv, CallSteps, SessionSteps,
       Worked, Stopped, TaskSteps, LiveDrops, StreamOfSteps, HasStream,
       StreamsGrow, Runs
  <2>17. CASE Complete(c)
    BY <2>17, CompleteDoes, <1>0 DEF TypeInv, CallSteps, SessionSteps,
       Worked, Stopped, TaskSteps, LiveDrops, StreamOfSteps, HasStream,
       StreamsGrow, Runs
  <2> QED
    BY <1>3, <2>1, <2>2, <2>3, <2>4, <2>5, <2>6, <2>7, <2>8, <2>9, <2>10,
       <2>11, <2>12, <2>13, <2>14, <2>15, <2>16, <2>17 DEF Execute
<1>4. ASSUME NEW c \in Cs, Interrupt(c) PROVE TypeInv'
  <2>1. CASE InterruptPublishing(c) \/ InterruptWaiting(c)
    BY ZenonT(60), <2>1, InterruptQuietDoes, <1>0, QueueClosesIs, Facts DEF TypeInv,
       CallSteps, SessionSteps, Worked, Stopped, TaskSteps, LiveDrops,
       StreamOfSteps, HasStream, StreamsGrow, Runs
  <2>2. CASE InterruptEvicting(c)
    BY ZenonT(60), <2>2, InterruptEvictingDoes, <1>0 DEF TypeInv, CallSteps,
       SessionSteps, Worked, Stopped, TaskSteps, LiveDrops, StreamOfSteps,
       HasStream, StreamsGrow, Runs
  <2>3. CASE SwallowCancel(c)
    BY <2>3, SwallowCancelDoes, <1>0 DEF TypeInv, CallSteps, SessionSteps,
       Worked, Stopped, TaskSteps, LiveDrops, StreamOfSteps, HasStream,
       StreamsGrow, Runs
  <2>4. CASE InterruptPump(c)
    BY ZenonT(60), <2>4, InterruptPumpDoes, <1>0 DEF TypeInv, CallSteps, SessionSteps,
       Worked, Stopped, TaskSteps, LiveDrops, StreamOfSteps, HasStream,
       StreamsGrow, Runs
  <2> QED
    BY <1>4, <2>1, <2>2, <2>3, <2>4 DEF Interrupt
<1>5. ASSUME NEW r \in Runs, Run(r) PROVE TypeInv'
  <2>1. CASE Begin(r) \/ Register(r) \/ Speak(r) \/ Return(r) \/ Fail(r)
    BY <2>1, RunnerDoes, <1>0 DEF TypeInv, CallSteps, SessionSteps,
       Worked, Stopped, TaskSteps, LiveDrops, StreamOfSteps, HasStream,
       StreamsGrow, Runs
  <2>2. ASSUME NEW q \in Requests, AskPermission(r, q) PROVE TypeInv'
    BY <2>2, AskPermissionDoes, <1>0, AskIs DEF TypeInv, CallSteps,
       SessionSteps, Worked, Stopped, TaskSteps, LiveDrops, StreamOfSteps,
       HasStream, StreamsGrow, Runs
  <2> QED
    BY <1>5, <2>1, <2>2 DEF Run
<1>6. ASSUME NEW r \in Runs, KeepClosing(r) PROVE TypeInv'
  BY <1>6, KeepClosingDoes, <1>0 DEF TypeInv, CallSteps, SessionSteps,
     Worked, Stopped, TaskSteps, LiveDrops, StreamOfSteps, HasStream,
     StreamsGrow, Runs
<1>7. CASE UNCHANGED vars
  BY <1>7, <1>0 DEF vars, TypeInv, CallSteps, SessionSteps, Worked, Stopped,
     TaskSteps, LiveDrops, StreamOfSteps, HasStream, StreamsGrow, Runs
<1> QED
  BY <1>1, <1>2, <1>3, <1>4, <1>5, <1>6, <1>7 DEF Next, Cs

\* Nothing is removed.
NoneLost == /\ Len(calls') \in Nat /\ Len(calls') >= Len(calls)
            /\ Len(sessions') \in Nat /\ Len(sessions') >= Len(sessions)
            /\ Len(streams') \in Nat /\ Len(streams') >= Len(streams)

\* Calls, sessions and streams are never removed.
LEMMA NothingIsLost ==
  ASSUME BaseInv, [Next]_vars
  PROVE  NoneLost
<1>0. Len(sessions) \in Nat /\ Len(calls) \in Nat /\ Len(streams) \in Nat
  BY Facts
<1>1. ASSUME NEW t \in Tasks, Deliver(t) PROVE NoneLost
  <2>1. /\ Len(calls') = Len(calls) + 1
        /\ UNCHANGED <<sessions, streams>>
    BY <1>1, DeliverDoes
  <2> QED
    BY <1>0, <2>1 DEF NoneLost
<1>2. ASSUME NEW t \in Tasks, Cancel(t) PROVE NoneLost
  BY <1>2, CancelDoes, <1>0 DEF NoneLost, CallSteps, SessionSteps, Worked,
     Stopped, HasStream, StreamsGrow, CallsOfCancelled
<1>3. ASSUME NEW c \in Cs, Execute(c) PROVE NoneLost
  <2>1. CASE Greet(c)
    BY <2>1, GreetDoes, <1>0 DEF NoneLost, CallSteps, SessionSteps,
       Worked, Stopped, HasStream, StreamsGrow
  <2>2. CASE Acquire(c)
    BY <2>2, AcquireDoes, <1>0 DEF NoneLost, CallSteps, SessionSteps,
       Worked, Stopped, HasStream, StreamsGrow
  <2>3. CASE GetLock(c)
    BY <2>3, GetLockDoes, <1>0 DEF NoneLost, CallSteps, SessionSteps,
       Worked, Stopped, HasStream, StreamsGrow
  <2>4. CASE Evict(c)
    BY <2>4, EvictDoes, <1>0 DEF NoneLost, CallSteps, SessionSteps,
       Worked, Stopped, HasStream, StreamsGrow
  <2>5. CASE AwaitVictim(c)
    BY <2>5, AwaitVictimDoes, <1>0 DEF NoneLost, CallSteps, SessionSteps,
       Worked, Stopped, HasStream, StreamsGrow
  <2>6. CASE Admit(c)
    BY <2>6, AdmitDoes, <1>0 DEF NoneLost, CallSteps, SessionSteps,
       Worked, Stopped, HasStream, StreamsGrow
  <2>7. CASE Raise(c)
    BY <2>7, RaiseDoes, <1>0 DEF NoneLost, CallSteps, SessionSteps,
       Worked, Stopped, HasStream, StreamsGrow
  <2>8. CASE Refuse(c)
    BY <2>8, RefuseDoes, <1>0 DEF NoneLost, CallSteps, SessionSteps,
       Worked, Stopped, HasStream, StreamsGrow
  <2>9. CASE Accept(c)
    BY <2>9, AcceptDoes, <1>0 DEF NoneLost, CallSteps, SessionSteps,
       Worked, Stopped, HasStream, StreamsGrow
  <2>10. CASE Settle(c)
    BY <2>10, SettleDoes, <1>0 DEF NoneLost, CallSteps, SessionSteps,
       Worked, Stopped, HasStream, StreamsGrow
  <2>11. CASE PumpOutput(c)
    BY <2>11, PumpOutputDoes, <1>0 DEF NoneLost, CallSteps, SessionSteps,
       Worked, Stopped, HasStream, StreamsGrow
  <2>12. CASE PumpPrompt(c)
    BY <2>12, PumpPromptDoes, <1>0 DEF NoneLost, CallSteps, SessionSteps,
       Worked, Stopped, HasStream, StreamsGrow
  <2>13. CASE PumpPause(c)
    BY <2>13, PumpPauseDoes, <1>0 DEF NoneLost, CallSteps, SessionSteps,
       Worked, Stopped, HasStream, StreamsGrow
  <2>14. CASE PumpFailure(c)
    BY <2>14, PumpFailureDoes, <1>0 DEF NoneLost, CallSteps, SessionSteps,
       Worked, Stopped, HasStream, StreamsGrow
  <2>15. CASE PumpEvicted(c)
    BY <2>15, PumpEvictedDoes, <1>0 DEF NoneLost, CallSteps, SessionSteps,
       Worked, Stopped, HasStream, StreamsGrow
  <2>16. CASE PumpEnd(c)
    BY <2>16, PumpEndDoes, <1>0 DEF NoneLost, CallSteps, SessionSteps,
       Worked, Stopped, HasStream, StreamsGrow
  <2>17. CASE Complete(c)
    BY <2>17, CompleteDoes, <1>0 DEF NoneLost, CallSteps, SessionSteps,
       Worked, Stopped, HasStream, StreamsGrow
  <2> QED
    BY <1>3, <2>1, <2>2, <2>3, <2>4, <2>5, <2>6, <2>7, <2>8, <2>9, <2>10,
       <2>11, <2>12, <2>13, <2>14, <2>15, <2>16, <2>17 DEF Execute
<1>4. ASSUME NEW c \in Cs, Interrupt(c) PROVE NoneLost
  <2>1. CASE InterruptPublishing(c) \/ InterruptWaiting(c)
    BY <2>1, InterruptQuietDoes, <1>0 DEF NoneLost, CallSteps,
       SessionSteps, Worked, Stopped, HasStream, StreamsGrow
  <2>2. CASE InterruptEvicting(c)
    <3>1. /\ Len(calls') = Len(calls)
          /\ streams' = streams
      BY <2>2, InterruptEvictingDoes DEF CallSteps
    <3>2. Len(sessions') = Len(sessions)
      BY <2>2, InterruptEvictingDoes DEF Stopped, SessionSteps
    <3> QED
      BY <1>0, <3>1, <3>2 DEF NoneLost
  <2>3. CASE SwallowCancel(c)
    BY <2>3, SwallowCancelDoes, <1>0 DEF NoneLost, CallSteps,
       SessionSteps, Worked, Stopped, HasStream, StreamsGrow
  <2>4. CASE InterruptPump(c)
    BY <2>4, InterruptPumpDoes, <1>0 DEF NoneLost, CallSteps,
       SessionSteps, Worked, Stopped, HasStream, StreamsGrow
  <2> QED
    BY <1>4, <2>1, <2>2, <2>3, <2>4 DEF Interrupt
<1>5. ASSUME NEW r \in Runs, Run(r) PROVE NoneLost
  <2>1. CASE Begin(r) \/ Register(r) \/ Speak(r) \/ Return(r) \/ Fail(r)
    BY <2>1, RunnerDoes, <1>0 DEF NoneLost, CallSteps, SessionSteps,
       Worked, Stopped, HasStream, StreamsGrow
  <2>2. ASSUME NEW q \in Requests, AskPermission(r, q) PROVE NoneLost
    BY <2>2, AskPermissionDoes, <1>0 DEF NoneLost, CallSteps,
       SessionSteps, Worked, Stopped, HasStream, StreamsGrow
  <2> QED
    BY <1>5, <2>1, <2>2 DEF Run
<1>6. ASSUME NEW r \in Runs, KeepClosing(r) PROVE NoneLost
  BY <1>6, KeepClosingDoes, <1>0 DEF NoneLost, CallSteps, SessionSteps,
     Worked, Stopped, HasStream, StreamsGrow
<1>7. CASE UNCHANGED vars
  BY <1>7, <1>0 DEF vars, NoneLost, CallSteps, SessionSteps, Worked,
     Stopped, HasStream, StreamsGrow
<1> QED
  BY <1>1, <1>2, <1>3, <1>4, <1>5, <1>6, <1>7 DEF Next, Cs

\* A call that changes stays in range if its new values are.
LEMMA CallInRange ==
  ASSUME BaseInv, NoneLost, NEW c \in Cs, NEW pc, NEW run, NEW stream,
         CallSteps(c, pc, run, stream),
         run \in 0..Len(sessions'), stream \in 0..Len(streams'),
         pc \in {"queued", "refused"} \cup Entering => run = None,
         pc \in Attended => run # None,
         pc \in Pumping => stream # None,
         pc = "evicting" => calls'[c].victim \in Runs'
  PROVE  CallsInRange'
<1>1. CallsInRange /\ Len(sessions) \in Nat /\ Len(streams) \in Nat /\ Len(calls) \in Nat
  BY Facts DEF BaseInv, RangeInv
<1>2. Len(calls') = Len(calls)
  BY DEF CallSteps
<1> SUFFICES ASSUME NEW d \in Cs
             PROVE  /\ calls'[d].run \in 0..Len(sessions')
                    /\ calls'[d].stream \in 0..Len(streams')
                    /\ calls'[d].pc \in {"queued", "refused"} \cup Entering
                         => calls'[d].run = None
                    /\ calls'[d].pc \in Attended => calls'[d].run # None
                    /\ calls'[d].pc \in Pumping => calls'[d].stream # None
                    /\ calls'[d].pc = "evicting" => calls'[d].victim \in Runs'
                    /\ calls'[d].message <= d
  BY <1>2 DEF CallsInRange, Cs
<1>3. CASE d # c
  <2>1. calls'[d] = calls[d]
    BY <1>3 DEF CallSteps
  <2> QED
    BY <1>1, <2>1 DEF CallsInRange, NoneLost, Runs
<1>4. CASE d = c
  BY <1>1, <1>4 DEF CallSteps, CallsInRange
<1> QED
  BY <1>3, <1>4

\* Of a call that stays with its run, only the progress matters.
Onward(p, pc) ==
  /\ pc \in {"queued", "refused"} \cup Entering => p \in {"queued", "refused"} \cup Entering
  /\ pc \in Attended => p \in Attended
  /\ pc \in Pumping => p \in Pumping

\* The ways through execute that keep it so.
LEMMA OnwardIs ==
  /\ Onward("queued", "greeting") /\ Onward("queued", "refused")
  /\ Onward("greeting", "waiting") /\ Onward("greeting", "admitting")
  /\ Onward("waiting", "admitting") /\ Onward("admitting", "admitting")
  /\ Onward("admitting", "evicting") /\ Onward("evicting", "admitting")
  /\ Onward("evicting", "evicting")
  /\ Onward("draining", "publishing") /\ Onward("draining", "closing")
  /\ \A p : \A pc \in Finished \ {"refused"} : Onward(p, pc)
BY DEF Onward, Entering, Attended, Pumping, Finished

\* A call that keeps its run and its stream on such a way.
LEMMA CallStaysInRange ==
  ASSUME BaseInv, NoneLost, NEW c \in Cs, NEW pc,
         CallSteps(c, pc, calls[c].run, calls[c].stream),
         Onward(calls[c].pc, pc),
         pc = "evicting" => calls'[c].victim \in Runs'
  PROVE  CallsInRange'
<1>1. CallsInRange /\ Len(sessions) \in Nat /\ Len(streams) \in Nat
  BY Facts DEF BaseInv, RangeInv
<1>2. calls[c].run \in 0..Len(sessions') /\ calls[c].stream \in 0..Len(streams')
  BY <1>1 DEF CallsInRange, NoneLost
<1>3. /\ pc \in {"queued", "refused"} \cup Entering => calls[c].run = None
      /\ pc \in Attended => calls[c].run # None
      /\ pc \in Pumping => calls[c].stream # None
  BY <1>1 DEF CallsInRange, Onward
<1> QED
  BY <1>2, <1>3, CallInRange

\* Calls that do not change stay in range.
LEMMA CallsStayInRange ==
  ASSUME BaseInv, NoneLost, calls' = calls
  PROVE  CallsInRange'
<1>1. CallsInRange /\ Len(sessions) \in Nat /\ Len(streams) \in Nat
  BY Facts DEF BaseInv, RangeInv
<1> QED
  BY <1>1 DEF CallsInRange, NoneLost, Runs, Cs

\* The calls refer to sessions and streams that exist.
LEMMA CallsStep ==
  ASSUME BaseInv, [Next]_vars
  PROVE  CallsInRange'
<1>0. NoneLost /\ CallsInRange /\ Len(sessions) \in Nat /\ Len(streams) \in Nat
      /\ \A r \in Runs : r \in Runs'
  <2>1. NoneLost
    BY NothingIsLost
  <2> QED
    BY <2>1, Facts DEF BaseInv, RangeInv, NoneLost, Runs
<1>1. ASSUME NEW t \in Tasks, Deliver(t) PROVE CallsInRange'
  <2> DEFINE n == Len(calls) + 1
  <2>1. /\ Len(calls') = n
        /\ \A d \in Cs : calls'[d] = calls[d]
        /\ calls'[n].pc = "queued" /\ calls'[n].run = None /\ calls'[n].stream = None
        /\ \/ calls'[n].message = n
           \/ \E d \in Cs : calls'[n].message = calls[d].message
    BY <1>1, DeliverDoes
  <2>2. Len(calls) \in Nat /\ \A d \in Cs : calls[d].message \in Nat
    BY Facts
  <2>3. calls'[n].message <= n
    BY <1>0, <2>1, <2>2 DEF CallsInRange, Cs
  <2> HIDE DEF n
  <2>4. \A d \in 1..Len(calls') : d \in Cs \/ d = n
    BY <2>1, <2>2 DEF Cs, n
  <2>5. 0 \in 0..Len(sessions') /\ 0 \in 0..Len(streams')
    BY <1>0 DEF NoneLost
  <2>6. \A d \in 1..Len(calls') :
          /\ calls'[d].run \in 0..Len(sessions')
          /\ calls'[d].stream \in 0..Len(streams')
          /\ calls'[d].pc \in {"queued", "refused"} \cup Entering => calls'[d].run = None
          /\ calls'[d].pc \in Attended => calls'[d].run # None
          /\ calls'[d].pc \in Pumping => calls'[d].stream # None
          /\ calls'[d].pc = "evicting" => calls'[d].victim \in Runs'
          /\ calls'[d].message <= d
    BY <1>0, <2>1, <2>3, <2>4, <2>5
    DEF CallsInRange, NoneLost, None, Entering, Attended, Pumping
  <2> QED
    BY <2>6 DEF CallsInRange, Cs
<1>2. ASSUME NEW t \in Tasks, Cancel(t) PROVE CallsInRange'
  <2>1. CallsOfCancelled(t)
    BY <1>2, CancelDoes
  <2>2. \A d \in 1..Len(calls') :
          /\ calls'[d].run \in 0..Len(sessions')
          /\ calls'[d].stream \in 0..Len(streams')
          /\ calls'[d].pc \in {"queued", "refused"} \cup Entering => calls'[d].run = None
          /\ calls'[d].pc \in Attended => calls'[d].run # None
          /\ calls'[d].pc \in Pumping => calls'[d].stream # None
          /\ calls'[d].pc = "evicting" => calls'[d].victim \in Runs'
          /\ calls'[d].message <= d
    BY <1>0, <2>1
    DEF CallsOfCancelled, CallsInRange, Cs, NoneLost, Entering, Attended, Pumping
  <2> QED
    BY <2>2 DEF CallsInRange, Cs
<1>3. ASSUME NEW c \in Cs, Execute(c) PROVE CallsInRange'
  <2>1. CASE Greet(c)
    <3>1. CallSteps(c, "greeting", calls[c].run, calls[c].stream) /\ calls[c].pc = "queued"
      BY <2>1, GreetDoes
    <3>2. Onward(calls[c].pc, "greeting")
      BY <3>1, OnwardIs DEF Finished
    <3> QED
      BY <1>0, <3>1, <3>2, CallStaysInRange
  <2>2. CASE Acquire(c)
    <3>1. PICK pc \in {"waiting", "admitting"} : CallSteps(c, pc, calls[c].run, calls[c].stream)
      BY <2>2, AcquireDoes
    <3>2. calls[c].pc = "greeting"
      BY <2>2, AcquireDoes
    <3>3. Onward(calls[c].pc, pc)
      BY <3>2, OnwardIs
    <3> QED
      BY <1>0, <3>1, <3>3, CallStaysInRange
  <2>3. CASE GetLock(c)
    <3>1. CallSteps(c, "admitting", calls[c].run, calls[c].stream) /\ calls[c].pc = "waiting"
      BY <2>3, GetLockDoes
    <3>2. Onward(calls[c].pc, "admitting")
      BY <3>1, OnwardIs DEF Finished
    <3> QED
      BY <1>0, <3>1, <3>2, CallStaysInRange
  <2>4. CASE Evict(c)
    <3>1. PICK pc \in {"admitting", "evicting"} :
            /\ CallSteps(c, pc, calls[c].run, calls[c].stream)
            /\ pc = "evicting" => calls'[c].victim \in Runs
      BY <2>4, EvictDoes
    <3>2. calls[c].pc \in {"admitting", "evicting"}
      BY <2>4, EvictDoes
    <3>3. Onward(calls[c].pc, pc)
      BY <3>2, OnwardIs
    <3> QED
      BY <1>0, <3>1, <3>3, CallStaysInRange
  <2>5. CASE AwaitVictim(c)
    <3>1. PICK pc \in {"admitting", "evicting"} :
            /\ CallSteps(c, pc, calls[c].run, calls[c].stream)
            /\ pc = "evicting" => calls'[c].victim \in Runs
      BY <2>5, AwaitVictimDoes
    <3>2. calls[c].pc \in {"admitting", "evicting"}
      BY <2>5, AwaitVictimDoes
    <3>3. Onward(calls[c].pc, pc)
      BY <3>2, OnwardIs
    <3> QED
      BY <1>0, <3>1, <3>3, CallStaysInRange
  <2>6. CASE Admit(c)
    <3> DEFINE r == Len(sessions) + 1
               s == StreamFor(calls[c].task)
    <3>1. CallSteps(c, "draining", r, s) /\ Len(sessions') = r /\ s \in 1..Len(streams')
      BY <2>6, AdmitDoes DEF HasStream
    <3>2. r \in 0..Len(sessions') /\ r # None /\ s \in 0..Len(streams') /\ s # None
      BY <1>0, <3>1 DEF NoneLost, None
    <3> HIDE DEF r, s
    <3> QED
      BY <1>0, <3>1, <3>2, CallInRange DEF Entering, Attended, Pumping
  <2>7. CASE Raise(c)
    <3>1. CallSteps(c, "raised", calls[c].run, calls[c].stream) /\ calls[c].pc = "queued"
      BY <2>7, RaiseDoes
    <3>2. Onward(calls[c].pc, "raised")
      BY <3>1, OnwardIs DEF Finished
    <3> QED
      BY <1>0, <3>1, <3>2, CallStaysInRange
  <2>8. CASE Refuse(c)
    <3>1. CallSteps(c, "refused", calls[c].run, calls[c].stream) /\ calls[c].pc = "queued"
      BY <2>8, RefuseDoes
    <3>2. Onward(calls[c].pc, "refused")
      BY <3>1, OnwardIs DEF Finished
    <3> QED
      BY <1>0, <3>1, <3>2, CallStaysInRange
  <2>9. CASE Accept(c)
    <3> DEFINE s == streamOf[calls[c].task]
    <3>1. PICK r \in Runs : CallSteps(c, "answering", r, s)
      BY <2>9, AcceptDoes
    <3>2. r \in 0..Len(sessions') /\ r # None
      BY <1>0 DEF NoneLost, None, Runs
    <3>3. calls[c].task \in Tasks
      BY Facts
    <3>4. s \in 0..Len(streams')
      BY <1>0, <3>3 DEF NoneLost, BaseInv, RangeInv, TablesInRange
    <3> HIDE DEF s
    <3> QED
      BY <1>0, <3>1, <3>2, <3>4, CallInRange DEF Entering, Attended, Pumping
  <2>10. CASE Settle(c)
    <3> DEFINE r == calls[c].run
               s == StreamFor(calls[c].task)
    <3>1. r \in Runs /\ calls[c].pc = "answering"
      BY <2>10, SettleDoes
    <3>2. r \in 0..Len(sessions') /\ r # None
      BY <1>0, <3>1 DEF NoneLost, None, Runs
    <3>3. CASE CallSteps(c, "raised", r, calls[c].stream)
      <4>1. Onward(calls[c].pc, "raised")
        BY OnwardIs DEF Finished
      <4> QED
        BY <1>0, <3>3, <4>1, CallStaysInRange
    <3>4. CASE HasStream(calls[c].task) /\ CallSteps(c, "draining", r, s)
      <4>1. s \in 0..Len(streams') /\ s # None
        BY <1>0, <3>4 DEF HasStream, NoneLost, None
      <4> HIDE DEF r, s
      <4> QED
        BY <1>0, <3>2, <3>4, <4>1, CallInRange DEF Entering, Attended, Pumping
    <3> QED
      BY <2>10, <3>3, <3>4, SettleDoes
  <2>11. CASE PumpOutput(c)
    BY <2>11, PumpOutputDoes, <1>0, CallsStayInRange
  <2>12. CASE PumpPrompt(c)
    <3>1. CallSteps(c, "publishing", calls[c].run, calls[c].stream) /\ calls[c].pc = "draining"
      BY <2>12, PumpPromptDoes
    <3>2. Onward(calls[c].pc, "publishing")
      BY <3>1, OnwardIs DEF Finished
    <3> QED
      BY <1>0, <3>1, <3>2, CallStaysInRange
  <2>13. CASE PumpPause(c)
    <3>1. CallSteps(c, "paused", calls[c].run, calls[c].stream) /\ calls[c].pc = "publishing"
      BY <2>13, PumpPauseDoes
    <3>2. Onward(calls[c].pc, "paused")
      BY <3>1, OnwardIs DEF Finished
    <3> QED
      BY <1>0, <3>1, <3>2, CallStaysInRange
  <2>14. CASE PumpFailure(c)
    <3>1. CallSteps(c, "failed", calls[c].run, calls[c].stream) /\ calls[c].pc = "draining"
      BY <2>14, PumpFailureDoes
    <3>2. Onward(calls[c].pc, "failed")
      BY <3>1, OnwardIs DEF Finished
    <3> QED
      BY <1>0, <3>1, <3>2, CallStaysInRange
  <2>15. CASE PumpEvicted(c)
    <3>1. CallSteps(c, "evicted", calls[c].run, calls[c].stream) /\ calls[c].pc = "draining"
      BY <2>15, PumpEvictedDoes
    <3>2. Onward(calls[c].pc, "evicted")
      BY <3>1, OnwardIs DEF Finished
    <3> QED
      BY <1>0, <3>1, <3>2, CallStaysInRange
  <2>16. CASE PumpEnd(c)
    <3>1. CallSteps(c, "closing", calls[c].run, calls[c].stream) /\ calls[c].pc = "draining"
      BY <2>16, PumpEndDoes
    <3>2. Onward(calls[c].pc, "closing")
      BY <3>1, OnwardIs DEF Finished
    <3> QED
      BY <1>0, <3>1, <3>2, CallStaysInRange
  <2>17. CASE Complete(c)
    <3>1. CallSteps(c, "completed", calls[c].run, calls[c].stream) /\ calls[c].pc = "closing"
      BY <2>17, CompleteDoes
    <3>2. Onward(calls[c].pc, "completed")
      BY <3>1, OnwardIs DEF Finished
    <3> QED
      BY <1>0, <3>1, <3>2, CallStaysInRange
  <2> QED
    BY <1>3, <2>1, <2>2, <2>3, <2>4, <2>5, <2>6, <2>7, <2>8, <2>9, <2>10,
       <2>11, <2>12, <2>13, <2>14, <2>15, <2>16, <2>17 DEF Execute
<1>4. ASSUME NEW c \in Cs, Interrupt(c) PROVE CallsInRange'
  <2>1. CASE InterruptPublishing(c)
    <3>1. CallSteps(c, "dropped", calls[c].run, calls[c].stream)
      BY <2>1, InterruptQuietDoes
    <3>2. Onward(calls[c].pc, "dropped")
      BY <3>1, OnwardIs DEF Finished
    <3> QED
      BY <1>0, <3>1, <3>2, CallStaysInRange
  <2>2. CASE InterruptWaiting(c)
    <3>1. CallSteps(c, "dropped", calls[c].run, calls[c].stream)
      BY <2>2, InterruptQuietDoes
    <3>2. Onward(calls[c].pc, "dropped")
      BY <3>1, OnwardIs DEF Finished
    <3> QED
      BY <1>0, <3>1, <3>2, CallStaysInRange
  <2>3. CASE InterruptEvicting(c)
    <3>1. CallSteps(c, "dropped", calls[c].run, calls[c].stream) /\ calls[c].pc = "evicting"
      BY <2>3, InterruptEvictingDoes
    <3>2. Onward(calls[c].pc, "dropped")
      BY <3>1, OnwardIs DEF Finished
    <3> QED
      BY <1>0, <3>1, <3>2, CallStaysInRange
  <2>4. CASE SwallowCancel(c)
    <3>1. CallSteps(c, "evicting", calls[c].run, calls[c].stream) /\ calls[c].pc = "evicting" /\ calls'[c].victim \in Runs
      BY <2>4, SwallowCancelDoes
    <3>2. Onward(calls[c].pc, "evicting")
      BY <3>1, OnwardIs DEF Finished
    <3> QED
      BY <1>0, <3>1, <3>2, CallStaysInRange
  <2>5. CASE InterruptPump(c)
    <3>1. CallSteps(c, "dropped", calls[c].run, calls[c].stream)
      BY <2>5, InterruptPumpDoes
    <3>2. Onward(calls[c].pc, "dropped")
      BY <3>1, OnwardIs DEF Finished
    <3> QED
      BY <1>0, <3>1, <3>2, CallStaysInRange
  <2> QED
    BY <1>4, <2>1, <2>2, <2>3, <2>4, <2>5 DEF Interrupt
<1>5. ASSUME NEW r \in Runs, Run(r) PROVE CallsInRange'
  <2>1. CASE Begin(r) \/ Register(r) \/ Speak(r) \/ Return(r) \/ Fail(r)
    BY <2>1, RunnerDoes, <1>0, CallsStayInRange
  <2>2. ASSUME NEW q \in Requests, AskPermission(r, q) PROVE CallsInRange'
    BY <2>2, AskPermissionDoes, <1>0, CallsStayInRange
  <2> QED
    BY <1>5, <2>1, <2>2 DEF Run
<1>6. ASSUME NEW r \in Runs, KeepClosing(r) PROVE CallsInRange'
  BY <1>6, KeepClosingDoes, <1>0, CallsStayInRange
<1>7. CASE UNCHANGED vars
  BY <1>7, <1>0, CallsStayInRange DEF vars
<1> QED
  BY <1>1, <1>2, <1>3, <1>4, <1>5, <1>6, <1>7 DEF Next, Cs

\* So do the tables.
LEMMA TablesStep ==
  ASSUME BaseInv, [Next]_vars
  PROVE  TablesInRange'
<1>0. NoneLost /\ TablesInRange /\ Len(sessions) \in Nat /\ Len(streams) \in Nat
  <2>1. NoneLost
    BY NothingIsLost
  <2> QED
    BY <2>1, Facts DEF BaseInv, RangeInv
<1>a. ASSUME live' = live, streamOf' = streamOf PROVE TablesInRange'
  BY <1>0, <1>a DEF TablesInRange, NoneLost, Runs
<1>b. ASSUME NEW t \in Tasks, LiveDrops(t), StreamOfSteps(t, None) PROVE TablesInRange'
  BY <1>0, <1>b DEF TablesInRange, NoneLost, Runs, LiveDrops, StreamOfSteps, None
<1>c. ASSUME NEW t \in Tasks, HasStream(t),
             \A u, r : Has(live', u, r) => Has(live, u, r) \/ (u = t /\ r \in 1..Len(sessions'))
      PROVE  TablesInRange'
  <2>1. \A u \in Tasks : streamOf'[u] \in 0..Len(streams')
    BY <1>0, <1>c DEF TablesInRange, NoneLost, HasStream, StreamOfSteps
  <2>2. \A u, r : Has(live', u, r) => u \in Tasks /\ r \in 1..Len(sessions')
    BY <1>0, <1>c DEF TablesInRange, NoneLost, Runs
  <2> QED
    BY <2>1, <2>2 DEF TablesInRange, Runs
<1>1. ASSUME NEW t \in Tasks, Deliver(t) PROVE TablesInRange'
  BY <1>1, DeliverDoes, <1>a
<1>2. ASSUME NEW t \in Tasks, Cancel(t) PROVE TablesInRange'
  BY <1>2, CancelDoes, <1>b
<1>3. ASSUME NEW c \in Cs, Execute(c) PROVE TablesInRange'
  <2>1. CASE Greet(c) \/ Acquire(c) \/ GetLock(c) \/ AwaitVictim(c) \/
     Raise(c) \/ Refuse(c) \/ Accept(c)
    BY <2>1, GreetDoes, AcquireDoes, GetLockDoes, AwaitVictimDoes,
       RaiseDoes, RefuseDoes, AcceptDoes, <1>a
  <2>2. CASE Evict(c)
    BY <2>2, EvictDoes, <1>b
  <2>3. CASE Admit(c)
    <3>1. \A u, r : Has(live', u, r)
                      => Has(live, u, r) \/ (u = calls[c].task /\ r \in 1..Len(sessions'))
      BY <1>0, <2>3, AdmitDoes DEF NoneLost
    <3> QED
      BY <1>c, <2>3, <3>1, AdmitDoes, Facts
  <2>4. CASE Settle(c)
    <3>1. CASE HasStream(calls[c].task)
      BY <1>c, <2>4, <3>1, SettleDoes, Facts
    <3>2. CASE streamOf' = streamOf
      BY <1>a, <2>4, <3>2, SettleDoes
    <3> QED
      BY <2>4, <3>1, <3>2, SettleDoes
  <2>5. CASE PumpOutput(c) \/ PumpPrompt(c) \/ PumpPause(c) \/
     PumpEvicted(c) \/ PumpEnd(c)
    BY <2>5, PumpOutputDoes, PumpPromptDoes, PumpPauseDoes,
       PumpEvictedDoes, PumpEndDoes, <1>a
  <2>6. CASE PumpFailure(c) \/ Complete(c)
    BY <2>6, PumpFailureDoes, CompleteDoes, <1>b, Facts
  <2> QED
    BY <1>3, <2>1, <2>2, <2>3, <2>4, <2>5, <2>6 DEF Execute
<1>4. ASSUME NEW c \in Cs, Interrupt(c) PROVE TablesInRange'
  <2>1. CASE InterruptPublishing(c) \/ InterruptWaiting(c) \/
     InterruptEvicting(c) \/ SwallowCancel(c)
    BY <2>1, InterruptQuietDoes, InterruptEvictingDoes, SwallowCancelDoes,
       <1>a
  <2>2. CASE InterruptPump(c)
    BY <2>2, InterruptPumpDoes, <1>b, Facts
  <2> QED
    BY <1>4, <2>1, <2>2 DEF Interrupt
<1>5. ASSUME NEW r \in Runs, Run(r) PROVE TablesInRange'
  <2>1. CASE Begin(r) \/ Register(r) \/ Speak(r) \/ Return(r) \/ Fail(r)
    BY <2>1, RunnerDoes, <1>a
  <2>2. ASSUME NEW q \in Requests, AskPermission(r, q) PROVE TablesInRange'
    BY <2>2, AskPermissionDoes, <1>a
  <2> QED
    BY <1>5, <2>1, <2>2 DEF Run
<1>6. ASSUME NEW r \in Runs, KeepClosing(r) PROVE TablesInRange'
  BY <1>6, KeepClosingDoes, <1>a
<1>7. CASE UNCHANGED vars
  BY <1>7, <1>a DEF vars
<1> QED
  BY <1>1, <1>2, <1>3, <1>4, <1>5, <1>6, <1>7 DEF Next, Cs

\* No session is pumped by its own runner.
LEMMA InlineStep ==
  ASSUME BaseInv, [Next]_vars
  PROVE  NoneInline'
<1>0. NoneInline /\ \A r \in Runs : sessions[r] \in Sessions
  BY Facts DEF BaseInv, RangeInv
<1>a. ASSUME sessions' = sessions PROVE NoneInline'
  BY <1>0, <1>a DEF NoneInline, Runs
<1>b. ASSUME NEW r \in Runs, SessionSteps(r, sessions'[r]), sessions'[r].own = NoRequest
      PROVE  NoneInline'
  BY <1>0, <1>b DEF NoneInline, Runs, SessionSteps
<1>c. ASSUME NEW r \in Runs, Worked(r) \/ Stopped(r) PROVE NoneInline'
  BY <1>b, <1>c DEF Worked, Stopped, Fades
<1>1. ASSUME NEW t \in Tasks, Deliver(t) PROVE NoneInline'
  BY <1>1, DeliverDoes, <1>a
<1>2. ASSUME NEW t \in Tasks, Cancel(t) PROVE NoneInline'
  BY <1>2, CancelDoes, <1>a, <1>c
<1>3. ASSUME NEW c \in Cs, Execute(c) PROVE NoneInline'
  <2>1. CASE Greet(c) \/ Acquire(c) \/ GetLock(c) \/ Raise(c) \/ Refuse(c)
     \/ Accept(c)
    BY <2>1, GreetDoes, AcquireDoes, GetLockDoes, RaiseDoes, RefuseDoes,
       AcceptDoes, <1>a
  <2>2. CASE Evict(c)
    BY <2>2, EvictDoes, <1>c
  <2>3. CASE AwaitVictim(c)
    BY <2>3, AwaitVictimDoes, <1>c
  <2>4. CASE Admit(c)
    <3>1. /\ Len(sessions') = Len(sessions) + 1
          /\ sessions'[Len(sessions) + 1] = NewSession
          /\ \A x \in Runs : sessions'[x] = sessions[x]
      BY <2>4, AdmitDoes
    <3>2. \A x \in 1..Len(sessions') : x \in Runs \/ x = Len(sessions) + 1
      BY <3>1, Facts DEF Runs
    <3> QED
      BY <1>0, <3>1, <3>2, NewSessionIs DEF NoneInline, Runs
  <2>5. CASE Settle(c)
    BY <2>5, SettleDoes, <1>a, <1>c
  <2>6. CASE PumpOutput(c) \/ PumpFailure(c) \/ PumpEvicted(c) \/ PumpEnd(c)
     \/ Complete(c)
    BY <2>6, PumpOutputDoes, PumpFailureDoes, PumpEvictedDoes,
       PumpEndDoes, CompleteDoes, <1>c
  <2>7. CASE PumpPrompt(c)
    BY <2>7, PumpPromptDoes, <1>c
  <2>8. CASE PumpPause(c)
    <3> DEFINE r == calls[c].run
               q == streams[calls[c].stream].asked
    <3>1. r \in Runs /\ calls[c].stream \in 1..Len(streams) /\ SessionSteps(r, Park(sessions[r], q))
      BY <2>8, PumpPauseDoes
    <3>2. q \in Requests \cup {NoRequest}
      BY <3>1, Facts
    <3>3. Park(sessions[r], q).own = NoRequest
      BY <1>0, <3>1, <3>2, ParkIs DEF NoneInline
    <3> HIDE DEF r, q
    <3>4. sessions'[r] = Park(sessions[r], q)
      BY <3>1 DEF SessionSteps
    <3> QED
      BY <1>b, <3>1, <3>3, <3>4
  <2> QED
    BY <1>3, <2>1, <2>2, <2>3, <2>4, <2>5, <2>6, <2>7, <2>8 DEF Execute
<1>4. ASSUME NEW c \in Cs, Interrupt(c) PROVE NoneInline'
  <2>1. CASE InterruptPublishing(c) \/ InterruptWaiting(c)
    BY <2>1, InterruptQuietDoes, <1>a
  <2>2. CASE InterruptEvicting(c)
    BY <2>2, InterruptEvictingDoes, <1>c
  <2>3. CASE SwallowCancel(c)
    BY <2>3, SwallowCancelDoes, <1>c
  <2>4. CASE InterruptPump(c)
    BY <2>4, InterruptPumpDoes, <1>c
  <2> QED
    BY <1>4, <2>1, <2>2, <2>3, <2>4 DEF Interrupt
<1>5. ASSUME NEW r \in Runs, Run(r) PROVE NoneInline'
  <2>1. CASE Begin(r) \/ Register(r) \/ Speak(r) \/ Return(r) \/ Fail(r)
    BY <2>1, RunnerDoes, <1>c
  <2>2. ASSUME NEW q \in Requests, AskPermission(r, q) PROVE NoneInline'
    <3>1. SessionSteps(r, Ask(sessions[r], q)) /\ Ask(sessions[r], q).own = NoRequest
      BY <1>0, <2>2, AskPermissionDoes, AskIs DEF NoneInline
    <3>2. sessions'[r] = Ask(sessions[r], q)
      BY <3>1 DEF SessionSteps
    <3> QED
      BY <1>b, <3>1, <3>2
  <2> QED
    BY <1>5, <2>1, <2>2 DEF Run
<1>6. ASSUME NEW r \in Runs, KeepClosing(r) PROVE NoneInline'
  BY <1>6, KeepClosingDoes, <1>c
<1>7. CASE UNCHANGED vars
  BY <1>7, <1>a DEF vars
<1> QED
  BY <1>1, <1>2, <1>3, <1>4, <1>5, <1>6, <1>7 DEF Next, Cs

\* The history refers to runs and calls that exist.
LEMMA HistoryStep ==
  ASSUME BaseInv, [Next]_vars
  PROVE  HistoryInRange'
<1>0. /\ NoneLost /\ HistoryInRange
      /\ Len(sessions) \in Nat /\ Len(calls) \in Nat
  <2>1. NoneLost
    BY NothingIsLost
  <2> QED
    BY <2>1, Facts DEF BaseInv, RangeInv
<1>a. ASSUME askedBy' = askedBy, settled' = settled PROVE HistoryInRange'
  BY <1>0, <1>a DEF HistoryInRange, NoneLost
<1>1. ASSUME NEW t \in Tasks, Deliver(t) PROVE HistoryInRange'
  BY <1>1, DeliverDoes, <1>a
<1>2. ASSUME NEW t \in Tasks, Cancel(t) PROVE HistoryInRange'
  BY <1>2, CancelDoes, <1>a
<1>3. ASSUME NEW c \in Cs, Execute(c) PROVE HistoryInRange'
  <2>1. CASE Greet(c) \/ Acquire(c) \/ GetLock(c) \/ Evict(c) \/
     AwaitVictim(c) \/ Admit(c) \/ Raise(c) \/ Refuse(c) \/ Accept(c)
    BY <2>1, GreetDoes, AcquireDoes, GetLockDoes, EvictDoes,
       AwaitVictimDoes, AdmitDoes, RaiseDoes, RefuseDoes, AcceptDoes, <1>a
  <2>2. CASE Settle(c)
    <3>1. CASE settled' = settled
      BY <1>a, <2>2, <3>1, SettleDoes
    <3>2. ASSUME NEW q \in Requests, settled'[q] = c,
                 \A p \in Requests : p # q => settled'[p] = settled[p]
          PROVE  HistoryInRange'
      <4>1. askedBy' = askedBy /\ c \in 0..Len(calls')
        BY <1>0, <2>2, SettleDoes DEF NoneLost, Cs
      <4> QED
        BY <1>0, <3>2, <4>1 DEF HistoryInRange, NoneLost
    <3> QED
      BY <2>2, <3>1, <3>2, SettleDoes
  <2>3. CASE PumpOutput(c) \/ PumpPrompt(c) \/ PumpPause(c) \/
     PumpFailure(c) \/ PumpEvicted(c) \/ PumpEnd(c) \/ Complete(c)
    BY <2>3, PumpOutputDoes, PumpPromptDoes, PumpPauseDoes,
       PumpFailureDoes, PumpEvictedDoes, PumpEndDoes, CompleteDoes, <1>a
  <2> QED
    BY <1>3, <2>1, <2>2, <2>3 DEF Execute
<1>4. ASSUME NEW c \in Cs, Interrupt(c) PROVE HistoryInRange'
  <2>1. CASE InterruptPublishing(c) \/ InterruptWaiting(c) \/
     InterruptEvicting(c) \/ SwallowCancel(c) \/ InterruptPump(c)
    BY <2>1, InterruptQuietDoes, InterruptEvictingDoes, SwallowCancelDoes,
       InterruptPumpDoes, <1>a
  <2> QED
    BY <1>4, <2>1 DEF Interrupt
<1>5. ASSUME NEW r \in Runs, Run(r) PROVE HistoryInRange'
  <2>1. CASE Begin(r) \/ Register(r) \/ Speak(r) \/ Return(r) \/ Fail(r)
    BY <2>1, RunnerDoes, <1>a
  <2>2. ASSUME NEW q \in Requests, AskPermission(r, q) PROVE HistoryInRange'
    <3>1. /\ askedBy'[q] = r /\ settled' = settled
          /\ \A p \in Requests : p # q => askedBy'[p] = askedBy[p]
      BY <2>2, AskPermissionDoes
    <3>2. r \in 0..Len(sessions')
      BY <1>0 DEF NoneLost, Runs
    <3> QED
      BY <1>0, <3>1, <3>2 DEF HistoryInRange, NoneLost
  <2> QED
    BY <1>5, <2>1, <2>2 DEF Run
<1>6. ASSUME NEW r \in Runs, KeepClosing(r) PROVE HistoryInRange'
  BY <1>6, KeepClosingDoes, <1>a
<1>7. CASE UNCHANGED vars
  BY <1>7, <1>a DEF vars
<1> QED
  BY <1>1, <1>2, <1>3, <1>4, <1>5, <1>6, <1>7 DEF Next, Cs

\* What every later step needs to know of types and references is inductive.
LEMMA BaseStep ==
  ASSUME BaseInv, [Next]_vars
  PROVE  BaseInv'
BY TypeStep, CallsStep, TablesStep, InlineStep, HistoryStep DEF BaseInv, RangeInv

\* As the server starts.
LEMMA InitIsBase == Init => BaseInv
<1> SUFFICES ASSUME Init PROVE BaseInv
  OBVIOUS
<1>1. /\ calls = <<>> /\ live = <<>> /\ sessions = <<>> /\ streams = <<>>
      /\ Len(calls) = 0 /\ Len(live) = 0 /\ Len(sessions) = 0 /\ Len(streams) = 0
  BY DEF Init
<1>2. calls \in Seq(CallInfo) /\ live \in Seq(Entries) /\ sessions \in Seq(Sessions)
      /\ streams \in Seq(StreamInfo) /\ Len(calls) <= MaxCalls
  BY <1>1, EmptySeq, ExecutorAssumption
<1>3. tasks \in [Tasks -> TaskInfo]
  BY DEF Init, TaskInfo, States
<1>4. /\ streamOf \in [Tasks -> Nat] /\ \A t \in Tasks : streamOf[t] \in 0..Len(streams)
      /\ askedBy \in [Requests -> Nat] /\ settled \in [Requests -> Nat]
      /\ \A q \in Requests : askedBy[q] \in 0..Len(sessions) /\ settled[q] \in 0..Len(calls)
  <2>1. /\ streamOf = [t \in Tasks |-> None]
        /\ askedBy = [q \in Requests |-> None] /\ settled = [q \in Requests |-> None]
    BY DEF Init
  <2> QED
    BY <1>1, <2>1 DEF None
<1>5. TypeInv
  <2>1. Keyed(live) /\ evicted \subseteq Runs
    BY <1>1 DEF Keyed, Init
  <2> QED
    BY <1>2, <1>3, <1>4, <2>1 DEF TypeInv
<1>6. RangeInv
  BY <1>1, <1>4 DEF RangeInv, CallsInRange, TablesInRange, NoneInline, HistoryInRange,
                    Cs, Runs, Has
<1> QED
  BY <1>5, <1>6 DEF BaseInv

(***************************************************************************)
(* The lock.                                                               *)
(***************************************************************************)
AtLock  == {"waiting", "admitting", "evicting"}
HasLock == {"admitting", "evicting"}

\* In the line of _admit_lock are the calls that wait for it or have it, each
\* once, and the one that has it is the first.
LockInv ==
  /\ admission \in Seq(Nat)
  /\ \A i \in 1..Len(admission) : admission[i] \in Cs /\ calls[admission[i]].pc \in AtLock
  /\ \A i, j \in 1..Len(admission) : admission[i] = admission[j] => i = j
  /\ \A c \in Cs : calls[c].pc \in AtLock => \E i \in 1..Len(admission) : admission[i] = c
  /\ \A c \in Cs : calls[c].pc \in HasLock => Len(admission) > 0 /\ admission[1] = c

\* The line stays, and at most the lock is handed to its first.
LockStays ==
  /\ admission' = admission
  /\ Len(calls') >= Len(calls)
  /\ \A d \in Cs : calls'[d].pc \in AtLock <=> calls[d].pc \in AtLock
  /\ \A d \in Cs : calls'[d].pc \in HasLock
                     => \/ calls[d].pc \in HasLock
                        \/ Len(admission) > 0 /\ admission[1] = d
  /\ \A d \in 1..Len(calls') : d \notin Cs => calls'[d].pc \notin AtLock

LEMMA LockKept ==
  ASSUME LockInv, LockStays, Len(calls) \in Nat, Len(calls') \in Nat
  PROVE  LockInv'
<1>1. \A d : d \in Cs => d \in Cs'
  BY DEF LockStays, Cs
<1>2. \A i \in 1..Len(admission) : admission[i] \in Cs' /\ calls'[admission[i]].pc \in AtLock
  BY <1>1 DEF LockInv, LockStays
<1>3. ASSUME NEW d \in Cs', calls'[d].pc \in AtLock
      PROVE  d \in Cs
  BY <1>3 DEF LockStays, Cs
<1>4. HasLock \subseteq AtLock
  BY DEF HasLock, AtLock
<1>5. \A d \in Cs' : calls'[d].pc \in AtLock => \E i \in 1..Len(admission) : admission[i] = d
  BY <1>3 DEF LockInv, LockStays
<1>6. \A d \in Cs' : calls'[d].pc \in HasLock => Len(admission) > 0 /\ admission[1] = d
  BY <1>3, <1>4 DEF LockInv, LockStays
<1> QED
  BY <1>2, <1>5, <1>6 DEF LockInv, LockStays

\* A call that takes its place in the line, with the lock if there is none.
LEMMA LockJoined ==
  ASSUME BaseInv, LockInv, NEW c \in Cs, calls[c].pc \notin AtLock,
         NEW pc, CallSteps(c, pc, calls[c].run, calls[c].stream),
         admission' = Append(admission, c),
         pc = IF admission = <<>> THEN "admitting" ELSE "waiting"
  PROVE  LockInv'
<1>1. Len(calls) \in Nat /\ c \in Nat
  BY Facts DEF Cs
<1>2. admission \in Seq(Nat) /\ Len(admission) \in Nat
  BY LenProperties DEF LockInv
<1>3. /\ admission' \in Seq(Nat) /\ Len(admission') = Len(admission) + 1
      /\ \A i \in 1..Len(admission) : admission'[i] = admission[i]
      /\ admission'[Len(admission) + 1] = c
  BY <1>1, <1>2, AppendProperties
<1>4. /\ Cs' = Cs /\ calls'[c].pc = pc /\ \A d \in Cs : d # c => calls'[d] = calls[d]
  BY DEF CallSteps, Cs
<1>5. \A i \in 1..Len(admission) : admission[i] \in Cs /\ admission[i] # c
  BY DEF LockInv
<1>6. pc \in AtLock
  BY DEF AtLock
<1>7. \A i \in 1..Len(admission') : i \in 1..Len(admission) \/ i = Len(admission) + 1
  BY <1>2, <1>3
<1>8. \A i \in 1..Len(admission') : admission'[i] \in Cs' /\ calls'[admission'[i]].pc \in AtLock
  BY <1>3, <1>4, <1>5, <1>6, <1>7 DEF LockInv
<1>9. \A i, j \in 1..Len(admission') : admission'[i] = admission'[j] => i = j
  BY <1>3, <1>5, <1>7 DEF LockInv
<1>10. \A d \in Cs' : calls'[d].pc \in AtLock
                        => \E i \in 1..Len(admission') : admission'[i] = d
  <2> SUFFICES ASSUME NEW d \in Cs, calls'[d].pc \in AtLock
               PROVE  \E i \in 1..Len(admission') : admission'[i] = d
    BY <1>4
  <2>1. CASE d = c
    <3>1. Len(admission) + 1 \in 1..Len(admission')
      BY <1>2, <1>3
    <3> QED
      BY <1>3, <2>1, <3>1
  <2>2. CASE d # c
    <3>1. PICK i \in 1..Len(admission) : admission[i] = d
      BY <1>4, <2>2 DEF LockInv
    <3> QED
      BY <1>2, <1>3, <3>1
  <2> QED
    BY <2>1, <2>2
<1>11. \A d \in Cs' : calls'[d].pc \in HasLock => Len(admission') > 0 /\ admission'[1] = d
  <2> SUFFICES ASSUME NEW d \in Cs, calls'[d].pc \in HasLock PROVE admission'[1] = d
    BY <1>2, <1>3, <1>4
  <2>1. CASE d = c
    <3>1. Len(admission) = 0
      BY <1>2, <1>4, <2>1, EmptySeq DEF HasLock
    <3> QED
      BY <1>3, <2>1, <3>1
  <2>2. CASE d # c
    <3>1. Len(admission) > 0 /\ admission[1] = d
      BY <1>4, <2>2 DEF LockInv
    <3> QED
      BY <1>2, <1>3, <3>1
  <2> QED
    BY <2>1, <2>2
<1> QED
  BY <1>3, <1>8, <1>9, <1>10, <1>11 DEF LockInv

\* A call that leaves the line, from wherever it is.
LEMMA LockLeft ==
  ASSUME BaseInv, LockInv, NEW c \in Cs, NEW pc, NEW run, NEW stream,
         CallSteps(c, pc, run, stream), pc \notin AtLock,
         NEW at \in 1..Len(admission), admission[at] = c,
         admission' \in Seq(Nat), Len(admission') = Len(admission) - 1,
         \A i \in 1..(Len(admission) - 1) :
           admission'[i] = IF i < at THEN admission[i] ELSE admission[i + 1]
  PROVE  LockInv'
<1>1. Len(admission) \in Nat
  BY LenProperties DEF LockInv
<1>2. Cs' = Cs /\ calls'[c].pc = pc /\ \A d \in Cs : d # c => calls'[d] = calls[d]
  BY DEF CallSteps, Cs
<1> DEFINE from(i) == IF i < at THEN i ELSE i + 1
<1>3. \A i \in 1..Len(admission') : /\ from(i) \in 1..Len(admission) /\ from(i) # at
                                   /\ admission'[i] = admission[from(i)]
  BY <1>1
<1>4. \A i, j \in 1..Len(admission') : from(i) = from(j) => i = j
  BY <1>1
<1>5. \A i \in 1..Len(admission) : i # at => \E j \in 1..Len(admission') : from(j) = i
  <2> SUFFICES ASSUME NEW i \in 1..Len(admission), i # at
               PROVE  \E j \in 1..Len(admission') : from(j) = i
    OBVIOUS
  <2>1. CASE i < at
    <3>1. i \in 1..Len(admission') /\ from(i) = i
      BY <1>1, <2>1
    <3> QED
      BY <3>1
  <2>2. CASE i > at
    <3>1. i - 1 \in 1..Len(admission') /\ from(i - 1) = i
      BY <1>1, <2>2
    <3> QED
      BY <3>1
  <2> QED
    BY <1>1, <2>1, <2>2
<1>6. at # 1 => 1 \in 1..Len(admission') /\ from(1) = 1
  BY <1>1
<1> HIDE DEF from
<1>7. \A i \in 1..Len(admission) : i # at => admission[i] # c
  BY DEF LockInv
<1>8. \A i \in 1..Len(admission') : admission'[i] \in Cs' /\ calls'[admission'[i]].pc \in AtLock
  <2> SUFFICES ASSUME NEW i \in 1..Len(admission')
               PROVE  admission'[i] \in Cs' /\ calls'[admission'[i]].pc \in AtLock
    OBVIOUS
  <2>1. PICK k \in 1..Len(admission) : k # at /\ admission'[i] = admission[k]
    BY <1>3
  <2>2. admission[k] \in Cs /\ calls[admission[k]].pc \in AtLock /\ admission[k] # c
    BY <1>7, <2>1 DEF LockInv
  <2> QED
    BY <1>2, <2>1, <2>2
<1>9. ASSUME NEW i \in 1..Len(admission'), NEW j \in 1..Len(admission'),
             admission'[i] = admission'[j]
      PROVE  i = j
  <2>1. /\ from(i) \in 1..Len(admission) /\ from(j) \in 1..Len(admission)
        /\ admission[from(i)] = admission[from(j)]
    BY <1>3, <1>9
  <2>2. from(i) = from(j)
    BY <2>1 DEF LockInv
  <2> QED
    BY <1>4, <2>2
<1>10. \A d \in Cs' : calls'[d].pc \in AtLock
                        => \E i \in 1..Len(admission') : admission'[i] = d
  <2> SUFFICES ASSUME NEW d \in Cs, calls'[d].pc \in AtLock
               PROVE  \E i \in 1..Len(admission') : admission'[i] = d
    BY <1>2
  <2>1. d # c /\ calls[d].pc \in AtLock
    BY <1>2
  <2>2. PICK i \in 1..Len(admission) : admission[i] = d
    BY <2>1 DEF LockInv
  <2> QED
    BY <1>3, <1>5, <2>1, <2>2
<1>11. \A d \in Cs' : calls'[d].pc \in HasLock => Len(admission') > 0 /\ admission'[1] = d
  <2> SUFFICES ASSUME NEW d \in Cs, calls'[d].pc \in HasLock
               PROVE  Len(admission') > 0 /\ admission'[1] = d
    BY <1>2
  <2>1. d # c
    BY <1>2 DEF HasLock, AtLock
  <2>2. admission[1] = d
    BY <1>2, <2>1 DEF LockInv
  <2>3. at # 1
    BY <2>1, <2>2
  <2> QED
    BY <1>1, <1>3, <1>6, <2>2, <2>3
<1> QED
  BY <1>8, <1>9, <1>10, <1>11 DEF LockInv

\* The one that has the lock releases it.
LEMMA LockReleased ==
  ASSUME BaseInv, LockInv, NEW c \in Cs, NEW pc, NEW run, NEW stream,
         CallSteps(c, pc, run, stream), pc \notin AtLock, calls[c].pc \in HasLock,
         admission' = Tail(admission)
  PROVE  LockInv'
<1>1. admission \in Seq(Nat) /\ Len(admission) \in Nat
  BY LenProperties DEF LockInv
<1>2. Len(admission) > 0 /\ admission[1] = c
  BY DEF LockInv
<1>3. admission # <<>>
  BY <1>2, EmptySeq
<1>4. /\ admission' \in Seq(Nat) /\ Len(admission') = Len(admission) - 1
      /\ \A i \in 1..(Len(admission) - 1) : admission'[i] = admission[i + 1]
  BY <1>1, <1>3, HeadTailProperties
<1>5. \A i \in 1..(Len(admission) - 1) : ~(i < 1)
  BY <1>1
<1>6. 1 \in 1..Len(admission)
  BY <1>1, <1>2
<1> QED
  BY <1>2, <1>4, <1>5, <1>6, LockLeft

\* A cancelled call that waits gives up its place.
LEMMA LockGivenUp ==
  ASSUME BaseInv, LockInv, NEW c \in Cs, InterruptWaiting(c)
  PROVE  LockInv'
<1>1. CallSteps(c, "dropped", calls[c].run, calls[c].stream)
  BY InterruptQuietDoes
<1>2. admission \in Seq(Nat) /\ Len(admission) \in Nat
  BY LenProperties DEF LockInv
<1>3. \E i \in 1..Len(admission) : admission[i] = c
  BY DEF InterruptWaiting, LockInv, AtLock
<1>4. PICK at \in 1..Len(admission) :
        /\ admission[at] = c
        /\ admission' = [i \in 1..(Len(admission) - 1) |->
                           IF i < at THEN admission[i] ELSE admission[i + 1]]
  BY <1>3 DEF InterruptWaiting
<1>5. Len(admission) - 1 \in Nat
  BY <1>2
<1>6. \A i \in 1..Len(admission) : admission[i] \in Nat
  BY <1>2, ElementOfSeq
<1>7. \A i \in 1..(Len(admission) - 1) :
        (IF i < at THEN admission[i] ELSE admission[i + 1]) \in Nat
  BY <1>2, <1>6
<1>8. admission' \in [1..(Len(admission) - 1) -> Nat]
  BY <1>4, <1>7
<1>9. admission' \in Seq(Nat) /\ Len(admission') = Len(admission) - 1
  BY <1>5, <1>8, IsASeq
<1>10. "dropped" \notin AtLock
  BY DEF AtLock
<1> QED
  BY <1>1, <1>4, <1>9, <1>10, LockLeft

\* A step of a call that neither joins the line nor leaves it.
LEMMA LockOfCall ==
  ASSUME BaseInv, LockInv, NEW c \in Cs, NEW pc, NEW run, NEW stream,
         CallSteps(c, pc, run, stream), admission' = admission,
         pc \in AtLock <=> calls[c].pc \in AtLock,
         pc \in HasLock => \/ calls[c].pc \in HasLock
                           \/ Len(admission) > 0 /\ admission[1] = c
  PROVE  LockInv'
<1>1. Len(calls) \in Nat /\ Len(calls') = Len(calls)
  BY Facts DEF CallSteps
<1>2. \A d \in 1..Len(calls') : d \in Cs
  BY <1>1 DEF Cs
<1>3. LockStays
  BY <1>1, <1>2 DEF LockStays, CallSteps
<1> QED
  BY <1>1, <1>3, LockKept

\* The calls at the lock are those of its line, and the first has it.
LEMMA LockStep ==
  ASSUME BaseInv, LockInv, [Next]_vars
  PROVE  LockInv'
<1>0. Len(calls) \in Nat /\ Len(calls') \in Nat
  <2>1. calls' \in Seq(CallInfo)
    BY TypeStep DEF TypeInv
  <2> QED
    BY <2>1, Facts, LenProperties
<1>1. ASSUME UNCHANGED <<calls, admission>> PROVE LockInv'
  BY <1>1 DEF LockInv, Cs
<1>2. ASSUME NEW t \in Tasks, Deliver(t) PROVE LockInv'
  <2> DEFINE n == Len(calls) + 1
  <2>1. /\ Len(calls') = n /\ \A d \in Cs : calls'[d] = calls[d]
        /\ calls'[n].pc = "queued"
    BY <1>2, DeliverDoes
  <2>2. admission' = admission
    BY <1>2 DEF Deliver
  <2>3. \A d \in 1..Len(calls') : d \notin Cs => d = n
    BY <1>0, <2>1 DEF Cs
  <2>4. "queued" \notin AtLock
    BY DEF AtLock
  <2> HIDE DEF n
  <2>5. Len(calls') >= Len(calls)
    BY <1>0, <2>1 DEF n
  <2>6. LockStays
    BY <2>1, <2>2, <2>3, <2>4, <2>5 DEF LockStays
  <2> QED
    BY <1>0, <2>6, LockKept
<1>3. ASSUME NEW t \in Tasks, Cancel(t) PROVE LockInv'
  <2>1. CallsOfCancelled(t) /\ admission' = admission
    BY <1>3, CancelDoes DEF Cancel
  <2>2. "queued" \notin AtLock /\ "dropped" \notin AtLock /\ HasLock \subseteq AtLock
    BY DEF AtLock, HasLock
  <2>3. \A d \in Cs : \/ calls'[d].pc = calls[d].pc
                      \/ calls[d].pc \notin AtLock /\ calls'[d].pc \notin AtLock
    BY <2>1, <2>2 DEF CallsOfCancelled
  <2>4. Len(calls') = Len(calls) /\ \A d \in 1..Len(calls') : d \in Cs
    BY <1>0, <2>1 DEF CallsOfCancelled, Cs
  <2>5. LockStays
    BY <1>0, <2>1, <2>2, <2>3, <2>4 DEF LockStays
  <2> QED
    BY <1>0, <2>5, LockKept
<1>4. ASSUME NEW c \in Cs, Execute(c) PROVE LockInv'
  <2>1. CASE Greet(c)
    BY <2>1, GreetDoes, LockOfCall DEF Greet, AtLock, HasLock
  <2>2. CASE Acquire(c)
    <3>1. PICK pc : /\ Goes(c, pc) /\ pc \in Unfinished
                    /\ pc = IF admission = <<>> THEN "admitting" ELSE "waiting"
      BY <2>2 DEF Acquire, Unfinished
    <3>2. CallSteps(c, pc, calls[c].run, calls[c].stream)
      BY <3>1, GoesIs
    <3>3. calls[c].pc \notin AtLock /\ admission' = Append(admission, c)
      BY <2>2 DEF Acquire, AtLock
    <3> QED
      BY <3>1, <3>2, <3>3, LockJoined
  <2>3. CASE GetLock(c)
    <3>1. \E i \in 1..Len(admission) : admission[i] = c
      BY <2>3 DEF GetLock, LockInv, AtLock
    <3>2. admission \in Seq(Nat) /\ Len(admission) \in Nat
      BY LenProperties DEF LockInv
    <3>3. Len(admission) > 0
      BY <3>1, <3>2
    <3>4. admission[1] = c
      BY <2>3 DEF GetLock
    <3>5. CallSteps(c, "admitting", calls[c].run, calls[c].stream) /\ admission' = admission
      BY <2>3, GetLockDoes DEF GetLock
    <3> QED
      BY <2>3, <3>3, <3>4, <3>5, LockOfCall DEF GetLock, AtLock
  <2>4. CASE Evict(c)
    <3>1. PICK pc \in {"admitting", "evicting"} : CallSteps(c, pc, calls[c].run, calls[c].stream)
      BY <2>4, EvictDoes
    <3>2. calls[c].pc = "admitting" /\ admission' = admission
      BY <2>4 DEF Evict
    <3> QED
      BY <3>1, <3>2, LockOfCall DEF AtLock, HasLock
  <2>5. CASE AwaitVictim(c)
    <3>1. PICK pc \in {"admitting", "evicting"} : CallSteps(c, pc, calls[c].run, calls[c].stream)
      BY <2>5, AwaitVictimDoes
    <3>2. calls[c].pc = "evicting" /\ admission' = admission
      BY <2>5 DEF AwaitVictim
    <3> QED
      BY <3>1, <3>2, LockOfCall DEF AtLock, HasLock
  <2>6. CASE Admit(c)
    <3>1. /\ calls[c].pc = "admitting"
          /\ CallSteps(c, "draining", Len(sessions) + 1, StreamFor(calls[c].task))
      BY <2>6, AdmitDoes
    <3>2. admission' = Tail(admission)
      BY <2>6 DEF Admit
    <3> QED
      BY <3>1, <3>2, LockReleased DEF AtLock, HasLock
  <2>7. CASE Raise(c)
    BY <2>7, RaiseDoes, LockOfCall DEF Raise, AtLock, HasLock
  <2>8. CASE Refuse(c)
    BY <2>8, RefuseDoes, LockOfCall DEF Refuse, AtLock, HasLock
  <2>9. CASE Accept(c)
    BY <2>9, AcceptDoes, LockOfCall DEF Accept, AtLock, HasLock
  <2>10. CASE Settle(c)
    <3>1. calls[c].pc = "answering" /\ admission' = admission
      BY <2>10 DEF Settle
    <3>2. PICK pc, run, stream : pc \in {"draining", "raised"} /\ CallSteps(c, pc, run, stream)
      BY <2>10, SettleDoes
    <3> QED
      BY <3>1, <3>2, LockOfCall DEF AtLock, HasLock
  <2>11. CASE PumpOutput(c)
    BY <1>1, <2>11 DEF PumpOutput
  <2>12. CASE PumpPrompt(c)
    BY <2>12, PumpPromptDoes, LockOfCall DEF PumpPrompt, AtLock, HasLock
  <2>13. CASE PumpPause(c)
    BY <2>13, PumpPauseDoes, LockOfCall DEF PumpPause, AtLock, HasLock
  <2>14. CASE PumpFailure(c)
    BY <2>14, PumpFailureDoes, LockOfCall DEF PumpFailure, AtLock, HasLock
  <2>15. CASE PumpEvicted(c)
    BY <2>15, PumpEvictedDoes, LockOfCall DEF PumpEvicted, AtLock, HasLock
  <2>16. CASE PumpEnd(c)
    BY <2>16, PumpEndDoes, LockOfCall DEF PumpEnd, AtLock, HasLock
  <2>17. CASE Complete(c)
    BY <2>17, CompleteDoes, LockOfCall DEF Complete, AtLock, HasLock
  <2> QED
    BY <1>4, <2>1, <2>2, <2>3, <2>4, <2>5, <2>6, <2>7, <2>8, <2>9, <2>10, <2>11,
       <2>12, <2>13, <2>14, <2>15, <2>16, <2>17 DEF Execute
<1>5. ASSUME NEW c \in Cs, Interrupt(c) PROVE LockInv'
  <2>1. CASE InterruptPublishing(c)
    BY <2>1, InterruptQuietDoes, LockOfCall DEF InterruptPublishing, AtLock, HasLock
  <2>2. CASE InterruptWaiting(c)
    BY <2>2, LockGivenUp
  <2>3. CASE InterruptEvicting(c)
    <3>1. /\ calls[c].pc = "evicting"
          /\ CallSteps(c, "dropped", calls[c].run, calls[c].stream)
      BY <2>3, InterruptEvictingDoes
    <3>2. admission' = Tail(admission)
      BY <2>3 DEF InterruptEvicting
    <3> QED
      BY <3>1, <3>2, LockReleased DEF AtLock, HasLock
  <2>4. CASE SwallowCancel(c)
    BY <2>4, SwallowCancelDoes, LockOfCall DEF SwallowCancel, AtLock, HasLock
  <2>5. CASE InterruptPump(c)
    BY <2>5, InterruptPumpDoes, LockOfCall DEF InterruptPump, AtLock, HasLock
  <2> QED
    BY <1>5, <2>1, <2>2, <2>3, <2>4, <2>5 DEF Interrupt
<1>6. ASSUME NEW r \in Runs, Run(r) \/ KeepClosing(r) PROVE LockInv'
  BY <1>1, <1>6 DEF Run, Begin, Register, Speak, AskPermission, Return, Fail,
                    Backend, KeepClosing
<1>7. CASE UNCHANGED vars
  BY <1>1, <1>7 DEF vars
<1> QED
  BY <1>2, <1>3, <1>4, <1>5, <1>6, <1>7 DEF Next, Cs

(***************************************************************************)
(* The bound.                                                              *)
(***************************************************************************)
\* No call begins to wait for a victim.
NoneBegins ==
  \A d \in 1..Len(calls') : calls'[d].pc = "evicting" => d \in Cs /\ calls[d].pc = "evicting"

LEMMA CallBeginsNone ==
  ASSUME BaseInv, NEW c \in Cs, NEW pc, NEW run, NEW stream,
         CallSteps(c, pc, run, stream), pc = "evicting" => calls[c].pc = "evicting"
  PROVE  NoneBegins
<1>1. \A d \in 1..Len(calls') : d \in Cs
  BY DEF CallSteps, Cs
<1> QED
  BY <1>1 DEF NoneBegins, CallSteps

\* Only Evict makes a call wait for a victim.
LEMMA OnlyEvictBegins ==
  ASSUME BaseInv, [Next]_vars, \A c \in Cs : ~Evict(c)
  PROVE  NoneBegins
<1>0. Len(calls) \in Nat
  BY Facts
<1>1. ASSUME UNCHANGED calls PROVE NoneBegins
  BY <1>1 DEF NoneBegins, Cs
<1>2. ASSUME NEW t \in Tasks, Deliver(t) PROVE NoneBegins
  <2> DEFINE n == Len(calls) + 1
  <2>1. /\ Len(calls') = n /\ \A d \in Cs : calls'[d] = calls[d]
        /\ calls'[n].pc = "queued"
    BY <1>2, DeliverDoes
  <2>2. \A d \in 1..Len(calls') : d \in Cs \/ d = n
    BY <1>0, <2>1 DEF Cs
  <2> HIDE DEF n
  <2> QED
    BY <2>1, <2>2 DEF NoneBegins
<1>3. ASSUME NEW t \in Tasks, Cancel(t) PROVE NoneBegins
  <2>1. CallsOfCancelled(t)
    BY <1>3, CancelDoes
  <2>2. \A d \in 1..Len(calls') : d \in Cs
    BY <2>1 DEF CallsOfCancelled, Cs
  <2>3. \A d \in Cs : calls'[d].pc = calls[d].pc \/ calls'[d].pc = "dropped"
    BY <2>1 DEF CallsOfCancelled
  <2> QED
    BY <2>2, <2>3 DEF NoneBegins
<1>4. ASSUME NEW c \in Cs, Execute(c) PROVE NoneBegins
  <2>1. CASE Greet(c)
    BY <2>1, GreetDoes, CallBeginsNone
  <2>2. CASE Acquire(c)
    <3>1. PICK pc \in {"admitting", "waiting"} : Goes(c, pc)
      BY <2>2 DEF Acquire
    <3>2. CallSteps(c, pc, calls[c].run, calls[c].stream)
      BY <3>1, GoesIs DEF Unfinished
    <3> QED
      BY <3>2, CallBeginsNone
  <2>3. CASE GetLock(c)
    BY <2>3, GetLockDoes, CallBeginsNone
  <2>4. CASE AwaitVictim(c)
    BY <2>4, AwaitVictimDoes, CallBeginsNone
  <2>5. CASE Admit(c)
    BY <2>5, AdmitDoes, CallBeginsNone
  <2>6. CASE Raise(c)
    BY <2>6, RaiseDoes, CallBeginsNone
  <2>7. CASE Refuse(c)
    BY <2>7, RefuseDoes, CallBeginsNone
  <2>8. CASE Accept(c)
    BY <2>8, AcceptDoes, CallBeginsNone
  <2>9. CASE Settle(c)
    <3>1. PICK pc, run, stream : pc \in {"draining", "raised"} /\ CallSteps(c, pc, run, stream)
      BY <2>9, SettleDoes
    <3> QED
      BY <3>1, CallBeginsNone
  <2>10. CASE PumpOutput(c)
    BY <1>1, <2>10 DEF PumpOutput
  <2>11. CASE PumpPrompt(c)
    BY <2>11, PumpPromptDoes, CallBeginsNone
  <2>12. CASE PumpPause(c)
    BY <2>12, PumpPauseDoes, CallBeginsNone
  <2>13. CASE PumpFailure(c)
    BY <2>13, PumpFailureDoes, CallBeginsNone
  <2>14. CASE PumpEvicted(c)
    BY <2>14, PumpEvictedDoes, CallBeginsNone
  <2>15. CASE PumpEnd(c)
    BY <2>15, PumpEndDoes, CallBeginsNone
  <2>16. CASE Complete(c)
    BY <2>16, CompleteDoes, CallBeginsNone
  <2> QED
    BY <1>4, <2>1, <2>2, <2>3, <2>4, <2>5, <2>6, <2>7, <2>8, <2>9, <2>10, <2>11,
       <2>12, <2>13, <2>14, <2>15, <2>16 DEF Execute
<1>5. ASSUME NEW c \in Cs, Interrupt(c) PROVE NoneBegins
  <2>1. CASE InterruptPublishing(c) \/ InterruptWaiting(c)
    BY <2>1, InterruptQuietDoes, CallBeginsNone
  <2>2. CASE InterruptEvicting(c)
    BY <2>2, InterruptEvictingDoes, CallBeginsNone
  <2>3. CASE SwallowCancel(c)
    BY <2>3, SwallowCancelDoes, CallBeginsNone
  <2>4. CASE InterruptPump(c)
    BY <2>4, InterruptPumpDoes, CallBeginsNone
  <2> QED
    BY <1>5, <2>1, <2>2, <2>3, <2>4 DEF Interrupt
<1>6. ASSUME NEW r \in Runs, Run(r) \/ KeepClosing(r) PROVE NoneBegins
  BY <1>1, <1>6 DEF Run, Begin, Register, Speak, AskPermission, Return, Fail,
                    Backend, KeepClosing
<1>7. CASE UNCHANGED vars
  BY <1>1, <1>7 DEF vars
<1> QED
  BY <1>2, <1>3, <1>4, <1>5, <1>6, <1>7 DEF Next, Cs

\* Only Admit lengthens the table.
LEMMA OnlyAdmitGrows ==
  ASSUME BaseInv, [Next]_vars, \A c \in Cs : ~Admit(c)
  PROVE  Len(live') <= Len(live)
<1>1. live \in Seq(Entries) /\ Keyed(live) /\ Len(live) \in Nat
  BY LenProperties DEF BaseInv, TypeInv
<1>2. CASE live' = live
  BY <1>1, <1>2
<1>3. ASSUME NEW t, live' = Dropped(live, t) PROVE Len(live') <= Len(live)
  BY <1>1, <1>3, DroppedIs
<1>4. ASSUME NEW t, Deliver(t) \/ Cancel(t) PROVE Len(live') <= Len(live)
  BY <1>2, <1>3, <1>4 DEF Deliver, Cancel
<1>5. ASSUME NEW c \in Cs, Execute(c) PROVE Len(live') <= Len(live)
  <2>1. CASE Greet(c) \/ Acquire(c) \/ GetLock(c) \/ AwaitVictim(c)
             \/ Raise(c) \/ Refuse(c) \/ Accept(c) \/ Settle(c)
    BY <1>2, <2>1 DEF Greet, Acquire, GetLock, AwaitVictim, Raise, Refuse,
                      Accept, Settle
  <2>2. CASE PumpOutput(c) \/ PumpPrompt(c) \/ PumpPause(c) \/ PumpEvicted(c)
             \/ PumpEnd(c)
    BY <1>2, <2>2 DEF PumpOutput, PumpPrompt, PumpPause, PumpEvicted, PumpEnd
  <2>3. CASE Evict(c)
    BY <1>3, <2>3 DEF Evict
  <2>4. CASE PumpFailure(c) \/ Complete(c)
    BY <1>3, <2>4 DEF PumpFailure, Complete
  <2> QED
    BY <1>5, <2>1, <2>2, <2>3, <2>4 DEF Execute
<1>6. ASSUME NEW c, Interrupt(c) PROVE Len(live') <= Len(live)
  <2>1. CASE InterruptPump(c)
    BY <1>3, <2>1 DEF InterruptPump
  <2>2. CASE InterruptPublishing(c) \/ InterruptWaiting(c)
             \/ InterruptEvicting(c) \/ SwallowCancel(c)
    BY <1>2, <2>2 DEF InterruptPublishing, InterruptWaiting,
                      InterruptEvicting, SwallowCancel
  <2> QED
    BY <1>6, <2>1, <2>2 DEF Interrupt
<1>7. ASSUME NEW r, Run(r) \/ KeepClosing(r) PROVE Len(live') <= Len(live)
  BY <1>2, <1>7 DEF Run, Begin, Register, Speak, AskPermission, Return, Fail,
                    Backend, KeepClosing
<1>8. CASE UNCHANGED vars
  BY <1>2, <1>8 DEF vars
<1> QED
  BY <1>4, <1>5, <1>6, <1>7, <1>8 DEF Next, Cs

\* Evict takes one out.  Admit adds one where it has seen room, and while it
\* has the lock nobody waits for a victim.
LEMMA CapacityStep ==
  ASSUME BaseInv, LockInv, CapacityHeld, [Next]_vars
  PROVE  CapacityHeld'
<1>1. /\ live \in Seq(Entries) /\ Keyed(live)
      /\ Len(live) \in Nat /\ MaxLive \in Nat /\ Len(live) <= MaxLive
      /\ \A d \in Cs : calls[d].pc = "evicting" => Len(live) < MaxLive
  BY LenProperties, ExecutorAssumption DEF BaseInv, TypeInv, CapacityHeld, Cs
<1>2. live' \in Seq(Entries) /\ Len(live') \in Nat
  BY TypeStep, LenProperties DEF TypeInv
<1>3. ASSUME NEW c \in Cs, Evict(c) PROVE CapacityHeld'
  <2>1. Len(live) >= MaxLive /\ live' = Dropped(live, Victim.task)
    BY <1>3 DEF Evict
  <2>2. \E r : Has(live, Victim.task, r)
    BY <1>1, <2>1, VictimIsLive
  <2>3. Len(live') = Len(live) - 1
    BY <1>1, <2>1, <2>2, DroppedIs
  <2> QED
    BY <1>1, <1>2, <2>3 DEF CapacityHeld
<1>4. ASSUME NEW c \in Cs, Admit(c) PROVE CapacityHeld'
  <2>1. /\ live' = Registered(live, calls[c].task, Len(sessions) + 1)
        /\ Len(live) < MaxLive
    BY <1>4 DEF Admit
  <2>2. calls[c].task \in Tasks /\ Len(sessions) + 1 \in Nat \ {None}
    BY Facts DEF None
  <2>3. Len(live') <= MaxLive
    BY <1>1, <1>2, <2>1, <2>2, RegisteredIs
  <2>4. /\ calls[c].pc = "admitting"
        /\ CallSteps(c, "draining", Len(sessions) + 1, StreamFor(calls[c].task))
    BY <1>4, AdmitDoes
  <2>5. \A d \in Cs : calls[d].pc # "evicting"
    BY <2>4 DEF LockInv, HasLock
  <2>6. NoneBegins
    BY <2>4, CallBeginsNone
  <2> QED
    BY <2>3, <2>5, <2>6 DEF CapacityHeld, NoneBegins
<1>5. CASE ~\E c \in Cs : Evict(c) \/ Admit(c)
  <2>1. Len(live') <= Len(live) /\ NoneBegins
    BY <1>5, OnlyEvictBegins, OnlyAdmitGrows
  <2> QED
    BY <1>1, <1>2, <2>1 DEF CapacityHeld, NoneBegins
<1> QED
  BY <1>3, <1>4, <1>5

\* The table never outgrows _MAX_LIVE, however many first messages arrive at
\* once and however long each eviction takes, and the slot that a victim leaves
\* stays free until the call that waits for its close registers its own: what
\* _admit_lock, held across _evict_if_full and the registration, is for.
THEOREM CapacityIsHeld == Spec => []CapacityHeld
<1>1. Init => BaseInv /\ LockInv /\ CapacityHeld
  <2> SUFFICES ASSUME Init PROVE LockInv /\ CapacityHeld
    BY InitIsBase
  <2>1. calls = <<>> /\ admission = <<>> /\ live = <<>>
    BY DEF Init
  <2>2. Len(calls) = 0 /\ Len(admission) = 0 /\ Len(live) = 0 /\ admission \in Seq(Nat)
    BY <2>1, EmptySeq
  <2> QED
    BY <2>2, ExecutorAssumption DEF LockInv, CapacityHeld, Cs
<1>2. BaseInv /\ LockInv /\ CapacityHeld /\ [Next]_vars
        => BaseInv' /\ LockInv' /\ CapacityHeld'
  BY BaseStep, LockStep, CapacityStep
<1> QED
  BY <1>1, <1>2, PTL DEF Spec
=============================================================================
