---------------------------- MODULE BridgeProofs ----------------------------
(***************************************************************************)
(* What holds of a connection whatever the number of commands, calls,      *)
(* turns and updates, and whatever the limits: theorems about Bridge.  Its *)
(* commands and its tool calls have an invariant each, and no part in the  *)
(* other's.                                                                *)
(***************************************************************************)
EXTENDS Bridge, FiniteSetTheorems, TLAPS

\* The types of what the commands and the phase are about.
CommandTypes ==
  /\ handler \in [Commands -> Handlers]
  /\ process \in [Commands -> {"none", "running", "over"}]
  /\ terminals \subseteq Commands
  /\ peak \in Nat

\* The commands being spawned count as terminals already: each of them passed
\* the test of the limit, and peak has seen them all at once.
RoomIsTaken ==
  Cardinality(terminals) + Cardinality(Spawning) <= MaxTerminals - 1 + peak

(***************************************************************************)
(* Types, and the number of what is registered and what is on its way.     *)
(***************************************************************************)
LEMMA CommandsAreFinite ==
  ASSUME CommandTypes
  PROVE  /\ IsFiniteSet(terminals) /\ Cardinality(terminals) \in Nat
         /\ IsFiniteSet(Spawning) /\ Cardinality(Spawning) \in Nat
<1>1. \A S \in SUBSET Commands : IsFiniteSet(S) /\ Cardinality(S) \in Nat
  BY BridgeAssumption, FS_Subset, FS_CardinalityType
<1> QED
  BY <1>1 DEF CommandTypes, Spawning

LEMMA KilledType ==
  ASSUME CommandTypes, NEW killed
  PROVE  Killed(killed) \in [Commands -> {"none", "running", "over"}]
BY DEF CommandTypes, Killed

\* A process killed is over; no other becomes running.
LEMMA KilledIsOver ==
  ASSUME CommandTypes, NEW killed, NEW c \in Commands,
         Killed(killed)[c] = "running"
  PROVE  process[c] = "running" /\ c \notin killed
BY DEF CommandTypes, Killed

LEMMA TypesAreKept ==
  ASSUME CommandTypes, [Next]_vars
  PROVE  CommandTypes'
<1> USE DEF CommandTypes
<1>1. CASE Bind \/ UnbindEnds \/ UnbindCancelled
  BY <1>1 DEF Bind, UnbindEnds, UnbindCancelled, Unbound, terminalVars
<1>2. CASE EndTurn
  BY <1>2 DEF EndTurn
<1>3. CASE CloseAll
  BY <1>3, KilledType DEF CloseAll
<1>4. CASE \E u \in Updates : SessionUpdate(u)
  BY <1>4 DEF SessionUpdate, terminalVars
<1>5. ASSUME NEW c \in Commands, Command(c)
      PROVE  CommandTypes'
  <2>1. CASE CreateTerminal(c) \/ Refused(c) \/ Spawned(c) \/ Exits(c)
    BY <2>1 DEF CreateTerminal, Refused, Spawned, Exits, Handlers
  <2>2. CASE Allowed(c)
    <3>1. handler' \in [Commands -> Handlers]
      BY <2>2 DEF Allowed, Handlers
    <3>2. Cardinality(Spawning') \in Nat
      BY <3>1, BridgeAssumption, FS_Subset, FS_CardinalityType DEF Spawning
    <3>3. peak' \in Nat
      BY <2>2, <3>2 DEF Allowed
    <3> QED
      BY <2>2, <3>1, <3>3 DEF Allowed
  <2>3. CASE KillTerminal(c) \/ ReleaseTerminal(c)
    BY <2>3, KilledType DEF KillTerminal, ReleaseTerminal
  <2> QED
    BY <1>5, <2>1, <2>2, <2>3 DEF Command
<1>6. CASE UNCHANGED vars
  BY <1>6 DEF vars, terminalVars
<1> QED
  BY <1>1, <1>2, <1>3, <1>4, <1>5, <1>6 DEF Next

(***************************************************************************)
(* The overshoot.                                                          *)
(***************************************************************************)
\* A step that lets nothing new in keeps the room that is taken.
LEMMA NothingLetIn ==
  ASSUME CommandTypes, RoomIsTaken,
         terminals' \subseteq terminals, Spawning' \subseteq Spawning, peak' = peak
  PROVE  RoomIsTaken'
<1>1. Cardinality(terminals') <= Cardinality(terminals)
      /\ Cardinality(Spawning') <= Cardinality(Spawning)
      /\ Cardinality(terminals') \in Nat /\ Cardinality(Spawning') \in Nat
  BY CommandsAreFinite, FS_Subset, FS_CardinalityType
<1> QED
  BY <1>1, CommandsAreFinite, BridgeAssumption DEF RoomIsTaken, CommandTypes

LEMMA RoomIsKept ==
  ASSUME CommandTypes, RoomIsTaken, [Next]_vars
  PROVE  RoomIsTaken'
<1>1. CASE Bind \/ UnbindEnds \/ UnbindCancelled \/ EndTurn \/ CloseAll
  <2>1. terminals' \subseteq terminals /\ handler' = handler /\ peak' = peak
    BY <1>1 DEF Bind, UnbindEnds, UnbindCancelled, Unbound, EndTurn, CloseAll,
                terminalVars
  <2> QED
    BY <2>1, NothingLetIn DEF Spawning
<1>2. CASE \E u \in Updates : SessionUpdate(u)
  BY <1>2, NothingLetIn DEF SessionUpdate, terminalVars, Spawning
<1>3. ASSUME NEW c \in Commands, Command(c)
      PROVE  RoomIsTaken'
  <2>1. CASE CreateTerminal(c) \/ Refused(c) \/ Exits(c) \/ KillTerminal(c)
             \/ ReleaseTerminal(c)
    <3>1. terminals' \subseteq terminals /\ Spawning' \subseteq Spawning
          /\ peak' = peak
      BY <2>1 DEF CreateTerminal, Refused, Exits, KillTerminal, ReleaseTerminal,
                  Spawning, CommandTypes
    <3> QED
      BY <3>1, NothingLetIn
  <2>2. CASE Allowed(c)
    <3>1. CommandTypes'
      BY TypesAreKept
    <3>2. Cardinality(Spawning') \in Nat /\ Cardinality(terminals) \in Nat
          /\ Cardinality(Spawning) \in Nat
      BY <3>1, CommandsAreFinite, BridgeAssumption, FS_Subset, FS_CardinalityType
         DEF CommandTypes, Spawning
    <3>3. terminals' = terminals /\ peak' >= peak /\ peak' >= Cardinality(Spawning')
      BY <2>2, <3>2 DEF Allowed, CommandTypes
    <3>4. CASE Cardinality(terminals) >= MaxTerminals
      <4>1. Spawning' = Spawning
        BY <2>2, <3>4 DEF Allowed, Spawning, CommandTypes
      <4> QED
        BY <3>1, <3>2, <3>3, <4>1, BridgeAssumption DEF RoomIsTaken, CommandTypes
    <3>5. CASE ~(Cardinality(terminals) >= MaxTerminals)
      BY <3>1, <3>2, <3>3, <3>5, BridgeAssumption DEF RoomIsTaken, CommandTypes
    <3> QED
      BY <3>4, <3>5
  <2>3. CASE Spawned(c)
    <3>1. /\ terminals' = terminals \cup {c}
          /\ Spawning' = Spawning \ {c} /\ c \in Spawning
          /\ peak' = peak
      BY <2>3 DEF Spawned, Spawning, CommandTypes
    <3>2. /\ Cardinality(terminals') <= Cardinality(terminals) + 1
          /\ Cardinality(Spawning') = Cardinality(Spawning) - 1
          /\ Cardinality(terminals') \in Nat
      <4>1. IsFiniteSet(terminals) /\ Cardinality(terminals) \in Nat
            /\ IsFiniteSet(Spawning)
        BY CommandsAreFinite
      <4>2. Cardinality(terminals \cup {c}) = IF c \in terminals
              THEN Cardinality(terminals) ELSE Cardinality(terminals) + 1
        BY <4>1, FS_AddElement
      <4>3. Cardinality(Spawning \ {c}) = IF c \in Spawning
              THEN Cardinality(Spawning) - 1 ELSE Cardinality(Spawning)
        BY <4>1, FS_RemoveElement
      <4> QED
        BY <3>1, <4>1, <4>2, <4>3
    <3> QED
      BY <3>1, <3>2, CommandsAreFinite, BridgeAssumption
         DEF RoomIsTaken, CommandTypes
  <2> QED
    BY <1>3, <2>1, <2>2, <2>3 DEF Command
<1>4. CASE UNCHANGED vars
  BY <1>4, NothingLetIn DEF vars, terminalVars, Spawning
<1> QED
  BY <1>1, <1>2, <1>3, <1>4 DEF Next

\* create_terminal tests the limit before it awaits spawn: the table overshoots
\* _MAX_TERMINALS by less than the commands that were being spawned at once.
THEOREM OvershootHeld == Spec => []OvershootIsBounded
<1>1. Init => CommandTypes /\ RoomIsTaken
  <2> SUFFICES ASSUME Init PROVE CommandTypes /\ RoomIsTaken
    OBVIOUS
  <2>1. CommandTypes
    BY DEF Init, CommandTypes, Handlers
  <2>2. terminals = {} /\ Spawning = {} /\ peak = 0
    BY DEF Init, Spawning
  <2> QED
    BY <2>1, <2>2, FS_EmptySet, BridgeAssumption DEF RoomIsTaken
<1>2. CommandTypes /\ RoomIsTaken /\ [Next]_vars => (CommandTypes /\ RoomIsTaken)'
  BY TypesAreKept, RoomIsKept
<1>3. CommandTypes /\ RoomIsTaken => OvershootIsBounded
  BY CommandsAreFinite, BridgeAssumption
     DEF RoomIsTaken, OvershootIsBounded, CommandTypes
<1> QED
  BY <1>1, <1>2, <1>3, PTL DEF Spec

(***************************************************************************)
(* Which processes outlive their turn.                                     *)
(***************************************************************************)
LEMMA StragglersAreKnown ==
  ASSUME CommandTypes, OnlyStragglersOutlive, [Next]_vars
  PROVE  OnlyStragglersOutlive'
<1> SUFFICES ASSUME NEW d \in Commands, process'[d] = "running"
             PROVE  \/ d \in terminals' /\ (phase' = "bound" \/ d \in late')
                    \/ d \in closing' /\ phase' = "unbinding"
                    \/ d \in dropped'
  BY DEF OnlyStragglersOutlive
<1> DEFINE Kept == \/ d \in terminals /\ (phase = "bound" \/ d \in late)
                   \/ d \in closing /\ phase = "unbinding"
                   \/ d \in dropped
<1>1. process[d] = "running" => Kept
  BY DEF OnlyStragglersOutlive
<1>2. CASE Bind
  BY <1>1, <1>2 DEF Bind, terminalVars
<1>3. CASE EndTurn
  BY <1>1, <1>3 DEF EndTurn
<1>4. CASE CloseAll
  <2>1. process[d] = "running" /\ d \notin closing
    BY <1>4, KilledIsOver DEF CloseAll
  <2> QED
    BY <1>1, <1>4, <2>1 DEF CloseAll
<1>5. CASE UnbindEnds
  BY <1>1, <1>5 DEF UnbindEnds, Unbound, terminalVars
<1>6. CASE UnbindCancelled
  BY <1>1, <1>6 DEF UnbindCancelled, Unbound, terminalVars
<1>7. CASE \E u \in Updates : SessionUpdate(u)
  BY <1>1, <1>7 DEF SessionUpdate, terminalVars
<1>8. ASSUME NEW c \in Commands, Command(c)
      PROVE  \/ d \in terminals' /\ (phase' = "bound" \/ d \in late')
             \/ d \in closing' /\ phase' = "unbinding"
             \/ d \in dropped'
  <2>1. CASE CreateTerminal(c) \/ Allowed(c) \/ Refused(c)
    BY <1>1, <2>1 DEF CreateTerminal, Allowed, Refused, TurnAside
  <2>2. CASE Spawned(c)
    BY <1>1, <2>2 DEF Spawned, TurnAside, CommandTypes
  <2>3. CASE Exits(c)
    BY <1>1, <2>3 DEF Exits, TurnAside, CommandTypes
  <2>4. CASE KillTerminal(c) \/ ReleaseTerminal(c)
    <3>1. process[d] = "running" /\ d # c
      BY <2>4, KilledIsOver DEF KillTerminal, ReleaseTerminal
    <3> QED
      BY <1>1, <2>4, <3>1 DEF KillTerminal, ReleaseTerminal, TurnAside
  <2> QED
    BY <1>8, <2>1, <2>2, <2>3, <2>4 DEF Command
<1>9. CASE UNCHANGED vars
  BY <1>1, <1>9 DEF vars, terminalVars
<1> QED
  BY <1>2, <1>3, <1>4, <1>5, <1>6, <1>7, <1>8, <1>9 DEF Next

\* Whatever runs is a terminal of the turn that is bound, or one its unbind is
\* about to kill, or registered after its turn's unbind, or lost by an unbind
\* that was cancelled before it began to close.
THEOREM StragglersOnly == Spec => []OnlyStragglersOutlive
<1>1. Init => CommandTypes /\ OnlyStragglersOutlive
  BY DEF Init, CommandTypes, Handlers, OnlyStragglersOutlive
<1>2. CommandTypes /\ OnlyStragglersOutlive /\ [Next]_vars
        => (CommandTypes /\ OnlyStragglersOutlive)'
  BY TypesAreKept, StragglersAreKnown
<1> QED
  BY <1>1, <1>2, PTL DEF Spec

(***************************************************************************)
(* What the caller is told of tool calls.                                  *)
(***************************************************************************)
Events == [kind : {"use"}, call : Calls, args : BOOLEAN]
            \cup [kind : {"news"}, call : Calls, from : Nat]

Tolds  == {told[k] : k \in 1..Len(told)}
Heards == {heard[i] : i \in 1..Len(heard)}

\* The calls the turn heard of.
HeardCalls == {u.call : u \in Heards}

Distinct(list) == \A i, j \in 1..Len(list) : list[i].call = list[j].call => i = j

TalkTypes ==
  /\ phase \in Phases
  /\ calls \in Seq(Remembered) /\ heard \in Seq(Updates) /\ told \in Seq(Events)
  /\ phase # "bound" => calls = <<>>
  /\ phase = "between" => heard = <<>> /\ told = <<>>

\* _calls has the calls the turn heard of first, each once.
MemoryInv ==
  /\ Distinct(calls)
  /\ phase = "bound" =>
       /\ \A c \in Calls : Known(calls, c) <=> Folded(c)
       /\ Len(calls) < MaxToolCalls => \A c \in HeardCalls : Known(calls, c)

\* What an entry says of its call: of one not announced nothing was told, or
\* worth telling; of one announced bare the agent gave no arguments; and the
\* arguments of the others were told.
EntryInv(e) ==
  IF ~e.announced
  THEN /\ \A event \in Tolds : event.call # e.call
       /\ \A u \in Heards : u.call = e.call => ~u.args /\ u.content = "none"
  ELSE /\ \E event \in Tolds : event.call = e.call
       /\ e.bare => /\ Use(e.call, TRUE) \notin Tolds
                    /\ \A u \in Heards : u.call = e.call => ~u.args
       /\ ~e.bare => Use(e.call, TRUE) \in Tolds

SpeakInv ==
  /\ \A i \in 1..Len(calls) : EntryInv(calls[i])
  /\ \A event \in Tolds : event.call \in HeardCalls
  /\ \A u \in Heards : u.start /\ ~Folded(u.call) => \E event \in Tolds : event.call = u.call

TalkInv == /\ TalkTypes /\ MemoryInv /\ SpeakInv
           /\ ToolsAreIntroduced /\ NothingSaidIsLost /\ NewsGoesThrough

\* What is told of one update: a ToolUse or none, and its news or none.
Say(c, n, intro, args, news) == (IF intro THEN <<Use(c, args)>> ELSE <<>>)
                                  \o (IF news THEN <<News(c, n)>> ELSE <<>>)

\* What that is, as a sequence.
IsSaid(said, c, n, intro, args, news) ==
  /\ said \in Seq(Events)
  /\ \A m \in 1..Len(said) : \/ intro /\ m = 1 /\ said[m] = Use(c, args)
                             \/ news /\ m = Len(said) /\ said[m] = News(c, n)
  /\ intro => 1 \in 1..Len(said) /\ said[1] = Use(c, args)
  /\ news => Len(said) \in 1..Len(said) /\ said[Len(said)] = News(c, n)

LEMMA SayIs ==
  ASSUME NEW c \in Calls, NEW n \in Nat, NEW intro \in BOOLEAN,
         NEW args \in BOOLEAN, NEW news \in BOOLEAN,
         NEW said, said = Say(c, n, intro, args, news)
  PROVE  IsSaid(said, c, n, intro, args, news)
<1>1. Use(c, args) \in Events /\ News(c, n) \in Events
  BY DEF Events, Use, News
<1>2. PICK use, event : use = Use(c, args) /\ event = News(c, n)
  OBVIOUS
<1>3. CASE intro /\ news
  BY <1>1, <1>2, <1>3 DEF Say, IsSaid
<1>4. CASE intro /\ ~news
  BY <1>1, <1>2, <1>4 DEF Say, IsSaid
<1>5. CASE ~intro /\ news
  BY <1>1, <1>2, <1>5 DEF Say, IsSaid
<1>6. CASE ~intro /\ ~news
  BY <1>6 DEF Say, IsSaid
<1> QED
  BY <1>3, <1>4, <1>5, <1>6

\* Events of either kind.
LEMMA EventsAre ==
  /\ \A c, b : Use(c, b).kind = "use" /\ Use(c, b).call = c /\ Use(c, b).args = b
  /\ \A c, n : News(c, n).kind = "news" /\ News(c, n).call = c /\ News(c, n).from = n
  /\ \A c, n, b : News(c, n) # Use(c, b)
  /\ \A c : Use(c, FALSE) # Use(c, TRUE)
BY DEF Use, News

LEMMA EventIs ==
  ASSUME NEW event \in Events
  PROVE  /\ event.call \in Calls
         /\ event.kind = "use" => event.args \in BOOLEAN /\ event = Use(event.call, event.args)
         /\ event.kind # "use" => event.kind = "news" /\ event.from \in Nat
BY DEF Events, Use, News

\* The end of a sequence that grew.
LEMMA GrownTold ==
  ASSUME NEW more \in Seq(Events), told \in Seq(Events), told' = told \o more
  PROVE  /\ told' \in Seq(Events)
         /\ Len(told') = Len(told) + Len(more) /\ Len(told) \in Nat /\ Len(more) \in Nat
         /\ \A k \in 1..Len(told) : told'[k] = told[k]
         /\ \A k \in 1..Len(told') : k > Len(told) => k - Len(told) \in 1..Len(more)
                                                     /\ told'[k] = more[k - Len(told)]
         /\ \A m \in 1..Len(more) : /\ Len(told) + m \in 1..Len(told')
                                    /\ told'[Len(told) + m] = more[m]
         /\ Tolds' = Tolds \cup {more[m] : m \in 1..Len(more)}
<1>1. PICK old : old = told
  OBVIOUS
<1>2. /\ told' \in Seq(Events)
      /\ Len(told') = Len(told) + Len(more) /\ Len(told) \in Nat /\ Len(more) \in Nat
      /\ \A k \in 1..Len(told) : told'[k] = told[k]
      /\ \A k \in 1..Len(told') : k > Len(told) => k - Len(told) \in 1..Len(more)
                                                  /\ told'[k] = more[k - Len(told)]
  OBVIOUS
<1>3. \A m \in 1..Len(more) : /\ Len(told) + m \in 1..Len(told')
                              /\ told'[Len(told) + m] = more[m]
  BY <1>2
<1>4. Tolds' = Tolds \cup {more[m] : m \in 1..Len(more)}
  <2>1. ASSUME NEW k \in 1..Len(told')
        PROVE  told'[k] \in Tolds \cup {more[m] : m \in 1..Len(more)}
    BY <1>2, <2>1 DEF Tolds
  <2>2. ASSUME NEW k \in 1..Len(told)
        PROVE  told[k] \in {told'[j] : j \in 1..Len(told')}
    BY <1>2, <2>2
  <2>3. ASSUME NEW m \in 1..Len(more)
        PROVE  more[m] \in {told'[j] : j \in 1..Len(told')}
    BY <1>3, <2>3
  <2> QED
    BY <2>1, <2>2, <2>3 DEF Tolds
<1> QED
  BY <1>2, <1>3, <1>4

LEMMA HeardOnes ==
  ASSUME TalkTypes
  PROVE  HeardCalls \subseteq Calls /\ Heards \subseteq Updates
<1>1. \A i \in 1..Len(heard) : heard[i] \in Updates
  BY DEF TalkTypes
<1>2. \A u \in Updates : u.call \in Calls
  BY DEF Updates
<1> QED
  BY <1>1, <1>2 DEF HeardCalls, Heards

LEMMA GrownHeard ==
  ASSUME heard \in Seq(Updates), NEW u \in Updates, heard' = Append(heard, u)
  PROVE  /\ heard' \in Seq(Updates)
         /\ Len(heard) \in Nat /\ Len(heard') = Len(heard) + 1
         /\ \A i \in 1..Len(heard) : heard'[i] = heard[i]
         /\ heard'[Len(heard) + 1] = u
         /\ Heards' = Heards \cup {u}
         /\ HeardCalls' = HeardCalls \cup {u.call}
<1>1. /\ heard' \in Seq(Updates)
      /\ Len(heard) \in Nat /\ Len(heard') = Len(heard) + 1
      /\ \A i \in 1..Len(heard) : heard'[i] = heard[i]
      /\ heard'[Len(heard) + 1] = u
  OBVIOUS
<1>2. Heards' = Heards \cup {u}
  BY <1>1 DEF Heards
<1> QED
  BY <1>1, <1>2 DEF HeardCalls

(***************************************************************************)
(* The flush.                                                              *)
(***************************************************************************)
\* Each member of a finite set of numbers is its k-th for one k.
LEMMA NthIs ==
  ASSUME NEW S, NEW n \in Nat, S \subseteq 1..n
  PROVE  /\ Cardinality(S) \in Nat
         /\ \A k \in 1..Cardinality(S) : Nth(S, k) \in S
         /\ \A k, l \in 1..Cardinality(S) : Nth(S, k) = Nth(S, l) => k = l
         /\ \A i \in S : \E k \in 1..Cardinality(S) : Nth(S, k) = i
<1> DEFINE Below(i) == {j \in S : j < i}
           size     == Cardinality(S)
           rank     == [i \in S |-> Cardinality(Below(i)) + 1]
<1>1. \A i \in S : i \in Nat
  OBVIOUS
<1>2. IsFiniteSet(S) /\ size \in Nat
  <2>1. 1 \in Int /\ n \in Int /\ S \in SUBSET (1..n)
    OBVIOUS
  <2>2. IsFiniteSet(1..n)
    BY <2>1, FS_Interval
  <2>3. IsFiniteSet(S)
    BY <2>1, <2>2, FS_Subset
  <2> QED
    BY <2>3, FS_CardinalityType
<1>3. ASSUME NEW i \in S
      PROVE  /\ IsFiniteSet(Below(i)) /\ Cardinality(Below(i)) \in Nat
             /\ Cardinality(Below(i)) < size
  <2>1. Below(i) \in SUBSET S /\ i \notin Below(i)
    OBVIOUS
  <2>2. IsFiniteSet(Below(i)) /\ Cardinality(Below(i)) <= size
        /\ (size = Cardinality(Below(i)) => S = Below(i))
    BY <1>2, <2>1, FS_Subset
  <2>3. Cardinality(Below(i)) \in Nat
    BY <2>2, FS_CardinalityType
  <2> HIDE DEF Below, size
  <2> QED
    BY <1>2, <1>3, <2>1, <2>2, <2>3
<1>4. ASSUME NEW i \in S, NEW j \in S, i < j
      PROVE  Cardinality(Below(i)) < Cardinality(Below(j))
  <2>1. Below(i) \in SUBSET Below(j) /\ i \in Below(j) /\ i \notin Below(i)
    <3>1. \A k \in S : k < i => k < j
      BY <1>1, <1>4
    <3>2. ~(i < i)
      BY <1>1
    <3> QED
      BY <1>4, <3>1, <3>2
  <2>2. /\ Cardinality(Below(i)) <= Cardinality(Below(j))
        /\ Cardinality(Below(j)) = Cardinality(Below(i)) => Below(j) = Below(i)
    BY <1>3, <2>1, FS_Subset
  <2> HIDE DEF Below
  <2> QED
    BY <1>3, <2>1, <2>2
<1> HIDE DEF size
<1>5. rank \in Injection(S, 1..size)
  <2>1. rank \in [S -> 1..size]
    BY <1>2, <1>3
  <2>2. ASSUME NEW i \in S, NEW j \in S, rank[i] = rank[j] PROVE i = j
    <3>1. Cardinality(Below(i)) = Cardinality(Below(j))
      BY <1>3, <2>2
    <3>2. i \in Nat /\ j \in Nat
      OBVIOUS
    <3> HIDE DEF Below
    <3>3. ~(i < j) /\ ~(j < i)
      BY <1>3, <1>4, <3>1
    <3> QED
      BY <3>2, <3>3
  <2> HIDE DEF rank
  <2> QED
    BY <2>1, <2>2 DEF Injection, IsInjective
<1>6. rank \in Surjection(S, 1..size)
  <2>1. IsFiniteSet(1..size) /\ Cardinality(1..size) = size
    BY <1>2, FS_Interval
  <2> HIDE DEF rank
  <2> QED
    BY <1>2, <1>5, <2>1, FS_Injection DEF size
<1>7. ASSUME NEW k \in 1..size
      PROVE  Nth(S, k) \in S /\ rank[Nth(S, k)] = k
  <2>1. \E i \in S : rank[i] = k
    BY <1>6, <1>7 DEF Surjection
  <2>2. PICK i \in S : rank[i] = k
    BY <2>1
  <2>3. Cardinality({j \in S : j < i}) = k - 1
    BY <1>2, <1>3, <2>2
  <2>4. Nth(S, k) \in S /\ Cardinality({j \in S : j < Nth(S, k)}) = k - 1
    BY <2>3 DEF Nth
  <2> QED
    BY <1>2, <1>3, <2>4
<1>8. ASSUME NEW i \in S
      PROVE  rank[i] \in 1..size /\ Nth(S, rank[i]) = i
  <2>1. rank[i] \in 1..size
    BY <1>2, <1>3, <1>8
  <2>2. Nth(S, rank[i]) \in S /\ rank[Nth(S, rank[i])] = rank[i]
    BY <1>7, <2>1
  <2> HIDE DEF rank
  <2> QED
    BY <1>5, <2>1, <2>2 DEF Injection, IsInjective
<1> HIDE DEF rank
<1> QED
  BY <1>2, <1>7, <1>8 DEF size

\* flush announces each of the silent calls, bare, once, and tells nothing else.
IsFlush(list, said) ==
  /\ said \in Seq(Events)
  /\ \A m \in 1..Len(said) : \E i \in 1..Len(list) :
       ~list[i].announced /\ said[m] = Use(list[i].call, FALSE)
  /\ \A i \in 1..Len(list) : ~list[i].announced =>
       \E m \in 1..Len(said) : said[m] = Use(list[i].call, FALSE)
  /\ \A m, n \in 1..Len(said) : said[m].call = said[n].call => m = n

LEMMA FlushIs ==
  ASSUME NEW list \in Seq(Remembered), Distinct(list)
  PROVE  IsFlush(list, Flush(list).told)
<1> DEFINE silent == {i \in DOMAIN list : ~list[i].announced}
           said   == [k \in 1..Cardinality(silent) |-> Use(list[Nth(silent, k)].call, FALSE)]
<1>1. Flush(list).told = said
  BY DEF Flush
<1>2. /\ DOMAIN list = 1..Len(list) /\ Len(list) \in Nat
      /\ \A i \in 1..Len(list) : list[i].call \in Calls
  <2>1. /\ DOMAIN list = 1..Len(list) /\ Len(list) \in Nat
        /\ \A i \in 1..Len(list) : list[i] \in Remembered
    OBVIOUS
  <2>2. \A e \in Remembered : e.call \in Calls
    BY DEF Remembered
  <2> QED
    BY <2>1, <2>2
<1>3. silent \subseteq 1..Len(list)
  BY <1>2
<1>4. /\ Cardinality(silent) \in Nat
      /\ \A k \in 1..Cardinality(silent) : Nth(silent, k) \in silent
      /\ \A k, l \in 1..Cardinality(silent) : Nth(silent, k) = Nth(silent, l) => k = l
      /\ \A i \in silent : \E k \in 1..Cardinality(silent) : Nth(silent, k) = i
  BY <1>2, <1>3, NthIs
<1>5. \A i \in silent : i \in 1..Len(list) /\ ~list[i].announced
  BY <1>2
<1>6. \A i \in 1..Len(list) : ~list[i].announced => i \in silent
  BY <1>2
<1> HIDE DEF silent
<1>7. \A c \in Calls : Use(c, FALSE) \in Events /\ Use(c, FALSE).call = c
  BY DEF Use, Events
<1>8. \A k \in 1..Cardinality(silent) : said[k] = Use(list[Nth(silent, k)].call, FALSE)
  OBVIOUS
<1>9. said \in Seq(Events) /\ Len(said) = Cardinality(silent)
  <2>1. said \in [1..Cardinality(silent) -> Events]
    BY <1>2, <1>4, <1>5, <1>7
  <2> HIDE DEF said
  <2> QED
    BY <1>4, <2>1
<1> HIDE DEF said
<1>10. ASSUME NEW m \in 1..Len(said), NEW n \in 1..Len(said), said[m].call = said[n].call
       PROVE  m = n
  <2>1. list[Nth(silent, m)].call = list[Nth(silent, n)].call
    BY <1>2, <1>4, <1>5, <1>7, <1>8, <1>9, <1>10
  <2> QED
    BY <1>4, <1>5, <1>9, <1>10, <2>1 DEF Distinct
<1>11. ASSUME NEW m \in 1..Len(said)
       PROVE  \E i \in 1..Len(list) : ~list[i].announced /\ said[m] = Use(list[i].call, FALSE)
  BY <1>4, <1>5, <1>8, <1>9, <1>11
<1>12. ASSUME NEW i \in 1..Len(list), ~list[i].announced
       PROVE  \E m \in 1..Len(said) : said[m] = Use(list[i].call, FALSE)
  BY <1>4, <1>6, <1>8, <1>9, <1>12
<1>13. IsFlush(list, said)
  BY <1>9, <1>10, <1>11, <1>12 DEF IsFlush
<1> QED
  BY <1>1, <1>13

(***************************************************************************)
(* One update.                                                             *)
(***************************************************************************)
\* The entry that setdefault gives.
LEMMA OpenedIs ==
  ASSUME NEW list \in Seq(Remembered), Distinct(list), NEW c \in Calls
  PROVE  LET held == Opened(list, c)
             i    == Entry(held, c)
         IN  /\ held \in Seq(Remembered) /\ Distinct(held)
             /\ i \in 1..Len(held) /\ held[i].call = c
             /\ Known(list, c) => held = list
             /\ ~Known(list, c) => held[i] = [call |-> c, announced |-> FALSE, bare |-> FALSE]
             /\ \A j \in 1..Len(held) : j # i => \E k \in 1..Len(list) : list[k] = held[j]
             /\ \A k \in 1..Len(list) : \E j \in 1..Len(held) : list[k] = held[j]
             /\ Len(held) = IF Known(list, c) THEN Len(list) ELSE Len(list) + 1
<1> DEFINE held == Opened(list, c)
           i    == Entry(held, c)
           new  == [call |-> c, announced |-> FALSE, bare |-> FALSE]
<1>1. /\ DOMAIN list = 1..Len(list) /\ Len(list) \in Nat
      /\ \A k \in 1..Len(list) : list[k] \in Remembered
  OBVIOUS
<1>2. CASE Known(list, c)
  <2>1. held = list
    BY <1>2 DEF Opened
  <2>2. \E k \in DOMAIN list : list[k].call = c
    BY <1>2 DEF Known
  <2>3. i \in 1..Len(list) /\ list[i].call = c
    BY <1>1, <2>1, <2>2 DEF Entry
  <2> QED
    BY <1>1, <1>2, <2>1, <2>3
<1>3. CASE ~Known(list, c)
  <2>1. held = Append(list, new)
    BY <1>3 DEF Opened
  <2>2. new \in Remembered /\ new.call = c
    BY DEF Remembered
  <2> HIDE DEF new, i
  <2>3. /\ held \in Seq(Remembered) /\ Len(held) = Len(list) + 1
        /\ DOMAIN held = 1..Len(held)
        /\ held[Len(list) + 1] = new
        /\ \A k \in 1..Len(list) : held[k] = list[k]
    BY <2>1, <2>2
  <2> HIDE DEF held
  <2>4. \A k \in 1..Len(list) : list[k].call # c
    BY <1>1, <1>3 DEF Known
  <2>5. \A j \in 1..Len(held) : j = Len(list) + 1 \/ j \in 1..Len(list)
    BY <1>1, <2>3
  <2>6. i = Len(list) + 1
    <3>1. \E j \in DOMAIN held : held[j].call = c
      BY <1>1, <2>2, <2>3
    <3>2. i \in DOMAIN held /\ held[i].call = c
      BY <3>1 DEF i, Entry
    <3> QED
      BY <2>3, <2>4, <2>5, <3>2
  <2>7. Distinct(held)
    <3> SUFFICES ASSUME NEW j \in 1..Len(held), NEW k \in 1..Len(held), held[j].call = held[k].call
                 PROVE  j = k
      BY DEF Distinct
    <3> QED
      BY <2>2, <2>3, <2>4, <2>5 DEF Distinct
  <2>8. i \in 1..Len(held) /\ held[i].call = c /\ held[i] = new
    BY <1>1, <2>2, <2>3, <2>6
  <2>9. \A j \in 1..Len(held) : j # i => \E k \in 1..Len(list) : list[k] = held[j]
    BY <2>3, <2>5, <2>6
  <2>10. \A k \in 1..Len(list) : \E j \in 1..Len(held) : list[k] = held[j]
    BY <1>1, <2>3
  <2> QED
    BY <1>3, <2>3, <2>7, <2>8, <2>9, <2>10 DEF new, i, held
<1> QED
  BY <1>2, <1>3

\* What an update makes of the entry of its call, and whether it is introduced.
Waits(e, u)      == ~e.announced /\ ~u.args /\ u.content = "none"
Entered(e, u)    == IF Waits(e, u) THEN e
                    ELSE [call |-> e.call, announced |-> TRUE,
                          bare |-> (e.announced => e.bare) /\ ~u.args]
Introduces(e, u) == IF e.announced THEN e.bare /\ u.args ELSE ~Waits(e, u)

LEMMA EnteredIs ==
  ASSUME NEW e \in Remembered, NEW u \in Updates
  PROVE  /\ Entered(e, u) \in Remembered
         /\ Entered(e, u).call = e.call
         /\ Introduces(e, u) \in BOOLEAN /\ (e.announced \/ u.args) \in BOOLEAN
         /\ u.start \in BOOLEAN /\ u.args \in BOOLEAN
         /\ u.call \in Calls
BY DEF Entered, Remembered, Introduces, Waits, Updates

\* _fold of an update of a call that is remembered, or can be.
LEMMA FoldIs ==
  ASSUME NEW list \in Seq(Remembered), Distinct(list), NEW u \in Updates, NEW n \in Nat,
         Known(list, u.call) \/ ~(Len(list) >= MaxToolCalls),
         Known(list, u.call) => ~u.start
  PROVE  LET held == Opened(list, u.call)
             i    == Entry(held, u.call)
             fold == Fold(list, u, n)
         IN  /\ fold.calls \in Seq(Remembered) /\ Len(fold.calls) = Len(held)
             /\ \A j \in 1..Len(held) : j # i => fold.calls[j] = held[j]
             /\ fold.calls[i] = Entered(held[i], u)
             /\ fold.told = Say(u.call, n, Introduces(held[i], u),
                                held[i].announced \/ u.args, u.content = "news")
<1> DEFINE held == Opened(list, u.call)
           i    == Entry(held, u.call)
           fold == Fold(list, u, n)
<1>1. /\ held \in Seq(Remembered) /\ i \in 1..Len(held) /\ held[i].call = u.call
      /\ Known(list, u.call) => held = list
      /\ ~Known(list, u.call) => held[i] = [call |-> u.call, announced |-> FALSE, bare |-> FALSE]
      /\ u.call \in Calls
  BY OpenedIs DEF Updates
<1>2. fold = IF held[i].announced THEN Completed(held, u, n) ELSE Announced(held, u, n)
  BY DEF Fold
<1> HIDE DEF held, i, fold
<1>3. held[i] \in Remembered /\ DOMAIN held = 1..Len(held)
  BY <1>1
<1>4. held[i] = [call |-> held[i].call, announced |-> held[i].announced, bare |-> held[i].bare]
      /\ held[i].announced \in BOOLEAN /\ held[i].bare \in BOOLEAN
  BY <1>3 DEF Remembered
<1>5. u.args \in BOOLEAN /\ u.start \in BOOLEAN
  BY DEF Updates
<1>6. CASE held[i].announced
  <2>1. ~u.start
    BY <1>1, <1>6
  <2>2. Mapped(u, n) = IF u.content = "news" THEN <<News(u.call, n)>> ELSE <<>>
    BY <2>1 DEF Mapped
  <2>3. fold.told = (IF held[i].bare /\ u.args THEN <<Use(u.call, TRUE)>> ELSE <<>>)
                      \o (IF u.content = "news" THEN <<News(u.call, n)>> ELSE <<>>)
    BY <1>2, <1>6, <2>2 DEF Completed, i
  <2>4. fold.calls = IF held[i].bare /\ u.args THEN [held EXCEPT ![i].bare = FALSE] ELSE held
    BY <1>2, <1>6 DEF Completed, i
  <2>5. Entered(held[i], u) = IF held[i].bare /\ u.args THEN [held[i] EXCEPT !.bare = FALSE] ELSE held[i]
    BY <1>4, <1>5, <1>6 DEF Entered, Waits
  <2>6. Entered(held[i], u) \in Remembered
    BY <1>3, EnteredIs
  <2>7. Introduces(held[i], u) = (held[i].bare /\ u.args) /\ (held[i].announced \/ u.args) = TRUE
    BY <1>6 DEF Introduces
  <2>8. fold.calls \in Seq(Remembered) /\ Len(fold.calls) = Len(held)
    BY <1>1, <1>3, <2>4, <2>5, <2>6
  <2>9. (\A j \in 1..Len(held) : j # i => fold.calls[j] = held[j]) /\ fold.calls[i] = Entered(held[i], u)
    BY <1>1, <1>3, <2>4, <2>5
  <2>10. fold.told = Say(u.call, n, Introduces(held[i], u), held[i].announced \/ u.args, u.content = "news")
    BY <2>3, <2>7 DEF Say
  <2> QED
    BY <2>8, <2>9, <2>10 DEF held, i, fold
<1>7. CASE ~held[i].announced
  <2>1. CASE ~u.args /\ u.content = "none"
    <3>1. fold.calls = held /\ fold.told = <<>>
      BY <1>2, <1>7, <2>1 DEF Announced
    <3>2. Entered(held[i], u) = held[i] /\ ~Introduces(held[i], u) /\ u.content # "news"
      BY <1>7, <2>1 DEF Entered, Introduces, Waits
    <3>3. Say(u.call, n, Introduces(held[i], u), held[i].announced \/ u.args, u.content = "news") = <<>>
      BY <3>2 DEF Say
    <3> QED
      BY <1>1, <3>1, <3>2, <3>3 DEF held, i, fold
  <2>2. CASE ~(~u.args /\ u.content = "none")
    <3> DEFINE entry == [call |-> u.call, announced |-> TRUE, bare |-> ~u.args]
    <3>1. fold.calls = [held EXCEPT ![i] = entry]
      BY <1>2, <1>7, <2>2 DEF Announced, i
    <3>2. fold.told = Mapped([u EXCEPT !.start = TRUE], n)
      BY <1>2, <1>7, <2>2 DEF Announced
    <3>3. Entered(held[i], u) = entry /\ entry \in Remembered
      BY <1>1, <1>7, <2>2 DEF Entered, Waits, Remembered, Updates
    <3>4. Introduces(held[i], u) = TRUE /\ (held[i].announced \/ u.args) = u.args
      BY <1>5, <1>7, <2>2 DEF Introduces, Waits
    <3>5. LET v == [u EXCEPT !.start = TRUE]
          IN v.start = TRUE /\ v.call = u.call /\ v.args = u.args /\ v.content = u.content
      BY DEF Updates
    <3>6. fold.told = Say(u.call, n, Introduces(held[i], u), held[i].announced \/ u.args, u.content = "news")
      BY <3>2, <3>4, <3>5 DEF Mapped, Say
    <3> HIDE DEF entry
    <3>7. /\ fold.calls \in Seq(Remembered) /\ Len(fold.calls) = Len(held)
          /\ \A j \in 1..Len(held) : j # i => fold.calls[j] = held[j]
          /\ fold.calls[i] = Entered(held[i], u)
      BY <1>1, <1>3, <3>1, <3>3
    <3> QED
      BY <3>6, <3>7 DEF held, i, fold
  <2> QED
    BY <2>1, <2>2
<1> QED
  BY <1>6, <1>7

\* As many calls were heard of as there are, and as many are remembered as
\* there are entries.
LEMMA Sizes ==
  ASSUME TalkTypes, Distinct(calls)
  PROVE  /\ IsFiniteSet(HeardCalls) /\ Cardinality(HeardCalls) \in Nat
         /\ Len(calls) \in Nat
         /\ Cardinality({calls[i].call : i \in 1..Len(calls)}) = Len(calls)
<1>1. Len(heard) \in Nat /\ Len(calls) \in Nat
  BY DEF TalkTypes
<1>2. \A k \in Nat : IsFiniteSet(1..k) /\ Cardinality(1..k) = k
  <2>1. ASSUME NEW k \in Nat
        PROVE  IsFiniteSet(1..k) /\ Cardinality(1..k) = IF 1 > k THEN 0 ELSE k - 1 + 1
    BY FS_Interval
  <2> QED
    BY <2>1
<1>3. IsFiniteSet(HeardCalls)
  <2> DEFINE f == [i \in 1..Len(heard) |-> heard[i].call]
  <2>1. f \in Surjection(1..Len(heard), HeardCalls)
    BY DEF Surjection, HeardCalls, Heards
  <2> HIDE DEF f
  <2> QED
    BY <1>1, <1>2, <2>1, FS_Surjection
<1>4. Cardinality({calls[i].call : i \in 1..Len(calls)}) = Len(calls)
  <2> DEFINE f == [i \in 1..Len(calls) |-> calls[i].call]
             T == {calls[i].call : i \in 1..Len(calls)}
  <2>1. f \in Surjection(1..Len(calls), T) /\ f \in Injection(1..Len(calls), T)
    BY DEF Surjection, Injection, IsInjective, Distinct
  <2> HIDE DEF f, T
  <2> QED
    BY <1>1, <1>2, <2>1, FS_Surjection DEF T
<1> QED
  BY <1>1, <1>3, <1>4, FS_CardinalityType

\* Whether a call is one of the first is decided when it is heard of.
LEMMA FoldedGoes ==
  ASSUME heard \in Seq(Updates), NEW u \in Updates, heard' = Append(heard, u)
  PROVE  /\ \A c \in Calls : Folded(c) => c \in HeardCalls
         /\ \A c \in Calls : c # u.call \/ c \in HeardCalls => (Folded(c)' <=> Folded(c))
         /\ u.call \notin HeardCalls
              => (Folded(u.call)' <=> Cardinality(HeardCalls) < MaxToolCalls)
<1>1. PICK n : n = Len(heard)
  OBVIOUS
<1>2. /\ n \in Nat /\ Len(heard') = n + 1
      /\ \A i \in 1..n : heard'[i] = heard[i]
      /\ heard'[n + 1] = u
      /\ DOMAIN heard = 1..n /\ DOMAIN heard' = 1..(n + 1)
  BY <1>1
<1>3. ASSUME NEW i \in 1..(n + 1)
      PROVE  HeardBefore(i)' = HeardBefore(i)
  <2>1. \A k \in 1..(i - 1) : heard'[k] = heard[k]
    BY <1>2
  <2> QED
    BY <2>1 DEF HeardBefore
<1>4. HeardBefore(n + 1) = HeardCalls
  <2>1. 1..((n + 1) - 1) = 1..n
    BY <1>2
  <2> QED
    BY <1>1, <2>1 DEF HeardBefore, HeardCalls, Heards
<1>5. ASSUME NEW c \in Calls, Folded(c) PROVE c \in HeardCalls
  BY <1>1, <1>2, <1>5 DEF Folded, HeardCalls, Heards
<1>6. ASSUME NEW c \in Calls
      PROVE  Folded(c)' <=> \/ Folded(c)
                            \/ /\ u.call = c /\ c \notin HeardCalls
                               /\ Cardinality(HeardCalls \ {c}) < MaxToolCalls
  <2> DEFINE First(i) == /\ heard[i].call = c
                         /\ Cardinality(HeardBefore(i) \ {c}) < MaxToolCalls
                         /\ c \notin HeardBefore(i)
  <2>1. Folded(c) <=> \E i \in 1..n : First(i)
    BY <1>2 DEF Folded
  <2>2. Folded(c)' <=> \E i \in 1..(n + 1) : First(i)'
    BY <1>2 DEF Folded
  <2>3. \A i \in 1..n : First(i)' <=> First(i)
    <3>1. \A i \in 1..n : heard'[i] = heard[i] /\ HeardBefore(i)' = HeardBefore(i)
      BY <1>2, <1>3
    <3> QED
      BY <3>1
  <2>4. First(n + 1)' <=> /\ u.call = c /\ c \notin HeardCalls
                          /\ Cardinality(HeardCalls \ {c}) < MaxToolCalls
    <3>1. HeardBefore(n + 1)' = HeardCalls
      BY <1>2, <1>3, <1>4
    <3> QED
      BY <1>2, <3>1
  <2>5. \A i \in 1..(n + 1) : i \in 1..n \/ i = n + 1
    BY <1>2
  <2>6. 1..n \subseteq 1..(n + 1) /\ n + 1 \in 1..(n + 1)
    BY <1>2
  <2> HIDE DEF First
  <2> QED
    BY <2>1, <2>2, <2>3, <2>4, <2>5, <2>6
<1>7. u.call \notin HeardCalls => HeardCalls \ {u.call} = HeardCalls
  OBVIOUS
<1>8. u.call \in Calls
  BY DEF Updates
<1> QED
  BY <1>5, <1>6, <1>7, <1>8

Past(list, c) == ~Known(list, c) /\ Len(list) >= MaxToolCalls

\* What is remembered, and what is told, when an update comes.
LEMMA UpdateIs ==
  ASSUME TalkTypes, MemoryInv, NEW u \in Updates, SessionUpdate(u)
  PROVE  /\ phase = "bound" /\ phase' = "bound"
         /\ heard' = Append(heard, u)
         /\ u.start => u.call \notin HeardCalls
         /\ Known(calls, u.call) => u.call \in HeardCalls
         /\ \A c \in HeardCalls : Past(calls, u.call) \/ c # u.call => (Known(calls, c) <=> Folded(c))
         /\ Folded(u.call)' <=> ~Past(calls, u.call)
         /\ Past(calls, u.call) =>
              /\ calls' = calls
              /\ told' = told \o Say(u.call, Len(heard) + 1, u.start, u.args, u.content = "news")
         /\ ~Past(calls, u.call) =>
              LET held == Opened(calls, u.call)
                  i    == Entry(held, u.call)
              IN  /\ calls' \in Seq(Remembered) /\ Len(calls') = Len(held)
                  /\ \A j \in 1..Len(held) : j # i => calls'[j] = held[j]
                  /\ calls'[i] = Entered(held[i], u)
                  /\ told' = told \o Say(u.call, Len(heard) + 1, Introduces(held[i], u),
                                         held[i].announced \/ u.args, u.content = "news")
<1>1. /\ phase = "bound" /\ phase' = "bound" /\ heard' = Append(heard, u)
      /\ calls' = Fold(calls, u, Len(heard) + 1).calls
      /\ told' = told \o Fold(calls, u, Len(heard) + 1).told
      /\ u.start => \A i \in DOMAIN heard : heard[i].call # u.call
  BY DEF SessionUpdate
<1>2. u.start => u.call \notin HeardCalls
  BY <1>1 DEF TalkTypes, HeardCalls, Heards
<1>3. u.call \in Calls /\ HeardCalls \subseteq Calls /\ Len(heard) + 1 \in Nat
  <2>1. \A i \in 1..Len(heard) : heard[i] \in Updates
    BY DEF TalkTypes
  <2> QED
    BY <2>1 DEF TalkTypes, HeardCalls, Heards, Updates
<1>4. /\ \A c \in Calls : Folded(c) => c \in HeardCalls
      /\ \A c \in Calls : c # u.call \/ c \in HeardCalls => (Folded(c)' <=> Folded(c))
      /\ u.call \notin HeardCalls
           => (Folded(u.call)' <=> Cardinality(HeardCalls) < MaxToolCalls)
  BY <1>1, FoldedGoes DEF TalkTypes
<1>5. \A c \in Calls : Known(calls, c) <=> Folded(c)
  BY <1>1 DEF MemoryInv
<1>6. Folded(u.call)' <=> ~Past(calls, u.call)
  <2>1. CASE u.call \in HeardCalls
    <3>1. Folded(u.call)' <=> Known(calls, u.call)
      BY <1>3, <1>4, <1>5, <2>1
    <3>2. ~Known(calls, u.call) => Len(calls) >= MaxToolCalls
      <4>1. ~Known(calls, u.call) => ~(Len(calls) < MaxToolCalls)
        BY <1>1, <2>1 DEF MemoryInv
      <4>2. Len(calls) \in Nat
        BY DEF TalkTypes
      <4> QED
        BY <4>1, <4>2, ToolCallsAssumption
    <3> QED
      BY <3>1, <3>2 DEF Past
  <2>2. CASE u.call \notin HeardCalls
    <3> DEFINE K == {calls[i].call : i \in 1..Len(calls)}
    <3>1. /\ IsFiniteSet(HeardCalls) /\ Cardinality(HeardCalls) \in Nat
          /\ Len(calls) \in Nat /\ Cardinality(K) = Len(calls)
      BY Sizes DEF MemoryInv
    <3>2. ~Known(calls, u.call)
      BY <1>3, <1>4, <1>5, <2>2
    <3>3. \A c : c \in K <=> c \in Calls /\ Known(calls, c)
      <4>1. DOMAIN calls = 1..Len(calls) /\ \A i \in 1..Len(calls) : calls[i] \in Remembered
        BY DEF TalkTypes
      <4>2. \A i \in 1..Len(calls) : calls[i].call \in Calls
        BY <4>1 DEF Remembered
      <4> QED
        BY <4>1, <4>2 DEF Known
    <3>4. K \in SUBSET HeardCalls
      BY <1>4, <1>5, <3>3
    <3> HIDE DEF K
    <3>5. Len(calls) <= Cardinality(HeardCalls)
      BY <3>1, <3>4, FS_Subset
    <3>6. Len(calls) < MaxToolCalls => HeardCalls = K
      BY <1>1, <1>3, <3>3, <3>4 DEF MemoryInv
    <3>7. Len(calls) < MaxToolCalls => Cardinality(HeardCalls) = Len(calls)
      BY <3>1, <3>6
    <3> QED
      BY <1>4, <2>2, <3>1, <3>2, <3>5, <3>7, ToolCallsAssumption DEF Past
  <2> QED
    BY <2>1, <2>2
<1>7. CASE Past(calls, u.call)
  <2>1. Fold(calls, u, Len(heard) + 1) =
          [calls |-> calls, told |-> Mapped(u, Len(heard) + 1)]
    BY <1>7 DEF Past, Fold
  <2>2. Mapped(u, Len(heard) + 1) = Say(u.call, Len(heard) + 1, u.start, u.args, u.content = "news")
    BY DEF Mapped, Say
  <2>3. calls' = calls
        /\ told' = told \o Say(u.call, Len(heard) + 1, u.start, u.args, u.content = "news")
    BY <1>1, <2>1, <2>2
  <2> QED
    BY <1>1, <1>2, <1>3, <1>4, <1>5, <1>6, <1>7, <2>3
<1>8. CASE ~Past(calls, u.call)
  <2>1. Known(calls, u.call) \/ ~(Len(calls) >= MaxToolCalls)
    BY <1>8 DEF Past
  <2>2. Known(calls, u.call) => ~u.start
    BY <1>2, <1>3, <1>4, <1>5
  <2>3. calls \in Seq(Remembered) /\ Distinct(calls)
    BY DEF TalkTypes, MemoryInv
  <2>4. LET held == Opened(calls, u.call)
            i    == Entry(held, u.call)
        IN  /\ calls' \in Seq(Remembered) /\ Len(calls') = Len(held)
            /\ \A j \in 1..Len(held) : j # i => calls'[j] = held[j]
            /\ calls'[i] = Entered(held[i], u)
            /\ told' = told \o Say(u.call, Len(heard) + 1, Introduces(held[i], u),
                                   held[i].announced \/ u.args, u.content = "news")
    BY <1>1, <1>3, <2>1, <2>2, <2>3, FoldIs
  <2> QED
    BY <1>1, <1>2, <1>3, <1>4, <1>5, <1>6, <1>8, <2>4
<1> QED
  BY <1>7, <1>8

\* What is remembered after it.
LEMMA MemoryGoesOn ==
  ASSUME TalkTypes, MemoryInv, NEW u \in Updates, SessionUpdate(u)
  PROVE  MemoryInv'
<1> DEFINE held == Opened(calls, u.call)
           i    == Entry(held, u.call)
<1>1. /\ phase = "bound" /\ heard' = Append(heard, u)
      /\ Folded(u.call)' <=> ~Past(calls, u.call)
      /\ Past(calls, u.call) => calls' = calls
      /\ ~Past(calls, u.call) =>
           /\ calls' \in Seq(Remembered) /\ Len(calls') = Len(held)
           /\ \A j \in 1..Len(held) : j # i => calls'[j] = held[j]
           /\ calls'[i] = Entered(held[i], u)
  BY UpdateIs
<1>2. \A c \in Calls : c # u.call => (Folded(c)' <=> Folded(c))
  BY <1>1, FoldedGoes DEF TalkTypes
<1>3. HeardCalls' = HeardCalls \cup {u.call}
  BY <1>1, GrownHeard DEF TalkTypes
<1>4. \A c \in Calls : Known(calls, c) <=> Folded(c)
  BY <1>1 DEF MemoryInv
<1>5. Len(calls) < MaxToolCalls => \A c \in HeardCalls : Known(calls, c)
  BY <1>1 DEF MemoryInv
<1>6. Distinct(calls) /\ calls \in Seq(Remembered) /\ u.call \in Calls /\ Len(calls) \in Nat
  BY DEF MemoryInv, TalkTypes, Updates
<1>7. CASE Past(calls, u.call)
  <2>1. calls' = calls /\ ~(Len(calls) < MaxToolCalls) /\ ~Known(calls, u.call)
    BY <1>1, <1>6, <1>7, ToolCallsAssumption DEF Past
  <2>2. \A c \in Calls : Known(calls, c) <=> Folded(c)'
    BY <1>1, <1>2, <1>4, <1>7, <2>1
  <2> QED
    BY <1>6, <2>1, <2>2 DEF MemoryInv
<1>8. CASE ~Past(calls, u.call)
  <2>1. /\ held \in Seq(Remembered) /\ Distinct(held)
        /\ i \in 1..Len(held) /\ held[i].call = u.call
        /\ Known(calls, u.call) => held = calls
        /\ \A j \in 1..Len(held) : j # i => \E k \in 1..Len(calls) : calls[k] = held[j]
        /\ \A k \in 1..Len(calls) : \E j \in 1..Len(held) : calls[k] = held[j]
        /\ Len(held) = IF Known(calls, u.call) THEN Len(calls) ELSE Len(calls) + 1
    BY <1>6, OpenedIs
  <2>2. PICK list, p : list = held /\ p = i
    OBVIOUS
  <2> HIDE DEF held, i
  <2>3. /\ calls' \in Seq(Remembered) /\ Len(calls') = Len(list)
        /\ \A j \in 1..Len(list) : calls'[j].call = list[j].call
    <3>1. Entered(list[p], u).call = list[p].call
      BY <2>1, <2>2, EnteredIs
    <3> QED
      BY <1>1, <1>8, <2>1, <2>2, <3>1
  <2>4. Distinct(calls')
    BY <2>1, <2>2, <2>3 DEF Distinct
  <2>5. ASSUME NEW c \in Calls
        PROVE  Known(calls', c) <=> Known(calls, c) \/ c = u.call
    <3>1. DOMAIN calls' = 1..Len(list) /\ DOMAIN calls = 1..Len(calls)
      BY <1>6, <2>3
    <3>2. ASSUME NEW j \in 1..Len(list), list[j].call = c
          PROVE  Known(calls, c) \/ c = u.call
      <4>1. CASE j = p
        BY <2>1, <2>2, <3>2, <4>1
      <4>2. CASE j # p
        <5>1. PICK k \in 1..Len(calls) : calls[k] = list[j]
          BY <2>1, <2>2, <4>2
        <5>2. calls[k].call = c /\ k \in DOMAIN calls
          BY <3>1, <3>2, <5>1
        <5> QED
          BY <5>2 DEF Known
      <4> QED
        BY <4>1, <4>2
    <3>3. ASSUME Known(calls, c)
          PROVE  \E j \in 1..Len(list) : list[j].call = c
      <4>1. PICK k \in 1..Len(calls) : calls[k].call = c
        BY <3>1, <3>3 DEF Known
      <4>2. PICK j \in 1..Len(list) : calls[k] = list[j]
        BY <2>1, <2>2, <4>1
      <4> QED
        BY <4>1, <4>2
    <3>4. p \in 1..Len(list) /\ list[p].call = u.call
      BY <2>1, <2>2
    <3>5. Known(calls', c) <=> \E j \in 1..Len(list) : list[j].call = c
      BY <2>3, <3>1 DEF Known
    <3> QED
      BY <3>2, <3>3, <3>4, <3>5
  <2>6. \A c \in Calls : Known(calls', c) <=> Folded(c)'
    BY <1>1, <1>2, <1>4, <1>6, <1>8, <2>5
  <2>7. Len(calls') < MaxToolCalls => \A c \in HeardCalls' : Known(calls', c)
    <3>1. Len(calls') < MaxToolCalls => Len(calls) < MaxToolCalls
      BY <1>6, <2>1, <2>2, <2>3, ToolCallsAssumption
    <3>2. HeardCalls \subseteq Calls
      BY HeardOnes
    <3> QED
      BY <1>3, <1>5, <1>6, <2>5, <3>1, <3>2
  <2> QED
    BY <2>4, <2>6, <2>7 DEF MemoryInv
<1> QED
  BY <1>7, <1>8

\* The entry an update meets says the truth of its call, an entry made for it too.
LEMMA MetIs ==
  ASSUME TalkTypes, MemoryInv, SpeakInv, NEW u \in Updates, SessionUpdate(u),
         ~Past(calls, u.call)
  PROVE  LET held == Opened(calls, u.call)
             i    == Entry(held, u.call)
         IN  /\ held[i] \in Remembered /\ held[i].call = u.call
             /\ EntryInv(held[i])
             /\ held[i].announced => Known(calls, u.call)
<1> DEFINE held == Opened(calls, u.call)
           i    == Entry(held, u.call)
<1>1. Distinct(calls) /\ calls \in Seq(Remembered) /\ u.call \in Calls /\ Len(calls) \in Nat
  BY DEF MemoryInv, TalkTypes, Updates
<1>2. /\ held \in Seq(Remembered)
      /\ i \in 1..Len(held) /\ held[i].call = u.call
      /\ Known(calls, u.call) => held = calls
      /\ ~Known(calls, u.call) => held[i] = [call |-> u.call, announced |-> FALSE, bare |-> FALSE]
  BY <1>1, OpenedIs
<1> HIDE DEF held, i
<1>3. CASE Known(calls, u.call)
  <2>1. PICK j : j = i
    OBVIOUS
  <2>2. j \in 1..Len(calls) /\ held[i] = calls[j]
    BY <1>2, <1>3, <2>1
  <2>3. EntryInv(calls[j])
    BY <2>2 DEF SpeakInv
  <2>4. EntryInv(held[i])
    BY <2>2, <2>3
  <2> QED
    BY <1>2, <1>3, <2>4 DEF held, i
<1>4. CASE ~Known(calls, u.call)
  <2>1. u.call \notin HeardCalls
    <3>1. phase = "bound"
      BY UpdateIs
    <3>2. Len(calls) < MaxToolCalls
      BY <1>1, <1>4, ToolCallsAssumption DEF Past
    <3> QED
      BY <1>4, <3>1, <3>2 DEF MemoryInv
  <2>2. PICK e : e = held[i]
    OBVIOUS
  <2>3. e.call = u.call /\ e.announced = FALSE
    BY <1>2, <1>4, <2>2
  <2>4. \A event \in Tolds : event.call # e.call
    BY <2>1, <2>3 DEF SpeakInv
  <2>5. \A v \in Heards : v.call # e.call
    BY <2>1, <2>3 DEF HeardCalls
  <2>6. EntryInv(e)
    BY <2>3, <2>4, <2>5 DEF EntryInv
  <2>7. EntryInv(held[i])
    BY <2>2, <2>6
  <2> QED
    BY <1>2, <2>2, <2>3, <2>7 DEF held, i
<1> QED
  BY <1>3, <1>4

\* News of one call says nothing of another.
LEMMA OtherEntry ==
  ASSUME NEW u \in Updates, NEW e, EntryInv(e), e.call # u.call,
         NEW more, \A event \in more : event.call = u.call,
         Tolds' = Tolds \cup more, Heards' = Heards \cup {u}
  PROVE  EntryInv(e)'
<1>1. Use(e.call, TRUE) \notin more
  BY EventsAre
<1>2. /\ \A event : event \in Tolds' /\ event.call = e.call
                      <=> event \in Tolds /\ event.call = e.call
      /\ Use(e.call, TRUE) \in Tolds' <=> Use(e.call, TRUE) \in Tolds
  BY <1>1
<1>3. \A v : v \in Heards' /\ v.call = e.call <=> v \in Heards /\ v.call = e.call
  OBVIOUS
<1>4. CASE ~e.announced
  BY <1>2, <1>3, <1>4 DEF EntryInv
<1>5. CASE e.announced
  <2>1. \E event \in Tolds' : event.call = e.call
    BY <1>2, <1>5 DEF EntryInv
  <2>2. e.bare => /\ Use(e.call, TRUE) \notin Tolds'
                  /\ \A v \in Heards' : v.call = e.call => ~v.args
    BY <1>2, <1>3, <1>5 DEF EntryInv
  <2>3. ~e.bare => Use(e.call, TRUE) \in Tolds'
    BY <1>2, <1>5 DEF EntryInv
  <2> QED
    BY <1>5, <2>1, <2>2, <2>3 DEF EntryInv
<1> QED
  BY <1>4, <1>5

\* What an update makes of the entry of its call is true of it.
LEMMA OwnEntry ==
  ASSUME NEW u \in Updates, NEW e \in Remembered, EntryInv(e), e.call = u.call, NEW n \in Nat,
         NEW more, more = Say(u.call, n, Introduces(e, u), e.announced \/ u.args, u.content = "news"),
         Tolds' = Tolds \cup {more[m] : m \in 1..Len(more)}, Heards' = Heards \cup {u}
  PROVE  EntryInv(Entered(e, u))'
<1>1. PICK said : said = {more[m] : m \in 1..Len(more)}
  OBVIOUS
<1>2. /\ Introduces(e, u) \in BOOLEAN /\ (e.announced \/ u.args) \in BOOLEAN
      /\ (u.content = "news") \in BOOLEAN /\ u.call \in Calls /\ u.args \in BOOLEAN
      /\ e.announced \in BOOLEAN /\ e.bare \in BOOLEAN
  BY EnteredIs DEF Remembered
<1>3. PICK intro \in BOOLEAN, args \in BOOLEAN, news \in BOOLEAN :
        /\ intro = Introduces(e, u) /\ args = (e.announced \/ u.args)
        /\ news = (u.content = "news")
  BY <1>2
<1>4. /\ more \in Seq(Events)
      /\ \A m \in 1..Len(more) : \/ intro /\ m = 1 /\ more[m] = Use(u.call, args)
                                 \/ news /\ m = Len(more) /\ more[m] = News(u.call, n)
      /\ intro => 1 \in 1..Len(more) /\ more[1] = Use(u.call, args)
  <2>1. more = Say(u.call, n, intro, args, news)
    BY <1>3
  <2>2. IsSaid(more, u.call, n, intro, args, news)
    BY <1>2, <2>1, SayIs
  <2> QED
    BY <2>2 DEF IsSaid
<1>5. \A event \in said : \/ intro /\ event = Use(u.call, args)
                          \/ news /\ event = News(u.call, n)
  <2>1. \A m \in 1..Len(more) : \/ intro /\ more[m] = Use(u.call, args)
                                \/ news /\ more[m] = News(u.call, n)
    BY <1>4
  <2> QED
    BY <1>1, <2>1
<1>6. intro => Use(u.call, args) \in said
  <2>1. intro => 1 \in 1..Len(more)
    BY <1>4
  <2> QED
    BY <1>1, <1>4, <2>1
<1>7. Tolds' = Tolds \cup said
  BY <1>1
<1>8. \A b \in BOOLEAN : Use(u.call, b).call = u.call /\ News(u.call, n) # Use(u.call, b)
  BY EventsAre
<1>9. Use(u.call, FALSE) # Use(u.call, TRUE)
  BY EventsAre
<1>10. CASE Waits(e, u)
  <2>1. said = {} /\ Entered(e, u) = e /\ ~e.announced /\ ~u.args /\ u.content = "none"
    BY <1>3, <1>10, <1>5 DEF Waits, Entered, Introduces
  <2> QED
    BY <1>7, <2>1 DEF EntryInv
<1>11. CASE ~Waits(e, u)
  <2>1. PICK f : f = Entered(e, u)
    OBVIOUS
  <2>2. f.call = u.call /\ f.announced = TRUE /\ f.bare = ((e.announced => e.bare) /\ ~u.args)
    BY <1>11, <2>1 DEF Entered
  <2>3. CASE e.announced
    <3>1. Introduces(e, u) = (e.bare /\ u.args) /\ (e.announced \/ u.args) = TRUE
      BY <2>3 DEF Introduces
    <3>2. \E event \in Tolds : event.call = u.call
      BY <2>3 DEF EntryInv
    <3>3. f.bare => Use(u.call, TRUE) \notin Tolds' /\ \A v \in Heards' : v.call = u.call => ~v.args
      BY <1>2, <1>3, <1>5, <1>7, <1>8, <2>2, <2>3, <3>1 DEF EntryInv
    <3>4. ~f.bare => Use(u.call, TRUE) \in Tolds'
      BY <1>2, <1>3, <1>6, <1>7, <2>2, <2>3, <3>1 DEF EntryInv
    <3>5. EntryInv(f)'
      BY <1>7, <2>2, <3>2, <3>3, <3>4 DEF EntryInv
    <3> QED
      BY <2>1, <3>5
  <2>4. CASE ~e.announced
    <3>1. Introduces(e, u) = TRUE /\ (e.announced \/ u.args) = u.args
      BY <1>2, <1>11, <2>4 DEF Introduces
    <3>2. \E event \in said : event.call = u.call
      BY <1>2, <1>3, <1>6, <1>8, <3>1
    <3>3. f.bare => Use(u.call, TRUE) \notin Tolds' /\ \A v \in Heards' : v.call = u.call => ~v.args
      BY <1>2, <1>3, <1>5, <1>7, <1>8, <1>9, <2>2, <2>4, <3>1 DEF EntryInv
    <3>4. ~f.bare => Use(u.call, TRUE) \in Tolds'
      BY <1>2, <1>3, <1>6, <1>7, <2>2, <2>4, <3>1
    <3>5. EntryInv(f)'
      BY <1>7, <2>2, <3>2, <3>3, <3>4 DEF EntryInv
    <3> QED
      BY <2>1, <3>5
  <2> QED
    BY <2>3, <2>4
<1> QED
  BY <1>10, <1>11

\* What an update adds to what the caller was told; n is its place, and e the
\* entry it meets.
Tells(u, n, e, more, intro, args, news) ==
  /\ more = Say(u.call, n, intro, args, news)
  /\ IsSaid(more, u.call, n, intro, args, news)
  /\ intro \in BOOLEAN /\ args \in BOOLEAN /\ news \in BOOLEAN
  /\ news = (u.content = "news")
  /\ Past(calls, u.call) => intro = u.start /\ args = u.args
  /\ ~Past(calls, u.call) => intro = Introduces(e, u) /\ args = (e.announced \/ u.args)

Met(c) == Opened(calls, c)[Entry(Opened(calls, c), c)]

LEMMA ToldIs ==
  ASSUME TalkTypes, MemoryInv, NEW u \in Updates, SessionUpdate(u)
  PROVE  \E more, intro, args, news :
           told' = told \o more /\ Tells(u, Len(heard) + 1, Met(u.call), more, intro, args, news)
<1> DEFINE held == Opened(calls, u.call)
<1>1. PICK e, n : e = Met(u.call) /\ n = Len(heard) + 1
  OBVIOUS
<1>2. n \in Nat /\ u.call \in Calls /\ u.start \in BOOLEAN /\ u.args \in BOOLEAN
      /\ (u.content = "news") \in BOOLEAN
  BY <1>1 DEF TalkTypes, Updates
<1>3. CASE Past(calls, u.call)
  <2>1. PICK more : more = Say(u.call, n, u.start, u.args, u.content = "news")
    OBVIOUS
  <2>2. told' = told \o more
    BY <1>1, <1>3, <2>1, UpdateIs
  <2>3. PICK intro \in BOOLEAN, args \in BOOLEAN, news \in BOOLEAN :
          intro = u.start /\ args = u.args /\ news = (u.content = "news")
    BY <1>2
  <2>4. more = Say(u.call, n, intro, args, news)
    BY <2>1, <2>3
  <2>5. IsSaid(more, u.call, n, intro, args, news)
    BY <1>2, <2>4, SayIs
  <2>6. Tells(u, n, e, more, intro, args, news)
    BY <1>3, <2>3, <2>4, <2>5 DEF Tells
  <2> QED
    BY <1>1, <2>2, <2>6
<1>4. CASE ~Past(calls, u.call)
  <2>1. PICK more : more = Say(u.call, n, Introduces(e, u), e.announced \/ u.args,
                               u.content = "news")
    OBVIOUS
  <2>2. told' = told \o more
    BY <1>1, <1>4, <2>1, UpdateIs DEF Met
  <2>3. e \in Remembered
    <3>1. calls \in Seq(Remembered) /\ Distinct(calls)
      BY DEF TalkTypes, MemoryInv
    <3>2. held \in Seq(Remembered) /\ Entry(held, u.call) \in 1..Len(held)
      BY <1>2, <3>1, OpenedIs
    <3> HIDE DEF held
    <3> QED
      BY <1>1, <3>2 DEF held, Met
  <2>4. Introduces(e, u) \in BOOLEAN /\ (e.announced \/ u.args) \in BOOLEAN
    BY <2>3, EnteredIs
  <2>5. PICK intro \in BOOLEAN, args \in BOOLEAN, news \in BOOLEAN :
          /\ intro = Introduces(e, u) /\ args = (e.announced \/ u.args)
          /\ news = (u.content = "news")
    BY <1>2, <2>4
  <2>6. more = Say(u.call, n, intro, args, news)
    BY <2>1, <2>5
  <2>7. IsSaid(more, u.call, n, intro, args, news)
    BY <1>2, <2>6, SayIs
  <2>8. Tells(u, n, e, more, intro, args, news)
    BY <1>4, <2>5, <2>6, <2>7 DEF Tells
  <2> QED
    BY <1>1, <2>2, <2>8
<1> QED
  BY <1>3, <1>4

\* What is told of an update is about its call.
LEMMA SaidOf ==
  ASSUME told \in Seq(Events), NEW more, told' = told \o more,
         NEW c, NEW n, NEW intro, NEW args, NEW news, IsSaid(more, c, n, intro, args, news)
  PROVE  /\ told' \in Seq(Events)
         /\ Tolds' = Tolds \cup {more[m] : m \in 1..Len(more)}
         /\ \A m \in 1..Len(more) : more[m].call = c
<1>1. more \in Seq(Events)
  BY DEF IsSaid
<1>2. /\ told' \in Seq(Events)
      /\ Tolds' = Tolds \cup {more[m] : m \in 1..Len(more)}
  BY <1>1, GrownTold
<1>3. \A m \in 1..Len(more) : more[m].call = c
  BY EventsAre DEF IsSaid
<1> QED
  BY <1>2, <1>3

LEMMA SpeakGoesOn ==
  ASSUME TalkTypes, MemoryInv, SpeakInv, NEW u \in Updates, SessionUpdate(u)
  PROVE  SpeakInv'
<1>1. /\ heard \in Seq(Updates) /\ told \in Seq(Events) /\ heard' = Append(heard, u)
      /\ Folded(u.call)' <=> ~Past(calls, u.call)
      /\ u.call \in Calls
  BY UpdateIs DEF TalkTypes, Updates
<1>2. Heards' = Heards \cup {u} /\ HeardCalls' = HeardCalls \cup {u.call}
  BY <1>1, GrownHeard
<1>3. \A c \in Calls : c # u.call \/ c \in HeardCalls => (Folded(c)' <=> Folded(c))
  BY <1>1, FoldedGoes
<1>4. PICK more, intro, args, news :
        /\ told' = told \o more
        /\ Tells(u, Len(heard) + 1, Met(u.call), more, intro, args, news)
  BY ToldIs
<1>5. PICK said : said = {more[m] : m \in 1..Len(more)}
  OBVIOUS
<1>6. /\ Tolds' = Tolds \cup said
      /\ \A event \in said : event.call = u.call
      /\ intro => \E event \in Tolds' : event.call = u.call
  <2>1. IsSaid(more, u.call, Len(heard) + 1, intro, args, news)
    BY <1>4 DEF Tells
  <2>2. Tolds' = Tolds \cup {more[m] : m \in 1..Len(more)}
    BY <1>1, <1>4, <2>1, SaidOf
  <2>3. \A m \in 1..Len(more) : more[m].call = u.call
    BY <1>1, <1>4, <2>1, SaidOf
  <2>4. intro => 1 \in 1..Len(more)
    BY <2>1 DEF IsSaid
  <2> QED
    BY <1>5, <2>2, <2>3, <2>4
<1>7. \A event \in Tolds' : event.call \in HeardCalls'
  BY <1>2, <1>6 DEF SpeakInv
<1>8. ASSUME NEW v \in Heards', v.start, ~Folded(v.call)'
      PROVE  \E event \in Tolds' : event.call = v.call
  <2>1. v.call \in Calls
    BY <1>1, <1>2, HeardOnes DEF Updates
  <2>2. CASE v \in Heards
    <3>1. v.call \in HeardCalls
      BY <2>2 DEF HeardCalls
    <3>2. ~Folded(v.call)
      BY <1>3, <1>8, <2>1, <3>1
    <3> QED
      BY <1>6, <1>8, <2>2, <3>2 DEF SpeakInv
  <2>3. CASE v = u
    BY <1>1, <1>4, <1>6, <1>8, <2>3 DEF Tells
  <2> QED
    BY <1>2, <2>2, <2>3
<1>9. CASE Past(calls, u.call)
  <2>1. calls' = calls /\ DOMAIN calls = 1..Len(calls)
    BY <1>9, UpdateIs DEF TalkTypes
  <2>2. ASSUME NEW j \in 1..Len(calls)
        PROVE  EntryInv(calls[j])'
    <3>1. PICK e : e = calls[j]
      OBVIOUS
    <3>2. EntryInv(e)
      BY <3>1 DEF SpeakInv
    <3>3. e.call # u.call
      BY <1>9, <2>1, <3>1 DEF Past, Known
    <3>4. EntryInv(e)'
      BY <1>2, <1>6, <3>2, <3>3, OtherEntry
    <3> QED
      BY <2>1, <3>1, <3>4
  <2>3. \A j \in 1..Len(calls') : EntryInv(calls[j])'
    BY <2>1, <2>2
  <2> QED
    BY <1>7, <1>8, <2>3 DEF SpeakInv
<1>10. CASE ~Past(calls, u.call)
  <2>1. PICK held, i : held = Opened(calls, u.call) /\ i = Entry(held, u.call)
    OBVIOUS
  <2>2. Distinct(calls) /\ calls \in Seq(Remembered)
    BY DEF MemoryInv, TalkTypes
  <2>3. /\ Distinct(held) /\ i \in 1..Len(held) /\ held[i].call = u.call
        /\ \A j \in 1..Len(held) : j # i => \E k \in 1..Len(calls) : calls[k] = held[j]
    <3> DEFINE H == Opened(calls, u.call)
               I == Entry(H, u.call)
    <3>1. /\ Distinct(H) /\ I \in 1..Len(H) /\ H[I].call = u.call
          /\ \A j \in 1..Len(H) : j # I => \E k \in 1..Len(calls) : calls[k] = H[j]
      BY <1>1, <2>2, OpenedIs
    <3>2. held = H /\ i = I
      BY <2>1
    <3> HIDE DEF H, I
    <3> QED
      BY <3>1, <3>2
  <2>4. /\ Len(calls') = Len(held)
        /\ \A j \in 1..Len(held) : j # i => calls'[j] = held[j]
        /\ calls'[i] = Entered(held[i], u)
    BY <1>10, <2>1, UpdateIs
  <2>5. ASSUME NEW j \in 1..Len(calls')
        PROVE  EntryInv(calls[j])'
    <3>1. CASE j # i
      <4>1. PICK k \in 1..Len(calls) : calls[k] = held[j]
        BY <2>3, <2>4, <3>1
      <4>2. PICK e : e = held[j]
        OBVIOUS
      <4>3. EntryInv(e)
        BY <4>1, <4>2 DEF SpeakInv
      <4>4. e.call # u.call
        BY <2>3, <2>4, <3>1, <4>2 DEF Distinct
      <4>5. EntryInv(e)'
        BY <1>2, <1>6, <4>3, <4>4, OtherEntry
      <4> QED
        BY <2>4, <3>1, <4>2, <4>5
    <3>2. CASE j = i
      <4>1. PICK e : e = held[i]
        OBVIOUS
      <4>2. e \in Remembered /\ e.call = u.call /\ EntryInv(e)
        BY <1>10, <2>1, <4>1, MetIs
      <4>3. Len(heard) + 1 \in Nat
        BY <1>1
      <4>4. more = Say(u.call, Len(heard) + 1, Introduces(e, u), e.announced \/ u.args,
                       u.content = "news")
        BY <1>4, <1>10, <2>1, <4>1 DEF Tells, Met
      <4>5. PICK f : f = Entered(e, u)
        OBVIOUS
      <4>6. EntryInv(f)'
        BY <1>2, <1>5, <1>6, <4>2, <4>3, <4>4, <4>5, OwnEntry
      <4> QED
        BY <2>4, <3>2, <4>1, <4>5, <4>6
    <3> QED
      BY <3>1, <3>2
  <2> QED
    BY <1>7, <1>8, <2>5 DEF SpeakInv
<1> QED
  BY <1>9, <1>10

\* Where what is told of an update lands, behind the first L of what was told.
Landed(L, c, n, intro, args, news) ==
  /\ L \in Nat /\ DOMAIN told = 1..L /\ DOMAIN told' = 1..Len(told')
  /\ Len(told') \in Nat
  /\ \A k \in 1..L : k \in 1..Len(told') /\ told'[k] = told[k]
  /\ \A k \in 1..Len(told') : k \in 1..L \/ k > L
  /\ \A k \in 1..Len(told') : k > L =>
       \/ intro /\ k = L + 1 /\ told'[k] = Use(c, args)
       \/ news /\ k = Len(told') /\ told'[k] = News(c, n)
  /\ intro => L + 1 \in 1..Len(told') /\ told'[L + 1] = Use(c, args)
  /\ news => Len(told') > L /\ told'[Len(told')] = News(c, n)

LEMMA LandsAt ==
  ASSUME told \in Seq(Events), NEW more, told' = told \o more,
         NEW c, NEW n, NEW intro, NEW args, NEW news, IsSaid(more, c, n, intro, args, news)
  PROVE  Landed(Len(told), c, n, intro, args, news)
<1>1. PICK L, N : L = Len(told) /\ N = Len(more)
  OBVIOUS
<1>2. more \in Seq(Events)
  BY DEF IsSaid
<1>3. /\ told' \in Seq(Events) /\ Len(told') = L + N /\ L \in Nat /\ N \in Nat
      /\ \A k \in 1..L : told'[k] = told[k]
      /\ \A k \in 1..Len(told') : k > L => k - L \in 1..N /\ told'[k] = more[k - L]
      /\ \A m \in 1..N : L + m \in 1..Len(told') /\ told'[L + m] = more[m]
  BY <1>1, <1>2, GrownTold
<1>4. DOMAIN told = 1..L /\ DOMAIN told' = 1..Len(told') /\ Len(told') \in Nat
  BY <1>1, <1>3
<1>5. \A k \in 1..L : k \in 1..Len(told')
  BY <1>3
<1>6. \A k \in 1..Len(told') : k \in 1..L \/ k > L
  BY <1>3
<1>7. \A m \in 1..N : \/ intro /\ m = 1 /\ more[m] = Use(c, args)
                      \/ news /\ m = N /\ more[m] = News(c, n)
  BY <1>1 DEF IsSaid
<1>8. ASSUME NEW k \in 1..Len(told'), k > L
      PROVE  \/ intro /\ k = L + 1 /\ told'[k] = Use(c, args)
             \/ news /\ k = Len(told') /\ told'[k] = News(c, n)
  <2>1. PICK m \in 1..N : m = k - L /\ told'[k] = more[m]
    BY <1>3, <1>8
  <2>2. k = L + m
    BY <1>3, <2>1
  <2>3. m = 1 => k = L + 1
    BY <2>2
  <2>4. m = N => k = Len(told')
    BY <1>3, <2>2
  <2> QED
    BY <1>7, <2>1, <2>3, <2>4
<1>9. intro => L + 1 \in 1..Len(told') /\ told'[L + 1] = Use(c, args)
  <2>1. intro => 1 \in 1..N /\ more[1] = Use(c, args)
    BY <1>1 DEF IsSaid
  <2> QED
    BY <1>3, <2>1
<1>10. news => Len(told') > L /\ told'[Len(told')] = News(c, n)
  <2>1. news => N \in 1..N /\ more[N] = News(c, n)
    BY <1>1 DEF IsSaid
  <2>2. N \in 1..N => Len(told') > L
    BY <1>3
  <2> QED
    BY <1>3, <2>1, <2>2
<1>11. Landed(L, c, n, intro, args, news)
  BY <1>3, <1>4, <1>5, <1>6, <1>8, <1>9, <1>10 DEF Landed
<1> QED
  BY <1>1, <1>11

\* The ToolUses of a call: one more, and only of the call of the update.
LEMMA UsesGrow ==
  ASSUME NEW L, NEW c, NEW n, NEW intro, NEW args, NEW news,
         Landed(L, c, n, intro, args, news), NEW d
  PROVE  /\ UsesOf(d) \subseteq 1..L
         /\ \A k : k \in UsesOf(d)' <=> k \in UsesOf(d) \/ (intro /\ d = c /\ k = L + 1)
<1>1. /\ L \in Nat /\ DOMAIN told = 1..L /\ DOMAIN told' = 1..Len(told')
      /\ \A k \in 1..L : k \in 1..Len(told') /\ told'[k] = told[k]
      /\ \A k \in 1..Len(told') : k \in 1..L \/ k > L
  BY DEF Landed
<1>2. \A k \in 1..Len(told') : k > L =>
        \/ intro /\ k = L + 1 /\ told'[k] = Use(c, args)
        \/ news /\ k = Len(told') /\ told'[k] = News(c, n)
  BY DEF Landed
<1>3. intro => L + 1 \in 1..Len(told') /\ told'[L + 1] = Use(c, args)
  BY DEF Landed
<1>4. /\ Use(c, args).kind = "use" /\ Use(c, args).call = c /\ News(c, n).kind # "use"
  BY EventsAre
<1>5. ASSUME NEW k, k \in UsesOf(d)'
      PROVE  k \in UsesOf(d) \/ (intro /\ d = c /\ k = L + 1)
  <2>1. k \in 1..Len(told') /\ told'[k].call = d /\ told'[k].kind = "use"
    BY <1>1, <1>5 DEF UsesOf
  <2>2. CASE k \in 1..L
    BY <1>1, <2>1, <2>2 DEF UsesOf
  <2>3. CASE k > L
    BY <1>2, <1>4, <2>1, <2>3
  <2> QED
    BY <1>1, <2>1, <2>2, <2>3
<1>6. ASSUME NEW k, k \in UsesOf(d) PROVE k \in UsesOf(d)'
  BY <1>1, <1>6 DEF UsesOf
<1>7. intro /\ d = c => L + 1 \in UsesOf(d)'
  BY <1>1, <1>3, <1>4 DEF UsesOf
<1>8. UsesOf(d) \subseteq 1..L
  BY <1>1 DEF UsesOf
<1>9. \A k : k \in UsesOf(d)' <=> k \in UsesOf(d) \/ (intro /\ d = c /\ k = L + 1)
  BY <1>5, <1>6, <1>7
<1> QED
  BY <1>8, <1>9

\* The events of a call that is not the update's are where they were; those of
\* the update's call begin with its ToolUse, if it had none.
LEMMA IntroducedGoesOn ==
  ASSUME TalkTypes, MemoryInv, SpeakInv, ToolsAreIntroduced,
         NEW u \in Updates, SessionUpdate(u)
  PROVE  ToolsAreIntroduced'
<1>1. /\ heard \in Seq(Updates) /\ told \in Seq(Events) /\ heard' = Append(heard, u)
      /\ Folded(u.call)' <=> ~Past(calls, u.call)
      /\ u.call \in Calls
  BY UpdateIs DEF TalkTypes, Updates
<1>2. \A c \in Calls : c # u.call \/ c \in HeardCalls => (Folded(c)' <=> Folded(c))
  BY <1>1, FoldedGoes
<1>3. PICK more, intro, args, news :
        /\ told' = told \o more
        /\ Tells(u, Len(heard) + 1, Met(u.call), more, intro, args, news)
  BY ToldIs
<1>4. PICK L, n : L = Len(told) /\ n = Len(heard) + 1
  OBVIOUS
<1>5. IsSaid(more, u.call, n, intro, args, news)
  BY <1>3, <1>4 DEF Tells
<1>6. Landed(L, u.call, n, intro, args, news)
  BY <1>1, <1>3, <1>4, <1>5, LandsAt
<1>7. \A d : /\ UsesOf(d) \subseteq 1..L
             /\ \A k : k \in UsesOf(d)' <=> k \in UsesOf(d) \/ (intro /\ d = u.call /\ k = L + 1)
  BY <1>6, UsesGrow
<1>8. /\ L \in Nat /\ DOMAIN told = 1..L /\ DOMAIN told' = 1..Len(told')
      /\ \A k \in 1..L : told'[k] = told[k]
      /\ \A k \in 1..Len(told') : k \in 1..L \/ k > L
      /\ Len(told') \in Nat
  BY <1>6 DEF Landed
<1>9. ASSUME NEW k \in 1..Len(told'), k > L
      PROVE  told'[k].call = u.call /\ ((k = L + 1 /\ intro) \/ news)
  <2>1. \/ intro /\ k = L + 1 /\ told'[k] = Use(u.call, args)
        \/ news /\ told'[k] = News(u.call, n)
    BY <1>6, <1>9 DEF Landed
  <2>2. Use(u.call, args).call = u.call /\ News(u.call, n).call = u.call
    BY EventsAre
  <2> QED
    BY <2>1, <2>2
<1>10. ASSUME NEW c \in Calls, Folded(c)', c # u.call
       PROVE  /\ \A k \in DOMAIN told' : told'[k].call = c => \E j \in UsesOf(c)' : j <= k
              /\ \A j, k \in UsesOf(c)' :
                   j < k => told'[j] = Use(c, FALSE) /\ told'[k] = Use(c, TRUE)
  <2>1. Folded(c)
    BY <1>2, <1>10
  <2>2. UsesOf(c)' = UsesOf(c) /\ UsesOf(c) \subseteq 1..L
    BY <1>7, <1>10
  <2>3. /\ \A k \in DOMAIN told : told[k].call = c => \E j \in UsesOf(c) : j <= k
        /\ \A j, k \in UsesOf(c) :
             j < k => told[j] = Use(c, FALSE) /\ told[k] = Use(c, TRUE)
    BY <2>1 DEF ToolsAreIntroduced
  <2>4. \A k \in 1..Len(told') : told'[k].call = c => k \in 1..L
    BY <1>8, <1>9, <1>10
  <2>5. ASSUME NEW k \in DOMAIN told', told'[k].call = c
        PROVE  \E j \in UsesOf(c)' : j <= k
    <3>1. k \in DOMAIN told /\ told[k].call = c
      BY <1>8, <2>4, <2>5
    <3> QED
      BY <2>2, <2>3, <3>1
  <2>6. ASSUME NEW j \in UsesOf(c)', NEW k \in UsesOf(c)', j < k
        PROVE  told'[j] = Use(c, FALSE) /\ told'[k] = Use(c, TRUE)
    BY <1>8, <2>2, <2>3, <2>6
  <2> QED
    BY <2>5, <2>6
<1>11. ASSUME NEW c, c = u.call, Folded(c)'
       PROVE  /\ \A k \in DOMAIN told' : told'[k].call = c => \E j \in UsesOf(c)' : j <= k
              /\ \A j, k \in UsesOf(c)' :
                   j < k => told'[j] = Use(c, FALSE) /\ told'[k] = Use(c, TRUE)
  <2>1. ~Past(calls, u.call)
    BY <1>1, <1>11
  <2>2. PICK e : e = Met(u.call)
    OBVIOUS
  <2>3. /\ e \in Remembered /\ e.call = u.call /\ EntryInv(e)
        /\ e.announced => Known(calls, u.call)
    BY <2>1, <2>2, MetIs DEF Met
  <2>4. /\ intro = Introduces(e, u) /\ args = (e.announced \/ u.args)
        /\ news = (u.content = "news")
    BY <1>3, <2>1, <2>2 DEF Tells
  <2>5. e.announced \in BOOLEAN /\ e.bare \in BOOLEAN
    BY <2>3 DEF Remembered
  <2>6. \A k \in 1..L : told[k] \in Tolds
    BY <1>4 DEF Tolds
  <2>7. CASE ~e.announced
    <3>1. \A k \in 1..L : told[k].call # c
      BY <1>11, <2>3, <2>6, <2>7 DEF EntryInv
    <3>2. UsesOf(c) = {}
      BY <1>7, <1>8, <3>1 DEF UsesOf
    <3>3. \A k : k \in UsesOf(c)' <=> intro /\ k = L + 1
      BY <1>7, <1>11, <3>2
    <3>4. news => intro
      BY <2>4, <2>7 DEF Introduces, Waits
    <3>5. \A k \in 1..Len(told') : told'[k].call = c => intro /\ L + 1 <= k
      BY <1>8, <1>9, <3>1, <3>4
    <3>6. \A k \in DOMAIN told' : told'[k].call = c => \E j \in UsesOf(c)' : j <= k
      BY <1>8, <3>3, <3>5
    <3>7. \A j, k \in UsesOf(c)' : j = L + 1 /\ k = L + 1
      BY <3>3
    <3>8. ~(L + 1 < L + 1)
      BY <1>8
    <3> QED
      BY <3>6, <3>7, <3>8
  <2>8. CASE e.announced
    <3>1. Folded(c)
      <4>1. Known(calls, c) /\ c \in Calls
        BY <1>1, <1>11, <2>3, <2>8
      <4> QED
        BY <4>1, UpdateIs DEF MemoryInv
    <3>2. /\ \A k \in 1..L : told[k].call = c => \E j \in UsesOf(c) : j <= k
          /\ \A j, k \in UsesOf(c) :
               j < k => told[j] = Use(c, FALSE) /\ told[k] = Use(c, TRUE)
      BY <1>1, <1>8, <1>11, <3>1 DEF ToolsAreIntroduced
    <3>3. UsesOf(c) \subseteq UsesOf(c)' /\ UsesOf(c) \subseteq 1..L
      BY <1>7
    <3>4. \E k \in 1..L : told[k].call = c
      BY <1>4, <1>11, <2>3, <2>8 DEF EntryInv, Tolds
    <3>5. PICK first \in UsesOf(c) : first \in 1..L
      BY <3>2, <3>3, <3>4
    <3>6. \A k \in DOMAIN told' : told'[k].call = c => \E j \in UsesOf(c)' : j <= k
      <4>1. ASSUME NEW k \in 1..Len(told'), told'[k].call = c, k \in 1..L
            PROVE  \E j \in UsesOf(c)' : j <= k
        BY <1>8, <3>2, <3>3, <4>1
      <4>2. ASSUME NEW k \in 1..Len(told'), k > L
            PROVE  \E j \in UsesOf(c)' : j <= k
        BY <1>8, <3>3, <3>5, <4>2
      <4> QED
        BY <1>8, <4>1, <4>2
    <3>7. ASSUME NEW j \in UsesOf(c)', NEW k \in UsesOf(c)', j < k
          PROVE  told'[j] = Use(c, FALSE) /\ told'[k] = Use(c, TRUE)
      <4>1. CASE k \in UsesOf(c)
        <5>1. j # L + 1
          BY <1>8, <3>3, <3>7, <4>1
        <5>2. j \in UsesOf(c)
          BY <1>7, <5>1
        <5> QED
          BY <1>8, <3>2, <3>3, <3>7, <4>1, <5>2
      <4>2. CASE k \notin UsesOf(c)
        <5>1. intro /\ k = L + 1
          BY <1>7, <4>2
        <5>2. j \in UsesOf(c) /\ j \in 1..L
          BY <1>7, <1>8, <3>3, <3>7, <5>1
        <5>3. e.bare /\ args = TRUE
          BY <2>4, <2>8, <5>1 DEF Introduces
        <5>4. Use(c, TRUE) \notin Tolds
          BY <1>11, <2>3, <2>8, <5>3 DEF EntryInv
        <5>5. told'[k] = Use(c, TRUE)
          BY <1>6, <1>11, <5>1, <5>3 DEF Landed
        <5>6. told[j] \in Events /\ told[j].call = c /\ told[j].kind = "use"
          BY <1>1, <1>8, <5>2 DEF UsesOf
        <5>7. told[j] = Use(c, told[j].args) /\ told[j].args \in BOOLEAN
          BY <5>6, EventIs
        <5>8. told[j] # Use(c, TRUE)
          BY <2>6, <5>2, <5>4
        <5>9. told[j] = Use(c, FALSE)
          BY <5>7, <5>8
        <5> QED
          BY <1>8, <5>2, <5>5, <5>9
      <4> QED
        BY <4>1, <4>2
    <3> QED
      BY <3>6, <3>7
  <2> QED
    BY <2>5, <2>7, <2>8
<1> QED
  BY <1>10, <1>11 DEF ToolsAreIntroduced

\* News is told last, of the last update, and of that alone.
LEMMA NewsGoesOn ==
  ASSUME TalkTypes, MemoryInv, NewsGoesThrough, NEW u \in Updates, SessionUpdate(u)
  PROVE  NewsGoesThrough'
<1>1. heard \in Seq(Updates) /\ told \in Seq(Events) /\ heard' = Append(heard, u)
  BY UpdateIs DEF TalkTypes
<1>2. PICK more, intro, args, news :
        /\ told' = told \o more
        /\ Tells(u, Len(heard) + 1, Met(u.call), more, intro, args, news)
  BY ToldIs
<1>3. PICK L, n : L = Len(told) /\ n = Len(heard) + 1
  OBVIOUS
<1>4. IsSaid(more, u.call, n, intro, args, news) /\ news = (u.content = "news")
  BY <1>2, <1>3 DEF Tells
<1>5. Landed(L, u.call, n, intro, args, news)
  BY <1>1, <1>2, <1>3, <1>4, LandsAt
<1>6. /\ L \in Nat /\ DOMAIN told = 1..L /\ DOMAIN told' = 1..Len(told')
      /\ \A k \in 1..L : k \in 1..Len(told') /\ told'[k] = told[k]
      /\ \A k \in 1..Len(told') : k \in 1..L \/ k > L
      /\ Len(told') \in Nat
      /\ news => Len(told') \in 1..Len(told') /\ Len(told') > L
                 /\ told'[Len(told')] = News(u.call, n)
  <2>1. /\ L \in Nat /\ DOMAIN told = 1..L /\ DOMAIN told' = 1..Len(told')
        /\ \A k \in 1..L : k \in 1..Len(told') /\ told'[k] = told[k]
        /\ \A k \in 1..Len(told') : k \in 1..L \/ k > L
        /\ Len(told') \in Nat
    BY <1>5 DEF Landed
  <2>2. news => Len(told') > L /\ told'[Len(told')] = News(u.call, n)
    BY <1>5 DEF Landed
  <2>3. Len(told') > L => Len(told') \in 1..Len(told')
    BY <2>1
  <2> QED
    BY <2>1, <2>2, <2>3
<1>7. /\ n \in Nat /\ n - 1 = Len(heard)
      /\ DOMAIN heard = 1..(n - 1) /\ DOMAIN heard' = 1..n
      /\ \A i \in 1..(n - 1) : heard'[i] = heard[i] /\ i \in 1..n /\ i < n
      /\ \A i \in 1..n : i = n \/ i \in 1..(n - 1)
      /\ n \in 1..n /\ heard'[n] = u
  <2>1. /\ heard' \in Seq(Updates) /\ Len(heard) \in Nat /\ Len(heard') = n
        /\ \A i \in 1..Len(heard) : heard'[i] = heard[i]
        /\ heard'[n] = u
    BY <1>1, <1>3, GrownHeard
  <2>2. n \in Nat /\ n - 1 = Len(heard)
    BY <1>3, <2>1
  <2>3. DOMAIN heard = 1..Len(heard) /\ DOMAIN heard' = 1..n
    BY <1>1, <2>1
  <2>4. /\ \A i \in 1..(n - 1) : i \in 1..n /\ i < n
        /\ \A i \in 1..n : i = n \/ i \in 1..(n - 1)
        /\ n \in 1..n
    BY <2>1, <2>2
  <2> QED
    BY <2>1, <2>2, <2>3, <2>4
<1>8. ASSUME NEW k \in 1..Len(told'), k > L, told'[k].kind = "news"
      PROVE  news /\ k = Len(told') /\ told'[k] = News(u.call, n)
  <2>1. \/ told'[k] = Use(u.call, args)
        \/ news /\ k = Len(told') /\ told'[k] = News(u.call, n)
    BY <1>5, <1>8 DEF Landed
  <2>2. Use(u.call, args).kind = "use"
    BY EventsAre
  <2> QED
    BY <1>8, <2>1, <2>2
<1>9. \A c, m : News(c, m).kind = "news" /\ News(c, m).from = m
  BY EventsAre
<1> DEFINE Carries(i) == i \in DOMAIN heard /\ heard[i].content = "news"
           IsNews(k)  == k \in DOMAIN told /\ told[k].kind = "news"
           Wanted     == /\ \A k : IsNews(k) => \E i : Carries(i) /\ told[k] = News(heard[i].call, i)
                         /\ \A i : Carries(i) => \E k : IsNews(k) /\ told[k] = News(heard[i].call, i)
                         /\ \A j, k : IsNews(j) /\ IsNews(k) /\ j < k => told[j].from < told[k].from
<1>10. Wanted
  BY DEF NewsGoesThrough
<1>11. ASSUME NEW k, IsNews(k)'
       PROVE  \E i : Carries(i)' /\ told'[k] = News(heard'[i].call, i)
  <2>1. CASE k \in 1..L
    <3>1. IsNews(k) /\ told'[k] = told[k]
      BY <1>6, <1>11, <2>1
    <3>2. PICK i : Carries(i) /\ told[k] = News(heard[i].call, i)
      BY <1>10, <3>1
    <3>3. Carries(i)' /\ heard'[i] = heard[i]
      BY <1>7, <3>2
    <3> QED
      BY <3>1, <3>2, <3>3
  <2>2. CASE k > L
    <3>1. news /\ told'[k] = News(u.call, n)
      BY <1>6, <1>8, <1>11, <2>2
    <3>2. Carries(n)' /\ heard'[n] = u
      BY <1>4, <1>7, <3>1
    <3> QED
      BY <3>1, <3>2
  <2> QED
    BY <1>6, <1>11, <2>1, <2>2
<1>12. ASSUME NEW i, Carries(i)'
       PROVE  \E k : IsNews(k)' /\ told'[k] = News(heard'[i].call, i)
  <2>1. CASE i \in 1..(n - 1)
    <3>1. Carries(i) /\ heard'[i] = heard[i]
      BY <1>7, <1>12, <2>1
    <3>2. PICK k : IsNews(k) /\ told[k] = News(heard[i].call, i)
      BY <1>10, <3>1
    <3>3. IsNews(k)' /\ told'[k] = told[k]
      BY <1>6, <3>2
    <3> QED
      BY <3>1, <3>2, <3>3
  <2>2. CASE i = n
    <3>1. news
      BY <1>4, <1>7, <1>12, <2>2
    <3>2. PICK k : k = Len(told')
      OBVIOUS
    <3>3. IsNews(k)' /\ told'[k] = News(u.call, n)
      BY <1>6, <1>9, <3>1, <3>2
    <3> QED
      BY <1>7, <2>2, <3>3
  <2> QED
    BY <1>7, <1>12, <2>1, <2>2
<1>13. ASSUME NEW j, NEW k, IsNews(j)', IsNews(k)', j < k
       PROVE  told'[j].from < told'[k].from
  <2>1. CASE k \in 1..L
    <3>1. j \in 1..L
      BY <1>6, <1>13, <2>1
    <3>2. IsNews(j) /\ IsNews(k) /\ told'[j] = told[j] /\ told'[k] = told[k]
      BY <1>6, <1>13, <2>1, <3>1
    <3> QED
      BY <1>10, <1>13, <3>2
  <2>2. CASE k > L
    <3>1. k = Len(told') /\ told'[k].from = n
      <4>1. k \in 1..Len(told') /\ told'[k].kind = "news"
        BY <1>6, <1>13
      <4>2. k = Len(told') /\ told'[k] = News(u.call, n)
        BY <1>8, <2>2, <4>1
      <4> QED
        BY <1>9, <4>2
    <3>2. j \in 1..L
      <4>1. j \in 1..Len(told') /\ k \in 1..Len(told') /\ told'[j].kind = "news"
        BY <1>6, <1>13
      <4>2. j > L => j = Len(told')
        BY <1>8, <4>1
      <4>3. j \in Nat /\ k \in Nat
        BY <1>6, <4>1
      <4>4. j # k
        BY <1>13, <4>3
      <4>5. j \in 1..L \/ j > L
        BY <1>6, <4>1
      <4>6. k = Len(told')
        BY <3>1
      <4> QED
        BY <4>2, <4>4, <4>5, <4>6
    <3>3. IsNews(j) /\ told'[j] = told[j]
      BY <1>6, <1>13, <3>2
    <3>4. PICK i : Carries(i) /\ told[j] = News(heard[i].call, i)
      BY <1>10, <3>3
    <3>5. told'[j].from = i /\ i < n
      BY <1>7, <1>9, <3>3, <3>4
    <3> QED
      BY <3>1, <3>5
  <2> QED
    BY <1>6, <1>13, <2>1, <2>2
<1>14. Wanted'
  BY <1>11, <1>12, <1>13
<1> QED
  BY <1>14 DEF NewsGoesThrough

\* An update keeps all of it.
LEMMA UpdateKeeps ==
  ASSUME TalkInv, NEW u \in Updates, SessionUpdate(u)
  PROVE  TalkInv'
<1> USE DEF TalkInv
<1>1. phase = "bound" /\ phase' = "bound" /\ heard' = Append(heard, u)
  BY UpdateIs
<1>2. heard' \in Seq(Updates)
  BY <1>1, GrownHeard DEF TalkTypes
<1>3. told' \in Seq(Events)
  <2>1. PICK more, intro, args, news :
          /\ told' = told \o more
          /\ Tells(u, Len(heard) + 1, Met(u.call), more, intro, args, news)
    BY ToldIs
  <2>2. more \in Seq(Events)
    BY <2>1 DEF Tells, IsSaid
  <2> QED
    BY <2>1, <2>2 DEF TalkTypes
<1>4. calls' \in Seq(Remembered)
  BY UpdateIs DEF TalkTypes
<1>5. TalkTypes'
  BY <1>1, <1>2, <1>3, <1>4 DEF TalkTypes, Phases
<1>6. NothingSaidIsLost'
  BY <1>1 DEF NothingSaidIsLost, Ending
<1> QED
  BY <1>5, <1>6, MemoryGoesOn, SpeakGoesOn, IntroducedGoesOn, NewsGoesOn

\* With nothing heard, told or remembered there is nothing to say.
LEMMA NothingYet ==
  ASSUME heard' = <<>>, told' = <<>>, calls' = <<>>, phase' \in Phases
  PROVE  TalkInv'
<1>1. Heards' = {} /\ HeardCalls' = {} /\ Tolds' = {}
  BY DEF Heards, HeardCalls, Tolds
<1>2. \A c : ~Folded(c)' /\ ~Known(calls', c)
  BY DEF Folded, Known
<1>3. TalkTypes'
  BY DEF TalkTypes
<1>4. MemoryInv' /\ SpeakInv'
  BY <1>1, <1>2 DEF MemoryInv, Distinct, SpeakInv
<1>5. ToolsAreIntroduced'
  BY <1>2 DEF ToolsAreIntroduced
<1>6. NothingSaidIsLost' /\ NewsGoesThrough'
  <2>1. DOMAIN heard' = {} /\ DOMAIN told' = {}
    OBVIOUS
  <2>2. NothingSaidIsLost'
    BY <2>1 DEF NothingSaidIsLost
  <2> QED
    BY <2>1, <2>2 DEF NewsGoesThrough
<1> QED
  BY <1>3, <1>4, <1>5, <1>6 DEF TalkInv

\* A step that neither hears, tells nor remembers.
LEMMA TalkIsLeft ==
  ASSUME TalkInv, UNCHANGED turnVars,
         phase' = phase \/ (phase = "unbinding" /\ phase' = "reaping")
  PROVE  TalkInv'
<1>1. calls' = calls /\ heard' = heard /\ told' = told
  BY DEF turnVars
<1>2. /\ TalkTypes /\ MemoryInv /\ SpeakInv
      /\ ToolsAreIntroduced /\ NothingSaidIsLost /\ NewsGoesThrough
  BY DEF TalkInv
<1>3. Tolds' = Tolds /\ Heards' = Heards /\ HeardCalls' = HeardCalls
  BY <1>1 DEF Tolds, Heards, HeardCalls
<1>4. \A c : Folded(c)' <=> Folded(c)
  BY <1>1 DEF Folded, HeardBefore
<1>5. TalkTypes'
  BY <1>1, <1>2 DEF TalkTypes, Phases
<1>6. MemoryInv'
  <2>1. Distinct(calls)'
    BY <1>1, <1>2 DEF MemoryInv, Distinct
  <2>2. phase' = "bound" => phase = "bound"
    OBVIOUS
  <2> QED
    BY <1>1, <1>2, <1>3, <1>4, <2>1, <2>2 DEF MemoryInv
<1>7. SpeakInv'
  <2>1. \A e : EntryInv(e)' <=> EntryInv(e)
    BY <1>3 DEF EntryInv
  <2> QED
    BY <1>1, <1>2, <1>3, <1>4, <2>1 DEF SpeakInv
<1>8. ToolsAreIntroduced'
  <2>1. \A c : UsesOf(c)' = UsesOf(c)
    BY <1>1 DEF UsesOf
  <2> QED
    BY <1>1, <1>2, <1>4, <2>1 DEF ToolsAreIntroduced
<1>9. NothingSaidIsLost'
  <2>1. \A c : IsTold(c)' <=> IsTold(c)
    BY <1>1 DEF IsTold
  <2>2. Ending' => Ending
    BY DEF Ending
  <2> QED
    BY <1>1, <1>2, <1>4, <2>1, <2>2 DEF NothingSaidIsLost
<1>10. NewsGoesThrough'
  BY <1>1, <1>2 DEF NewsGoesThrough
<1> QED
  BY <1>5, <1>6, <1>7, <1>8, <1>9, <1>10 DEF TalkInv

\* The end of a turn: the flush tells of the calls that were not announced, and
\* of no other.
LEMMA EndKeeps ==
  ASSUME TalkInv, EndTurn
  PROVE  TalkInv'
<1>1. /\ TalkTypes /\ MemoryInv /\ SpeakInv
      /\ ToolsAreIntroduced /\ NothingSaidIsLost /\ NewsGoesThrough
  BY DEF TalkInv
<1>2. /\ phase = "bound" /\ phase' = "unbinding" /\ calls' = <<>> /\ heard' = heard
      /\ calls \in Seq(Remembered) /\ told \in Seq(Events) /\ Distinct(calls)
  BY <1>1 DEF EndTurn, TalkTypes, MemoryInv
<1>3. PICK more, L : more = Flush(calls).told /\ L = Len(told)
  OBVIOUS
<1>4. told' = told \o more
  BY <1>3 DEF EndTurn
<1>5. IsFlush(calls, more)
  BY <1>2, <1>3, FlushIs
<1>6. /\ more \in Seq(Events)
      /\ \A m, n \in 1..Len(more) : more[m].call = more[n].call => m = n
  BY <1>5 DEF IsFlush
<1>7. \A m \in 1..Len(more) : \E i \in 1..Len(calls) :
        ~calls[i].announced /\ more[m] = Use(calls[i].call, FALSE)
  BY <1>5 DEF IsFlush
<1>8. \A i \in 1..Len(calls) : ~calls[i].announced =>
        \E m \in 1..Len(more) : more[m] = Use(calls[i].call, FALSE)
  BY <1>5 DEF IsFlush
<1>9. /\ told' \in Seq(Events) /\ Len(told') \in Nat
      /\ L \in Nat /\ DOMAIN told = 1..L /\ DOMAIN told' = 1..Len(told')
      /\ \A k \in 1..L : k \in 1..Len(told') /\ told'[k] = told[k]
      /\ \A k \in 1..Len(told') : k \in 1..L \/ k > L
      /\ \A k \in 1..Len(told') : k > L => k - L \in 1..Len(more) /\ told'[k] = more[k - L]
      /\ Tolds' = Tolds \cup {more[m] : m \in 1..Len(more)}
  <2>1. /\ told' \in Seq(Events) /\ Len(told') = L + Len(more) /\ L \in Nat /\ Len(more) \in Nat
        /\ \A k \in 1..L : told'[k] = told[k]
        /\ \A k \in 1..Len(told') : k > L => k - L \in 1..Len(more) /\ told'[k] = more[k - L]
        /\ Tolds' = Tolds \cup {more[m] : m \in 1..Len(more)}
    BY <1>2, <1>3, <1>4, <1>6, GrownTold
  <2>2. /\ Len(told') \in Nat
        /\ \A k \in 1..L : k \in 1..Len(told')
        /\ \A k \in 1..Len(told') : k \in 1..L \/ k > L
    BY <2>1
  <2>3. DOMAIN told = 1..L /\ DOMAIN told' = 1..Len(told')
    BY <1>2, <1>3, <2>1
  <2> QED
    BY <2>1, <2>2, <2>3
<1>10. ASSUME NEW k \in 1..Len(told'), k > L
       PROVE  \E i \in 1..Len(calls) :
                /\ ~calls[i].announced
                /\ told'[k].call = calls[i].call /\ told'[k].kind = "use"
  <2>1. k - L \in 1..Len(more) /\ told'[k] = more[k - L]
    BY <1>9, <1>10
  <2>2. PICK i \in 1..Len(calls) :
               ~calls[i].announced /\ more[k - L] = Use(calls[i].call, FALSE)
    BY <1>7, <2>1
  <2>3. Use(calls[i].call, FALSE).call = calls[i].call /\ Use(calls[i].call, FALSE).kind = "use"
    BY EventsAre
  <2> QED
    BY <2>1, <2>2, <2>3
<1>11. /\ Heards' = Heards /\ HeardCalls' = HeardCalls
       /\ \A c : Folded(c)' <=> Folded(c)
  BY <1>2 DEF Heards, HeardCalls, Folded, HeardBefore
<1>12. /\ \A c \in Calls : Known(calls, c) <=> Folded(c)
       /\ \A c \in Calls : Folded(c) => c \in HeardCalls
  <2>1. \A c \in Calls : Folded(c) => c \in HeardCalls
    <3>1. DOMAIN heard = 1..Len(heard)
      BY <1>1 DEF TalkTypes
    <3> QED
      BY <3>1 DEF Folded, HeardCalls, Heards
  <2> QED
    BY <1>1, <1>2, <2>1 DEF MemoryInv
<1>13. /\ DOMAIN calls = 1..Len(calls)
       /\ \A i \in 1..Len(calls) : calls[i] \in Remembered /\ calls[i].call \in Calls
  <2>1. DOMAIN calls = 1..Len(calls) /\ \A i \in 1..Len(calls) : calls[i] \in Remembered
    BY <1>2
  <2> QED
    BY <2>1 DEF Remembered
<1>14. \A i \in 1..Len(calls) : EntryInv(calls[i])
  BY <1>1 DEF SpeakInv
<1>15. TalkTypes'
  BY <1>1, <1>2, <1>9 DEF TalkTypes, Phases
<1>16. MemoryInv'
  BY <1>2 DEF MemoryInv, Distinct
<1>17. SpeakInv'
  <2>1. \A event \in Tolds' : event.call \in HeardCalls'
    <3>1. ASSUME NEW m \in 1..Len(more) PROVE more[m].call \in HeardCalls
      <4>1. PICK i \in 1..Len(calls) :
              ~calls[i].announced /\ more[m] = Use(calls[i].call, FALSE)
        BY <1>7
      <4>2. more[m].call = calls[i].call
        <5>1. Use(calls[i].call, FALSE).call = calls[i].call
          BY EventsAre
        <5> QED
          BY <4>1, <5>1
      <4>3. Known(calls, calls[i].call)
        BY <1>13 DEF Known
      <4> QED
        BY <1>12, <1>13, <4>2, <4>3
    <3> QED
      BY <1>1, <1>9, <1>11, <3>1 DEF SpeakInv
  <2>2. \A u \in Heards' : u.start /\ ~Folded(u.call)' => \E event \in Tolds' : event.call = u.call
    BY <1>1, <1>9, <1>11 DEF SpeakInv
  <2> QED
    BY <1>2, <2>1, <2>2 DEF SpeakInv
<1>18. ToolsAreIntroduced'
  <2> SUFFICES ASSUME NEW c \in Calls, Folded(c)
               PROVE  /\ \A k \in DOMAIN told' : told'[k].call = c => \E j \in UsesOf(c)' : j <= k
                      /\ \A j, k \in UsesOf(c)' :
                           j < k => told'[j] = Use(c, FALSE) /\ told'[k] = Use(c, TRUE)
    BY <1>11 DEF ToolsAreIntroduced
  <2>1. PICK i \in 1..Len(calls) : calls[i].call = c
    BY <1>12, <1>13 DEF Known
  <2>2. \A l \in 1..Len(calls) : calls[l].call = c => l = i
    BY <1>2, <2>1 DEF Distinct
  <2>3. ASSUME NEW k \in 1..Len(told'), k > L, told'[k].call = c
        PROVE  ~calls[i].announced /\ told'[k].kind = "use"
    BY <1>10, <2>2, <2>3
  <2>4. UsesOf(c) \subseteq 1..L /\ \A k \in 1..L : k \in UsesOf(c)' <=> k \in UsesOf(c)
    BY <1>9 DEF UsesOf
  <2>5. UsesOf(c)' = {k \in 1..Len(told') : told'[k].call = c /\ told'[k].kind = "use"}
    BY <1>9 DEF UsesOf
  <2>6. /\ \A k \in 1..L : told[k].call = c => \E j \in UsesOf(c) : j <= k
        /\ \A j, k \in UsesOf(c) : j < k => told[j] = Use(c, FALSE) /\ told[k] = Use(c, TRUE)
    BY <1>1, <1>9 DEF ToolsAreIntroduced
  <2>7. CASE calls[i].announced
    <3>1. \A k \in 1..Len(told') : told'[k].call = c => k \in 1..L
      BY <1>9, <2>3, <2>7
    <3>2. UsesOf(c)' = UsesOf(c)
      BY <2>4, <2>5, <3>1
    <3>3. ASSUME NEW k \in DOMAIN told', told'[k].call = c
          PROVE  \E j \in UsesOf(c)' : j <= k
      <4>1. k \in 1..L /\ told[k].call = c
        BY <1>9, <3>1, <3>3
      <4> QED
        BY <2>6, <3>2, <4>1
    <3>4. ASSUME NEW j \in UsesOf(c)', NEW k \in UsesOf(c)', j < k
          PROVE  told'[j] = Use(c, FALSE) /\ told'[k] = Use(c, TRUE)
      BY <1>9, <2>4, <2>6, <3>2, <3>4
    <3> QED
      BY <3>3, <3>4
  <2>8. CASE ~calls[i].announced
    <3>1. \A k \in 1..L : told[k].call # c
      <4>1. \A event \in Tolds : event.call # c
        BY <1>14, <2>1, <2>8 DEF EntryInv
      <4>2. \A k \in 1..L : told[k] \in Tolds
        BY <1>3 DEF Tolds
      <4> QED
        BY <4>1, <4>2
    <3>2. \A k \in 1..Len(told') : told'[k].call = c => k > L
      BY <1>9, <3>1
    <3>3. ASSUME NEW j \in 1..Len(told'), NEW k \in 1..Len(told'),
                 told'[j].call = c, told'[k].call = c
          PROVE  j = k
      <4>1. /\ j - L \in 1..Len(more) /\ told'[j] = more[j - L]
            /\ k - L \in 1..Len(more) /\ told'[k] = more[k - L]
        BY <1>9, <3>2, <3>3
      <4>2. j - L = k - L
        BY <1>6, <3>3, <4>1
      <4>3. j \in Nat /\ k \in Nat
        BY <1>9
      <4> QED
        BY <1>9, <4>2, <4>3
    <3>4. ASSUME NEW k \in DOMAIN told', told'[k].call = c
          PROVE  \E j \in UsesOf(c)' : j <= k
      <4>1. k \in 1..Len(told') /\ k \in Nat
        BY <1>9
      <4>2. k \in UsesOf(c)'
        BY <2>3, <2>5, <3>2, <3>4, <4>1
      <4> QED
        BY <4>1, <4>2
    <3>5. ASSUME NEW j \in UsesOf(c)', NEW k \in UsesOf(c)', j < k
          PROVE  FALSE
      <4>1. j = k /\ k \in Nat
        BY <1>9, <2>5, <3>3
      <4> QED
        BY <3>5, <4>1
    <3> QED
      BY <3>4, <3>5
  <2> QED
    BY <2>7, <2>8
<1>19. NothingSaidIsLost'
  <2> SUFFICES ASSUME NEW i \in DOMAIN heard, NEW u, u = heard[i]
               PROVE  /\ Folded(u.call) \/ u.start => IsTold(u.call)'
                      /\ Folded(u.call) /\ u.args => \E k \in DOMAIN told' : told'[k] = Use(u.call, TRUE)
    BY <1>2, <1>11 DEF NothingSaidIsLost
  <2>1. u \in Heards /\ u \in Updates /\ u.call \in Calls
    <3>1. DOMAIN heard = 1..Len(heard)
      BY <1>1 DEF TalkTypes
    <3>2. u \in Heards
      BY <3>1 DEF Heards
    <3> QED
      BY <1>1, <3>2, HeardOnes DEF Updates
  <2>2. \A event \in Tolds' : \E k \in DOMAIN told' : told'[k] = event
    BY <1>9 DEF Tolds
  <2>3. (\E event \in Tolds' : event.call = u.call) => IsTold(u.call)'
    BY <2>2 DEF IsTold
  <2>4. CASE ~Folded(u.call)
    <3>1. u.start => \E event \in Tolds' : event.call = u.call
      BY <1>1, <1>9, <2>1, <2>4 DEF SpeakInv
    <3> QED
      BY <2>3, <2>4, <3>1
  <2>5. CASE Folded(u.call)
    <3>1. PICK j \in 1..Len(calls) : calls[j].call = u.call
      BY <1>12, <1>13, <2>1, <2>5 DEF Known
    <3>2. PICK e : e = calls[j]
      OBVIOUS
    <3>3. EntryInv(e) /\ e.call = u.call /\ e.announced \in BOOLEAN /\ e.bare \in BOOLEAN
      BY <1>13, <1>14, <3>1, <3>2 DEF Remembered
    <3>4. CASE e.announced
      <4>1. \E event \in Tolds' : event.call = u.call
        BY <1>9, <3>3, <3>4 DEF EntryInv
      <4>2. u.args => Use(u.call, TRUE) \in Tolds'
        BY <1>9, <2>1, <3>3, <3>4 DEF EntryInv
      <4> QED
        BY <2>2, <2>3, <4>1, <4>2
    <3>5. CASE ~e.announced
      <4>1. ~u.args
        BY <2>1, <3>3, <3>5 DEF EntryInv
      <4>2. ~calls[j].announced
        BY <3>2, <3>5
      <4>3. PICK m \in 1..Len(more) : more[m] = Use(calls[j].call, FALSE)
        BY <1>8, <4>2
      <4>4. Use(calls[j].call, FALSE).call = calls[j].call
        BY EventsAre
      <4>5. more[m] \in Tolds' /\ more[m].call = u.call
        BY <1>9, <3>1, <4>3, <4>4
      <4> QED
        BY <2>3, <4>1, <4>5
    <3> QED
      BY <3>3, <3>4, <3>5
  <2> QED
    BY <2>4, <2>5
<1>20. NewsGoesThrough'
  <2>1. \A k : k \in DOMAIN told' /\ told'[k].kind = "news" <=> k \in DOMAIN told /\ told[k].kind = "news"
    <3>1. ASSUME NEW k \in 1..Len(told'), k > L PROVE told'[k].kind # "news"
      BY <1>10, <3>1
    <3> QED
      BY <1>9, <3>1
  <2>2. {k \in DOMAIN told' : told'[k].kind = "news"} = {k \in DOMAIN told : told[k].kind = "news"}
    BY <2>1
  <2>3. \A k \in DOMAIN told : told'[k] = told[k]
    BY <1>9
  <2> QED
    BY <1>1, <1>2, <2>2, <2>3 DEF NewsGoesThrough
<1> QED
  BY <1>15, <1>16, <1>17, <1>18, <1>19, <1>20 DEF TalkInv

LEMMA TalkIsKept ==
  ASSUME TalkInv, [Next]_vars
  PROVE  TalkInv'
<1>1. CASE Bind
  BY <1>1, NothingYet DEF Bind, TalkInv, TalkTypes, Phases
<1>2. CASE EndTurn
  BY <1>2, EndKeeps
<1>3. CASE CloseAll
  BY <1>3, TalkIsLeft DEF CloseAll
<1>4. CASE UnbindEnds \/ UnbindCancelled
  <2>1. calls = <<>>
    BY <1>4 DEF UnbindEnds, UnbindCancelled, TalkInv, TalkTypes
  <2> QED
    BY <1>4, <2>1, NothingYet DEF UnbindEnds, UnbindCancelled, Unbound, Phases
<1>5. CASE \E u \in Updates : SessionUpdate(u)
  BY <1>5, UpdateKeeps
<1>6. ASSUME NEW c \in Commands, Command(c)
      PROVE  TalkInv'
  <2>1. UNCHANGED TurnAside
    BY <1>6 DEF Command, CreateTerminal, Allowed, Refused, Spawned, Exits,
                KillTerminal, ReleaseTerminal
  <2>2. UNCHANGED turnVars /\ phase' = phase
    BY <2>1 DEF TurnAside
  <2> QED
    BY <2>2, TalkIsLeft
<1>7. CASE UNCHANGED vars
  BY <1>7, TalkIsLeft DEF vars
<1> QED
  BY <1>1, <1>2, <1>3, <1>4, <1>5, <1>6, <1>7 DEF Next

LEMMA TalkBegins ==
  ASSUME Init
  PROVE  TalkInv
<1>1. heard = <<>> /\ told = <<>> /\ calls = <<>> /\ phase = "between"
  BY DEF Init
<1>2. Heards = {} /\ HeardCalls = {} /\ Tolds = {}
  BY <1>1 DEF Heards, HeardCalls, Tolds
<1>3. \A c : ~Folded(c)
  BY <1>1 DEF Folded
<1>4. TalkTypes
  BY <1>1 DEF TalkTypes, Phases
<1>5. MemoryInv /\ SpeakInv
  BY <1>1, <1>2 DEF MemoryInv, Distinct, SpeakInv
<1>6. ToolsAreIntroduced /\ NothingSaidIsLost
  BY <1>1, <1>3 DEF ToolsAreIntroduced, NothingSaidIsLost, Ending
<1>7. NewsGoesThrough
  <2>1. DOMAIN heard = {} /\ DOMAIN told = {}
    BY <1>1
  <2> QED
    BY <2>1 DEF NewsGoesThrough
<1> QED
  BY <1>4, <1>5, <1>6, <1>7 DEF TalkInv

\* What a caller is told of a call the turn remembers begins with a ToolUse,
\* and there is at most one more, which gives a bare one its arguments, in
\* whatever order the agent's updates come and whenever the turn ends.
THEOREM CallsIntroduced == Spec => []ToolsAreIntroduced
<1>1. TalkInv => ToolsAreIntroduced
  BY DEF TalkInv
<1> QED
  BY <1>1, TalkBegins, TalkIsKept, PTL DEF Spec

\* When a turn is over its caller was told of every call that _ToolCalls
\* remembers, and of the arguments of each that gave some; past
\* _MAX_TOOL_CALLS, of every call the agent opened.
THEOREM NothingLost == Spec => []NothingSaidIsLost
<1>1. TalkInv => NothingSaidIsLost
  BY DEF TalkInv
<1> QED
  BY <1>1, TalkBegins, TalkIsKept, PTL DEF Spec

\* The news an update carries is told in the step that folds it, once, and in
\* the order the agent sent it.
THEOREM NewsTold == Spec => []NewsGoesThrough
<1>1. TalkInv => NewsGoesThrough
  BY DEF TalkInv
<1> QED
  BY <1>1, TalkBegins, TalkIsKept, PTL DEF Spec
=============================================================================
