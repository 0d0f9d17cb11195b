-------------------------- MODULE ResponseStreamProofs --------------------------
(***************************************************************************)
(* What a task's caller is asked and told, what its runs leave behind, and *)
(* what the agent gets of its message, whatever the agent says and offers, *)
(* however often it asks and whatever the message holds: theorems about    *)
(* module ResponseStream.                                                  *)
(***************************************************************************)
EXTENDS ResponseStream, SequenceTheorems, FiniteSetTheorems,
        WellFoundedInduction, TLAPS

(***************************************************************************)
(* The decision.                                                           *)
(***************************************************************************)
\* What is assumed of an offer.
Proper(offered) ==
  /\ Len(offered) \in Nat
  /\ \A i \in 1..Len(offered) : /\ offered[i].kind \in Kinds
                                /\ offered[i].id # NoOption
  /\ \A i, j \in 1..Len(offered) : offered[i].id = offered[j].id => i = j

\* A set of numbers that is not empty has a least one.
LEMMA LeastIsIn ==
  ASSUME NEW S \in SUBSET Nat, S # {}
  PROVE  \E x \in S : \A y \in S : x <= y
<1>1. PICK x \in S : \A y \in S : ~(<<y, x>> \in OpToRel(<, Nat))
  <2>1. \E x \in S : \A y \in S : ~(<<y, x>> \in OpToRel(<, Nat))
    BY NatLessThanWellFounded, WFMin, Zenon
  <2> QED
    BY <2>1
<1>2. ASSUME NEW y \in S PROVE x <= y
  <2>1. SUFFICES ASSUME y < x PROVE FALSE
    OBVIOUS
  <2>2. <<y, x>> \in Nat \X Nat /\ <<y, x>>[1] < <<y, x>>[2]
    BY <2>1
  <2>3. <<y, x>> \in OpToRel(<, Nat)
    BY <2>2, Zenon DEF OpToRel
  <2> QED
    BY <1>1, <2>3, Zenon
<1> QED
  BY <1>2

\* A set of places that is not empty has a first.
LEMMA FirstIsIn ==
  ASSUME NEW S \in SUBSET Nat, S # {}
  PROVE  First(S) \in S
  BY LeastIsIn DEF First

LEMMA AnsweredIsBounded ==
  ASSUME NEW entries
  PROVE  Answered(entries) <= MaxAnswers
<1> DEFINE good == {i \in 1..Len(entries) : i <= MaxAnswers /\ entries[i]}
<1>1. good \in SUBSET (1..MaxAnswers)
  BY AnswersAssumption
<1>2. IsFiniteSet(1..MaxAnswers) /\ Cardinality(1..MaxAnswers) = MaxAnswers
  BY AnswersAssumption, FS_Interval
<1>3. Cardinality(good) <= MaxAnswers
  BY <1>1, <1>2, FS_Subset
<1> QED
  BY <1>3 DEF Answered

\* Which option the ACP agent is told.
LEMMA NamedIsSelected ==
  ASSUME NEW text, NEW entries, NEW offered, Proper(offered),
         NEW decision, decision = Decision(text, entries, offered),
         Named(text, offered) # {}
  PROVE  \E i \in 1..Len(offered) :
           /\ offered[i].id = text.id /\ text.begins = "option"
           /\ decision.allow = Allows(offered[i].kind)
           /\ decision.option = text.id
           /\ ToldACP(decision, offered) = text.id
           /\ Consents(text, offered) <=> Allows(offered[i].kind)
<1> DEFINE i == First(Named(text, offered))
<1>1. i \in Named(text, offered)
  <2>1. Named(text, offered) \in SUBSET Nat
    BY DEF Named, Proper
  <2> QED
    BY <2>1, FirstIsIn
<1> HIDE DEF i
<1>2. /\ i \in 1..Len(offered) /\ offered[i].id = text.id
      /\ text.begins = "option"
  BY <1>1 DEF Named
<1>3. /\ decision.allow = Allows(offered[i].kind)
      /\ decision.option = text.id
  BY <1>2 DEF Decision, ReadVerdict, i
<1>4. ToldACP(decision, offered) = text.id
  <2>1. \E j \in 1..Len(offered) : offered[j].id = decision.option
    BY <1>2, <1>3
  <2>2. Selected(decision, offered) = decision.option
    BY <2>1 DEF Selected
  <2> QED
    BY <1>3, <2>2 DEF ToldACP
<1>5. Consents(text, offered) <=> Allows(offered[i].kind)
  BY <1>2 DEF Consents, Proper
<1> QED
  BY <1>2, <1>3, <1>4, <1>5

\* Without one the agent gets what is allowed or refused, the least of it.
LEMMA BareIsSelected ==
  ASSUME NEW text, NEW entries, NEW offered, Proper(offered),
         NEW decision, decision = Decision(text, entries, offered),
         Named(text, offered) = {}
  PROVE  /\ decision.allow = IsAllow(text)
         /\ Consents(text, offered) <=> IsAllow(text)
         /\ \/ ToldACP(decision, offered) = NoOption
            \/ \E i \in 1..Len(offered) :
                 /\ ToldACP(decision, offered) = offered[i].id
                 /\ IF IsAllow(text) THEN Allows(offered[i].kind)
                                     ELSE Rejects(offered[i].kind)
         /\ IsAllow(text) /\ OfKind(offered, "allow_once") # {} =>
              \E i \in OfKind(offered, "allow_once") :
                ToldACP(decision, offered) = offered[i].id
<1> DEFINE once   == IF decision.allow THEN "allow_once" ELSE "reject_once"
           always == IF decision.allow THEN "allow_always" ELSE "reject_always"
           right  == {i \in 1..Len(offered) :
                        IF decision.allow THEN Allows(offered[i].kind)
                                          ELSE Rejects(offered[i].kind)}
           best   == IF OfKind(offered, once) # {} THEN OfKind(offered, once)
                     ELSE IF OfKind(offered, always) # {}
                       THEN OfKind(offered, always)
                     ELSE right
<1>1. decision.allow = IsAllow(text) /\ decision.option = NoOption
  BY DEF Decision, ReadVerdict
<1>2. Consents(text, offered) <=> IsAllow(text)
  BY DEF Consents, IsAllow, Named, Proper
<1>3. ~\E i \in 1..Len(offered) : offered[i].id = decision.option
  BY <1>1 DEF Proper
<1>4. ToldACP(decision, offered) = IF best # {} THEN offered[First(best)].id
                                                ELSE NoOption
  BY <1>3 DEF ToldACP, Selected
<1>5. best \subseteq right
  BY DEF OfKind, Allows, Rejects
<1>6. ASSUME best # {} PROVE First(best) \in best
  <2>1. best \in SUBSET Nat
    BY <1>5 DEF Proper
  <2> HIDE DEF best
  <2> QED
    BY <1>6, <2>1, FirstIsIn
<1>7. IsAllow(text) /\ OfKind(offered, "allow_once") # {} =>
        best = OfKind(offered, "allow_once")
  <2>1. IsAllow(text) => decision.allow
    BY <1>1 DEF IsAllow
  <2> QED
    BY <2>1
<1> HIDE DEF best
<1>8. \/ ToldACP(decision, offered) = NoOption
      \/ /\ First(best) \in 1..Len(offered)
         /\ ToldACP(decision, offered) = offered[First(best)].id
         /\ IF IsAllow(text) THEN Allows(offered[First(best)].kind)
                             ELSE Rejects(offered[First(best)].kind)
  BY <1>1, <1>4, <1>5, <1>6
<1> QED
  BY <1>1, <1>2, <1>4, <1>6, <1>7, <1>8

\* The decision taken from any answer to any offer is the caller's.
LEMMA DecisionIsExplicit ==
  ASSUME NEW text, NEW entries, NEW offered, Proper(offered),
         answer = [read |-> TRUE, offered |-> offered, text |-> text,
                   decision |-> Decision(text, entries, offered)]
  PROVE  ConsentIsExplicit
<1> DEFINE decision == Decision(text, entries, offered)
           agreed   == Consents(text, offered)
           acp      == ToldACP(decision, offered)
           claude   == ToldClaude(decision, TRUE)
           kind     == KindOf(acp, offered)
<1>1. \A i \in 1..Len(offered) : KindOf(offered[i].id, offered) = offered[i].kind
  BY DEF KindOf, Proper
<1>2. KindOf(NoOption, offered) = "cancelled"
  BY DEF KindOf
<1>3. \A k : Allows(k) \in BOOLEAN /\ ~(Allows(k) /\ Rejects(k))
  BY DEF Allows, Rejects
<1>4. ~Allows("cancelled") /\ ~Rejects("cancelled")
  BY DEF Allows, Rejects
<1>5. IsAllow(text) \in BOOLEAN
  BY DEF IsAllow
<1>6. decision.answers = IF decision.allow THEN Answered(entries) ELSE 0
  BY DEF Decision
<1>7. decision.answers <= MaxAnswers
  BY <1>6, AnsweredIsBounded, AnswersAssumption
<1>8. /\ claude.allow = decision.allow
      /\ claude.answers = IF decision.allow THEN decision.answers ELSE 0
  BY DEF ToldClaude
<1> HIDE DEF decision
<1>9. CASE Named(text, offered) # {}
  <2>1. PICK i \in 1..Len(offered) :
           /\ offered[i].id = text.id /\ text.begins = "option"
           /\ decision.allow = Allows(offered[i].kind)
           /\ acp = text.id
           /\ agreed <=> Allows(offered[i].kind)
    BY <1>9, NamedIsSelected DEF decision
  <2>2. kind = offered[i].kind
    BY <1>1, <2>1
  <2>3. decision.allow = agreed
    BY <1>3, <2>1 DEF Consents
  <2>4. /\ Allows(kind) => agreed
        /\ Rejects(kind) => ~agreed
    BY <1>3, <2>1, <2>2
  <2>5. decision.answers > 0 \/ claude.answers > 0 => agreed
    <3>1. agreed \in BOOLEAN
      BY DEF Consents
    <3> HIDE DEF agreed, claude
    <3>2. ~agreed => decision.answers = 0 /\ claude.answers = 0
      BY <1>6, <1>8, <2>3, <3>1
    <3> QED
      BY <3>2
  <2> HIDE DEF agreed, acp, claude, kind
  <2> QED
    BY <1>7, <1>8, <2>1, <2>3, <2>4, <2>5
       DEF ConsentIsExplicit, decision, agreed, acp, claude, kind
<1>10. CASE Named(text, offered) = {}
  <2>1. /\ decision.allow = IsAllow(text)
        /\ agreed <=> IsAllow(text)
        /\ \/ acp = NoOption
           \/ \E i \in 1..Len(offered) :
                /\ acp = offered[i].id
                /\ IF IsAllow(text) THEN Allows(offered[i].kind)
                                    ELSE Rejects(offered[i].kind)
        /\ IsAllow(text) /\ OfKind(offered, "allow_once") # {} =>
             \E i \in OfKind(offered, "allow_once") : acp = offered[i].id
    BY <1>10, BareIsSelected DEF decision
  <2>2. /\ Allows(kind) => agreed
        /\ Rejects(kind) => ~agreed
    BY <1>1, <1>2, <1>3, <1>4, <2>1
  <2>3. decision.allow = agreed
    BY <1>5, <2>1 DEF Consents
  <2>4. decision.answers > 0 \/ claude.answers > 0 => agreed
    <3>1. agreed \in BOOLEAN
      BY DEF Consents
    <3> HIDE DEF agreed, claude
    <3>2. ~agreed => decision.answers = 0 /\ claude.answers = 0
      BY <1>6, <1>8, <2>3, <3>1
    <3> QED
      BY <3>2
  <2>5. agreed /\ OfKind(offered, "allow_once") # {} => kind = "allow_once"
    BY <1>1, <2>1 DEF OfKind
  <2> HIDE DEF agreed, acp, claude, kind
  <2> QED
    BY <1>7, <1>8, <1>10, <2>2, <2>3, <2>4, <2>5
       DEF ConsentIsExplicit, decision, agreed, acp, claude, kind
<1> QED
  BY <1>9, <1>10

(***************************************************************************)
(* The steps.                                                              *)
(***************************************************************************)
\* An answer that is read is one to an offer that was made.
AnswerInv ==
  answer.read =>
    \E offered \in Offers : \E text \in Replies : \E entries \in Entries :
      answer = [read |-> TRUE, offered |-> offered, text |-> text,
                decision |-> Decision(text, entries, offered)]

\* Whatever the agent offers, however the caller words its answer and whatever
\* it sends along, neither agent is told to go ahead unless the caller agreed
\* (_verdict, _decision, select_option, can_use_tool).
THEOREM ConsentIsAlwaysExplicit == Spec => []ConsentIsExplicit
<1>1. Init => AnswerInv
  BY DEF Init, AnswerInv, Nothing
<1>2. AnswerInv /\ [Next]_vars => AnswerInv'
  <2> SUFFICES ASSUME AnswerInv, [Next]_vars PROVE AnswerInv'
    OBVIOUS
  <2>1. ASSUME NEW offered \in Offers, NEW text \in Replies, NEW entries \in Entries,
               Answer(offered, text, entries)
        PROVE  AnswerInv'
    BY <2>1 DEF Answer, AnswerInv
  <2>2. CASE Resume \/ Cancel
    BY <2>2 DEF Resume, Cancel, AnswerInv, Nothing
  <2>3. CASE UNCHANGED answer
    BY <2>3 DEF AnswerInv
  <2>4. CASE \E parts \in Openings : Open(parts)
    BY <2>3, <2>4 DEF Open
  <2>5. CASE Begin \/ DrainText \/ DrainThought \/ DrainAside \/ DrainAsk
    BY <2>3, <2>5 DEF Begin, DrainText, DrainThought, DrainAside, DrainAsk
  <2>6. CASE DrainResult \/ DrainError \/ DrainEnd \/ Evict
    BY <2>3, <2>6 DEF DrainResult, DrainError, DrainEnd, Evict
  <2>7. CASE \E body \in Plans : DrainPlan(body)
    BY <2>3, <2>7 DEF DrainPlan
  <2>8. CASE Publish
    BY <2>3, <2>8 DEF Publish
  <2>9. CASE UNCHANGED vars
    BY <2>3, <2>9 DEF vars
  <2> QED
    BY <2>1, <2>2, <2>4, <2>5, <2>6, <2>7, <2>8, <2>9 DEF Next
<1>3. AnswerInv => ConsentIsExplicit
  <2> SUFFICES ASSUME AnswerInv, answer.read PROVE ConsentIsExplicit
    BY DEF ConsentIsExplicit
  <2>1. PICK offered \in Offers, text \in Replies, entries \in Entries :
           answer = [read |-> TRUE, offered |-> offered, text |-> text,
                     decision |-> Decision(text, entries, offered)]
    BY DEF AnswerInv
  <2>2. Proper(offered)
    BY OffersAssumption DEF Proper
  <2> QED
    BY <2>1, <2>2, DecisionIsExplicit
<1> QED
  BY <1>1, <1>2, <1>3, PTL DEF Spec

(***************************************************************************)
(* What is left of a run.                                                  *)
(***************************************************************************)
\* The failure of a run is the one thing left to publish, when the session is in
\* no table any more; if there still is a stream, the session was evicted.
FailedInv ==
  /\ \E S : jobs \in Seq(S)
  /\ \A i \in 1..Len(jobs) : jobs[i].do = "failed" =>
       /\ Len(jobs) = 1
       /\ phase = "finishing" /\ ~live /\ (entry # 0 => evicted)

\* A live session was not evicted; a call that lost its session while it was
\* publishing the answer has no stream until its pump begins; and a stream without
\* a session is left by an eviction only.
LeftoversInv ==
  /\ FailedInv
  /\ live => ~evicted
  /\ phase = "answering" /\ ~live => entry = 0
  /\ status = "none" => phase = "over"
  /\ LeftoversAreEvicted

\* What a handler publishes, if it does not end its run as failed.
Fresh(list) == /\ \E S : list \in Seq(S)
               /\ \A i \in 1..Len(list) : list[i].do # "failed"

LEMMA FreshOne == ASSUME NEW job, job.do # "failed" PROVE Fresh(<<job>>)
<1>1. <<job>> \in Seq({job}) /\ Len(<<job>>) = 1 /\ <<job>>[1] = job
  OBVIOUS
<1>2. \A i \in 1..1 : <<job>>[i].do # "failed"
  BY <1>1
<1> QED
  BY <1>1, <1>2 DEF Fresh

LEMMA FreshNone == Fresh(<<>>)
<1>1. <<>> \in Seq({}) /\ Len(<<>>) = 0
  OBVIOUS
<1> QED
  BY <1>1 DEF Fresh

LEMMA FreshBoth ==
  ASSUME NEW front, NEW back, Fresh(front), Fresh(back)
  PROVE  Fresh(front \o back)
<1>1. PICK S, T : front \in Seq(S) /\ back \in Seq(T)
  BY DEF Fresh
<1>2. front \in Seq(S \cup T) /\ back \in Seq(S \cup T)
  BY <1>1, SeqMonotonic
<1>3. /\ front \o back \in Seq(S \cup T)
      /\ Len(front) \in Nat /\ Len(back) \in Nat
      /\ Len(front \o back) = Len(front) + Len(back)
      /\ \A i \in 1..(Len(front) + Len(back)) :
           (front \o back)[i] = IF i <= Len(front) THEN front[i]
                                ELSE back[i - Len(front)]
  BY <1>2, ConcatProperties, LenProperties
<1>4. ASSUME NEW i \in 1..(Len(front) + Len(back))
      PROVE  (front \o back)[i].do # "failed"
  <2>1. CASE i <= Len(front)
    <3>1. i \in 1..Len(front)
      BY <1>3, <2>1
    <3> QED
      BY <1>3, <2>1, <3>1 DEF Fresh
  <2>2. CASE ~(i <= Len(front))
    <3>1. i - Len(front) \in 1..Len(back)
      BY <1>3, <2>2
    <3> QED
      BY <1>3, <2>2, <3>1 DEF Fresh
  <2> QED
    BY <2>1, <2>2
<1> QED
  BY <1>3, <1>4 DEF Fresh

LEMMA FreshJobs ==
  /\ \A do, text, last, next : do # "failed" => Fresh(<<Job(do, text, last, next)>>)
  /\ \A text, last, next : Fresh(<<Flush(text, last, next)>>)
  /\ \A state : state # "failed" => Fresh(<<Tell(state)>>)
BY FreshOne DEF Job, Flush, Tell

\* What is left to publish of a run that was not evicted.
LEMMA FreshEnding == Fresh(Ending)
<1>1. Fresh(IF stream.sentThought THEN <<Job("think", <<>>, TRUE, <<>>)>> ELSE <<>>)
  BY FreshJobs, FreshNone
<1>2. Fresh(IF stream.pending # <<>>
              THEN <<Flush(stream.pending, TRUE, stream.pending)>>
            ELSE IF stream.sentFirst THEN <<Flush(<<>>, TRUE, <<>>)>>
            ELSE <<>>)
  BY FreshJobs, FreshNone
<1>3. Fresh(<<Tell("completed")>>)
  BY FreshJobs
<1> QED
  BY <1>1, <1>2, <1>3, FreshBoth DEF Ending

\* Whatever order the agent's events, the answers, the cancellations and the
\* evictions come in: a task that is over has no session in _live, and an entry
\* in _streams only if its session was evicted as its answer was applied.
THEOREM LeftoversAreAlwaysEvicted == Spec => []LeftoversAreEvicted
<1>1. Init => LeftoversInv
  BY FreshNone DEF Init, LeftoversInv, FailedInv, LeftoversAreEvicted, Fresh
<1>2. LeftoversInv /\ [Next]_vars => LeftoversInv'
  <2> SUFFICES ASSUME LeftoversInv, [Next]_vars PROVE LeftoversInv'
    OBVIOUS
  <2> USE DEF LeftoversInv, LeftoversAreEvicted
  <2>1. phase # "finishing" => Fresh(jobs)
    BY DEF FailedInv, Fresh
  <2>2. Fresh(jobs') => FailedInv'
    BY DEF FailedInv, Fresh
  <2>3. ASSUME NEW parts \in Openings, Open(parts) PROVE LeftoversInv'
    BY <2>1, <2>2, <2>3 DEF Open
  <2>4. CASE Begin
    BY <2>1, <2>2, <2>4 DEF Begin, TakeStream
  <2>5. ASSUME NEW offered \in Offers, NEW text \in Replies, NEW entries \in Entries,
               Answer(offered, text, entries)
        PROVE  LeftoversInv'
    BY <2>1, <2>2, <2>5 DEF Answer
  <2>6. CASE Resume
    BY <2>1, <2>2, <2>6 DEF Resume, TakeStream, history
  <2>7. CASE DrainText
    BY <2>1, <2>2, <2>7, FreshJobs DEF DrainText, Publishes
  <2>8. CASE DrainThought
    BY <2>2, <2>8, FreshJobs DEF DrainThought, Publishes
  <2>9. CASE DrainAside
    BY <2>2, <2>9, FreshJobs DEF DrainAside, Publishes
  <2>10. CASE DrainAsk
    <3>1. Fresh(IF stream.pending = <<>> THEN <<>>
                ELSE <<Flush(stream.pending, FALSE, <<>>)>>)
      BY FreshJobs, FreshNone
    <3>2. Fresh(jobs')
      BY <2>10, <3>1, FreshJobs, FreshBoth DEF DrainAsk, Publishes
    <3> QED
      BY <2>2, <2>10, <3>2 DEF DrainAsk, Publishes
  <2>11. CASE DrainResult
    BY <2>1, <2>2, <2>11 DEF DrainResult
  <2>12. ASSUME NEW body \in Plans, DrainPlan(body) PROVE LeftoversInv'
    <3>1. Fresh(jobs')
      BY <2>12, FreshJobs, FreshNone DEF DrainPlan, Publishes
    <3> QED
      BY <2>2, <2>12, <3>1 DEF DrainPlan, Publishes
  <2>13. CASE DrainError
    <3>1. jobs' \in Seq({Tell("failed")})
      BY <2>13 DEF DrainError
    <3> QED
      BY <2>13, <3>1 DEF DrainError, FailedInv
  <2>14. CASE DrainEnd
    <3>1. CASE evicted
      <4>1. jobs' \in Seq({Tell("failed")})
        BY <2>14, <3>1 DEF DrainEnd
      <4> QED
        BY <2>14, <3>1, <4>1 DEF DrainEnd, FailedInv
    <3>2. CASE ~evicted
      BY <2>2, <2>14, <3>2, FreshEnding DEF DrainEnd
    <3> QED
      BY <3>1, <3>2
  <2>15. CASE Publish
    <3>1. PICK S : jobs \in Seq(S)
      BY DEF FailedInv
    <3>2. /\ jobs' = Tail(jobs) /\ jobs # <<>>
          /\ phase \in {"publishing", "finishing"}
      BY <2>15 DEF Publish
    <3>3. /\ jobs' \in Seq(S) /\ Len(jobs') \in Nat /\ Len(jobs') = Len(jobs) - 1
          /\ \A i \in 1..Len(jobs') : jobs'[i] = jobs[i + 1]
          /\ Len(jobs) \in Nat /\ Len(jobs) >= 1
      BY <3>1, <3>2, HeadTailProperties, LenProperties
    <3>4. Head(jobs) = jobs[1] /\ 1 \in 1..Len(jobs)
      BY <3>1, <3>2, <3>3
    <3>5. \A i \in 1..Len(jobs') : i + 1 \in 1..Len(jobs)
      BY <3>3
    <3>6. FailedInv'
      <4>1. \A i \in 1..Len(jobs') : jobs'[i].do # "failed"
        BY <3>3, <3>5 DEF FailedInv
      <4> QED
        BY <2>2, <3>3, <4>1 DEF Fresh
    <3>7. LeftoversAreEvicted'
      BY <2>15, <3>2, <3>4 DEF FailedInv, Publish, States
    <3> QED
      BY <2>15, <3>2, <3>6, <3>7 DEF Publish, States
  <2>16. CASE Evict
    BY <2>16 DEF Evict, history, FailedInv
  <2>17. CASE Cancel
    BY <2>2, <2>17, FreshNone DEF Cancel
  <2>18. CASE UNCHANGED vars
    BY <2>18 DEF vars, FailedInv
  <2> QED
    BY <2>3, <2>4, <2>5, <2>6, <2>7, <2>8, <2>9, <2>10, <2>11, <2>12,
       <2>13, <2>14, <2>15, <2>16, <2>17, <2>18 DEF Next
<1>3. LeftoversInv => LeftoversAreEvicted
  BY DEF LeftoversInv
<1> QED
  BY <1>1, <1>2, <1>3, PTL DEF Spec

(***************************************************************************)
(* What the caller has of a run, and what it has yet to get.               *)
(***************************************************************************)
\* What is flushed or held back at a time: at most one text.
Pieces == {piece \in Texts : Len(piece) <= 1}

Artifacts(pieces) == {artifact \in [there : BOOLEAN, text : pieces, closed : BOOLEAN] :
                        ~artifact.there => artifact.text = <<>> /\ ~artifact.closed}

\* The objects: a _Stream, what was heard, the bounds, and what a caller keeps.
StreamObjects == [number : 0..MaxStreams, chunks : Texts, pending : Pieces,
                  sentFirst : BOOLEAN, sentThought : BOOLEAN, planShown : BOOLEAN,
                  metadata : Nat]
Hearings == [said : Texts, thought : Thoughts, plan : Plans \cup {NoPlan},
             result : Nat]
Counts == [texts : Nat, thoughts : Nat, plans : Nat, asides : Nat, asks : Nat,
           results : Nat, streams : 0..MaxStreams]
KeptPieces == [response : Artifacts(Texts), thinking : Artifacts(Thoughts),
               plan : Plans \cup {NoPlan}]

USE DEF StreamObjects, Hearings, Counts, KeptPieces

TypesInv ==
  /\ phase \in Phases /\ status \in States \cup {"none", "canceled"}
  /\ live \in BOOLEAN /\ evicted \in BOOLEAN
  /\ stream \in StreamObjects
  /\ entry \in {0, stream.number}
  /\ heard \in Hearings
  /\ spent \in Counts
  /\ kept \in [Streams -> KeptPieces]

\* The streams that were taken, and the two flags of the one in hand: set if and
\* only if the caller has the artifact.
FlagsInv ==
  /\ stream.number <= spent.streams
  /\ \A n \in Streams : n > spent.streams => kept[n] = Nil
  /\ InPump => stream.number \in Streams
  /\ status = "none" => phase = "over" /\ ~live /\ entry = 0
  /\ phase = "opening" => ~live /\ (entry # 0 \/ spent.streams < MaxStreams)
  /\ stream.number \in Streams =>
       /\ Shown.response.there = stream.sentFirst
       /\ Shown.thinking.there = stream.sentThought

\* What the agent said, in pieces: what the caller has, what is queued to be
\* flushed, and what is held back; of its thinking, what the caller has and what
\* is queued; and its plan.
Behind(queued, held, thinking, plan) ==
  \/ ReusesLeft
  \/ /\ stream.chunks = Shown.response.text \o queued
     /\ heard.said = stream.chunks \o held
     /\ stream.sentFirst <=> Shown.response.text # <<>>
     /\ heard.thought = Shown.thinking.text \o thinking
     /\ stream.sentThought <=> Shown.thinking.text # <<>>
     /\ heard.plan = plan
     /\ stream.planShown <=> plan # NoPlan
     /\ stream.metadata = heard.result

\* Neither artifact has had its last chunk.
Unclosed == ~Shown.response.closed /\ ~Shown.thinking.closed

\* Between two events.
InLoop == Unclosed /\ Behind(<<>>, stream.pending, <<>>, Shown.plan)

\* What a handler may have left to publish.
Publishing ==
  /\ Unclosed
  /\ \/ \E next \in Pieces :
          /\ jobs = <<Flush(stream.pending, FALSE, next)>>
          /\ stream.pending # <<>>
          /\ Behind(stream.pending, next, <<>>, Shown.plan)
     \/ \E text \in Thoughts :
          /\ jobs = <<Job("think", text, FALSE, <<>>)>>
          /\ text # <<>>
          /\ Behind(<<>>, stream.pending, text, Shown.plan)
     \/ \E body \in Plans :
          /\ jobs = <<Job("plan", body, TRUE, <<>>)>>
          /\ Behind(<<>>, stream.pending, <<>>, body)
     \/ /\ jobs = <<Tell("working")>>
        /\ InLoop
     \/ /\ jobs = <<Flush(stream.pending, FALSE, <<>>), Tell("input")>>
        /\ stream.pending # <<>>
        /\ Behind(stream.pending, <<>>, <<>>, Shown.plan)
     \/ /\ jobs = <<Tell("input")>>
        /\ stream.pending = <<>>
        /\ InLoop

EndThought == Job("think", <<>>, TRUE, <<>>)
LastFlush  == Flush(stream.pending, TRUE, stream.pending)

ThinkingIsWhole == Shown.thinking.closed = stream.sentThought
ResponseIsWhole == Shown.response.closed = stream.sentFirst

\* What a run that ended may have left to publish.
Finishing ==
  \/ /\ jobs = <<Tell("failed")>>
     /\ InLoop
  \/ /\ jobs = <<EndThought, LastFlush, Tell("completed")>>
     /\ Unclosed /\ stream.sentThought
     /\ stream.pending # <<>> \/ stream.sentFirst
     /\ Behind(stream.pending, <<>>, <<>>, Shown.plan)
  \/ /\ jobs = <<EndThought, Tell("completed")>>
     /\ Unclosed /\ stream.sentThought /\ ~stream.sentFirst
     /\ Behind(<<>>, <<>>, <<>>, Shown.plan)
  \/ /\ jobs = <<LastFlush, Tell("completed")>>
     /\ ~Shown.response.closed /\ ThinkingIsWhole
     /\ stream.pending # <<>> \/ stream.sentFirst
     /\ Behind(stream.pending, <<>>, <<>>, Shown.plan)
  \/ /\ jobs = <<Tell("completed")>>
     /\ ResponseIsWhole /\ ThinkingIsWhole
     /\ Behind(<<>>, <<>>, <<>>, Shown.plan)

\* A run over a stream that was left, and a run that was resumed, go on with
\* artifacts that are open.
PumpInv ==
  /\ phase \notin {"publishing", "finishing"} => jobs = <<>>
  /\ phase = "opening" /\ entry # 0 => ReusesLeft /\ Unclosed
  /\ phase = "draining" => InLoop
  /\ phase = "publishing" => Publishing
  /\ phase \in {"paused", "answering"} => InLoop /\ stream.pending = <<>>
  /\ phase = "finishing" => Finishing
  /\ status = "completed" =>
       /\ phase = "over" /\ stream.number \in Streams
       /\ final.text = stream.chunks /\ final.metadata = stream.metadata
       /\ ResponseIsWhole /\ ThinkingIsWhole
       /\ Behind(<<>>, <<>>, <<>>, Shown.plan)

StreamInv == TypesInv /\ FlagsInv /\ PumpInv

(***************************************************************************)
(* Sequences and pieces.                                                   *)
(***************************************************************************)
\* What concatenation does to the ends of a sequence.
LEMMA Joined ==
  ASSUME NEW S, NEW s \in Seq(S), NEW t \in Seq(S)
  PROVE  /\ s \o t \in Seq(S)
         /\ s \o <<>> = s /\ <<>> \o s = s
         /\ Len(s \o t) = Len(s) + Len(t)
         /\ Len(s) \in Nat /\ Len(t) \in Nat
         /\ t # <<>> => s \o t # <<>>
         /\ s # <<>> => s \o t # <<>>
  OBVIOUS

\* A sequence begins with what it was before something was added to it.
LEMMA BeginsWith ==
  ASSUME NEW S, NEW s \in Seq(S), NEW t \in Seq(S)
  PROVE  SubSeq(s \o t, 1, Len(s)) = s
<1> DEFINE front == SubSeq(s \o t, 1, Len(s))
<1>1. /\ s \o t \in Seq(S) /\ Len(s \o t) = Len(s) + Len(t)
      /\ Len(s) \in Nat /\ Len(t) \in Nat
  OBVIOUS
<1>2. /\ front \in Seq(S) /\ Len(front) = Len(s)
      /\ \A i \in 1..Len(s) : front[i] = s[i]
  BY <1>1
<1> HIDE DEF front
<1> QED
  BY <1>2, SeqEqual DEF front

\* A text is a piece of its own.
LEMMA OnePiece ==
  ASSUME NEW n, NEW i \in 1..n
  PROVE  /\ <<i>> \in Seq(1..n)
         /\ Len(<<i>>) = 1 /\ <<i>> # <<>>
  OBVIOUS

\* What is left of a short queue.
LEMMA Queues ==
  ASSUME NEW a, NEW b, NEW c
  PROVE  /\ Head(<<a>>) = a /\ Tail(<<a>>) = <<>>
         /\ Head(<<a, b>>) = a /\ Tail(<<a, b>>) = <<b>>
         /\ Head(<<a, b, c>>) = a /\ Tail(<<a, b, c>>) = <<b, c>>
         /\ <<a>> # <<>> /\ <<a, b>> # <<>> /\ <<a, b, c>> # <<>>
  OBVIOUS

\* Short queues put together.
LEMMA QueuesJoined ==
  ASSUME NEW a, NEW b, NEW c
  PROVE  /\ <<>> \o <<a>> = <<a>>
         /\ <<a>> \o <<b>> = <<a, b>>
         /\ (<<>> \o <<>>) \o <<c>> = <<c>>
         /\ (<<>> \o <<b>>) \o <<c>> = <<b, c>>
         /\ (<<a>> \o <<>>) \o <<c>> = <<a, c>>
<1>1. \A s \in Seq({a, b, c}) : s \o <<>> = s /\ <<>> \o s = s
  OBVIOUS
<1>2. ASSUME NEW x \in {a, b, c}, NEW y \in {a, b, c}
      PROVE  <<x>> \o <<y>> = <<x, y>>
  <2> DEFINE joined == <<x>> \o <<y>>
  <2>1. /\ joined \in Seq({a, b, c}) /\ <<x, y>> \in Seq({a, b, c})
        /\ Len(joined) = 2 /\ Len(<<x, y>>) = 2
        /\ joined[1] = x /\ joined[2] = y
        /\ <<x, y>>[1] = x /\ <<x, y>>[2] = y
    OBVIOUS
  <2>2. \A i \in 1..2 : joined[i] = <<x, y>>[i]
    BY <2>1
  <2> HIDE DEF joined
  <2> QED
    BY <2>1, <2>2, SeqEqual DEF joined
<1>4. <<a>> \in Seq({a, b, c}) /\ <<b>> \in Seq({a, b, c}) /\ <<c>> \in Seq({a, b, c})
      /\ <<>> \in Seq({a, b, c})
  OBVIOUS
<1> QED
  BY <1>1, <1>2, <1>4

\* Three jobs, the last joined to the other two.
LEMMA ThreeJoined ==
  ASSUME NEW a, NEW b, NEW c
  PROVE  <<a, b>> \o <<c>> = <<a, b, c>>
<1> DEFINE joined == <<a, b>> \o <<c>>
<1>1. /\ joined \in Seq({a, b, c}) /\ <<a, b, c>> \in Seq({a, b, c})
      /\ Len(joined) = 3 /\ Len(<<a, b, c>>) = 3
      /\ joined[1] = a /\ joined[2] = b /\ joined[3] = c
      /\ <<a, b, c>>[1] = a /\ <<a, b, c>>[2] = b /\ <<a, b, c>>[3] = c
  OBVIOUS
<1>2. \A i \in 1..3 : joined[i] = <<a, b, c>>[i]
  BY <1>1
<1> HIDE DEF joined
<1> QED
  BY <1>1, <1>2, SeqEqual DEF joined

\* Nothing is a piece, a text and a thought.
LEMMA EmptyPieces == <<>> \in Pieces /\ <<>> \in Texts /\ <<>> \in Thoughts
  BY DEF Pieces, Texts, Thoughts

\* What is assumed of the constants, one fact at a time.
LEMMA Bounds == /\ MaxTexts \in Nat /\ MaxThoughts \in Nat /\ MaxPlans \in Nat
                /\ MaxAsides \in Nat /\ MaxAsks \in Nat /\ MaxStreams \in Nat \ {0}
                /\ EmptyPlan \in Plans /\ NoPlan \notin Plans
                /\ Plans \subseteq Plans \cup {NoPlan}
  BY StreamAssumption

\* What a caller has of a stream before the first chunk.
LEMMA NilIsKept ==
  Nil \in KeptPieces
<1>1. Absent \in Artifacts(Texts) /\ Absent \in Artifacts(Thoughts)
  BY EmptyPieces DEF Absent, Artifacts
<1> QED
  BY <1>1 DEF Nil

\* In the beginning there is no stream.
LEMMA InitIsStream == Init => StreamInv
<1> SUFFICES ASSUME Init PROVE StreamInv
  OBVIOUS
<1>1. TypesInv
  <2>1. stream \in StreamObjects
    BY EmptyPieces, Bounds DEF Init, NewStream
  <2>2. heard \in Hearings
    BY EmptyPieces DEF Init, Unheard
  <2>3. spent \in Counts
    BY Bounds DEF Init, NotSpent
  <2>4. kept \in [Streams -> KeptPieces]
    BY NilIsKept DEF Init
  <2> QED
    BY <2>1, <2>2, <2>3, <2>4 DEF TypesInv, Init, Phases, States, NewStream
<1>2. FlagsInv
  BY Bounds DEF FlagsInv, Init, NewStream, NotSpent, InPump, Streams
<1>3. PumpInv
  BY DEF PumpInv, Init
<1> QED
  BY <1>1, <1>2, <1>3 DEF StreamInv

(***************************************************************************)
(* The messages.                                                           *)
(***************************************************************************)
\* What no step that leaves the stream, its artifacts and what was heard alone
\* can change.
LEMMA SameStream ==
  ASSUME stream' = stream, kept' = kept, heard' = heard
  PROVE  /\ Shown' = Shown /\ (Unclosed' <=> Unclosed) /\ (InLoop' <=> InLoop)
         /\ (ThinkingIsWhole' <=> ThinkingIsWhole)
         /\ (ResponseIsWhole' <=> ResponseIsWhole)
         /\ LastFlush' = LastFlush
<1>1. Shown' = Shown
  BY DEF Shown
<1>2. InLoop' <=> InLoop
  BY <1>1 DEF InLoop, Unclosed, Behind
<1> QED
  BY <1>1, <1>2 DEF Unclosed, ThinkingIsWhole, ResponseIsWhole, LastFlush

\* Nor can it change how far behind the caller is.
LEMMA SameBehind ==
  ASSUME stream' = stream, kept' = kept, heard' = heard,
         NEW queued, NEW held, NEW thinking
  PROVE  Behind(queued, held, thinking, Shown)' <=> Behind(queued, held, thinking, Shown)
  BY DEF Behind, Shown

\* With the same jobs left, what a handler may have left to publish is the same.
LEMMA SameJobs ==
  ASSUME stream' = stream, kept' = kept, heard' = heard, jobs' = jobs
  PROVE  (Publishing' <=> Publishing) /\ (Finishing' <=> Finishing)
<1>1. /\ Shown' = Shown /\ (Unclosed' <=> Unclosed) /\ (InLoop' <=> InLoop)
      /\ (ThinkingIsWhole' <=> ThinkingIsWhole)
      /\ (ResponseIsWhole' <=> ResponseIsWhole)
      /\ LastFlush' = LastFlush
  BY SameStream
<1>2. Publishing' <=> Publishing
  BY <1>1 DEF Publishing, Behind
<1>3. Finishing' <=> Finishing
  BY <1>1 DEF Finishing, Behind
<1> QED
  BY <1>2, <1>3

\* Neither an eviction nor a step that leaves everything alone touches them.
LEMMA EvictKeepsStream ==
  ASSUME StreamInv, Evict
  PROVE  StreamInv'
<1>1. /\ stream' = stream /\ kept' = kept /\ heard' = heard /\ jobs' = jobs
      /\ phase' = phase /\ status' = status /\ spent' = spent /\ final' = final
      /\ entry' = 0 /\ live /\ live' = FALSE /\ evicted' = TRUE
  BY DEF Evict, history
<1>2. TypesInv'
  BY <1>1 DEF StreamInv, TypesInv
<1>3. FlagsInv'
  BY <1>1, SameStream DEF StreamInv, FlagsInv, InPump
<1>4. PumpInv'
  <2>1. Behind(<<>>, <<>>, <<>>, Shown.plan)' <=> Behind(<<>>, <<>>, <<>>, Shown.plan)
    BY <1>1 DEF Behind, Shown
  <2> QED
    BY <1>1, <2>1, SameStream, SameJobs DEF StreamInv, PumpInv
<1> QED
  BY <1>2, <1>3, <1>4 DEF StreamInv

\* A step that leaves everything alone.
LEMMA StutterKeepsStream ==
  ASSUME StreamInv, UNCHANGED vars
  PROVE  StreamInv'
<1>1. /\ stream' = stream /\ kept' = kept /\ heard' = heard /\ jobs' = jobs
      /\ phase' = phase /\ status' = status /\ spent' = spent /\ final' = final
      /\ entry' = entry /\ live' = live /\ evicted' = evicted
  BY DEF vars
<1>2. TypesInv'
  BY <1>1 DEF StreamInv, TypesInv
<1>3. FlagsInv'
  BY <1>1, SameStream DEF StreamInv, FlagsInv, InPump
<1>4. PumpInv'
  <2>1. Behind(<<>>, <<>>, <<>>, Shown.plan)' <=> Behind(<<>>, <<>>, <<>>, Shown.plan)
    BY <1>1 DEF Behind, Shown
  <2> QED
    BY <1>1, <2>1, SameStream, SameJobs DEF StreamInv, PumpInv
<1> QED
  BY <1>2, <1>3, <1>4 DEF StreamInv

\* A cancelled task has nothing left to publish.
LEMMA CancelKeepsStream ==
  ASSUME StreamInv, Cancel
  PROVE  StreamInv'
<1>1. /\ stream' = stream /\ kept' = kept /\ heard' = heard /\ jobs' = <<>>
      /\ phase # "over" /\ phase' = "over" /\ spent' = spent /\ final' = final
      /\ entry' = 0 /\ live' = FALSE /\ evicted' = evicted
      /\ status' \in {status, "canceled"}
  BY DEF Cancel, history
<1>2. status # "completed"
  BY <1>1 DEF StreamInv, PumpInv
<1>3. TypesInv'
  BY <1>1 DEF StreamInv, TypesInv, Phases
<1>4. FlagsInv'
  BY <1>1, SameStream DEF StreamInv, FlagsInv, InPump
<1>5. PumpInv'
  BY <1>1, <1>2 DEF PumpInv
<1> QED
  BY <1>3, <1>4, <1>5 DEF StreamInv

\* A run is opened where no stream was taken, or over one that was left.
LEMMA OpenKeepsStream ==
  ASSUME StreamInv, NEW parts \in Openings, Open(parts)
  PROVE  StreamInv'
<1>1. /\ stream' = stream /\ kept' = kept /\ heard' = heard /\ jobs' = jobs
      /\ phase' = "opening" /\ status' = "working" /\ spent' = spent
      /\ entry' = entry /\ live' = live /\ evicted' = evicted
      /\ entry # 0 \/ spent.streams < MaxStreams
      /\ \/ status = "none"
         \/ phase = "paused" /\ ~live /\ (entry = 0 \/ ReusesLeft)
  BY DEF Open, history
<1>2. TypesInv'
  BY <1>1 DEF StreamInv, TypesInv, Phases, States
<1>3. /\ ~live' /\ (entry # 0 => phase = "paused" /\ ReusesLeft)
      /\ (entry # 0 => stream.number \in Streams)
  BY <1>1 DEF StreamInv, FlagsInv, InPump
<1>4. FlagsInv'
  BY <1>1, <1>3, SameStream DEF StreamInv, FlagsInv, InPump
<1>5. phase \in {"over", "paused"} /\ jobs = <<>>
  BY <1>1 DEF StreamInv, FlagsInv, PumpInv
<1>6. entry # 0 => Unclosed
  BY <1>3 DEF StreamInv, PumpInv, InLoop
<1>7. PumpInv'
  BY <1>1, <1>3, <1>5, <1>6, SameStream DEF PumpInv
<1> QED
  BY <1>2, <1>4, <1>7 DEF StreamInv

\* The stream a pump begins with: the task's, or a new one, whose artifacts
\* nobody has yet.
LEMMA TakenIsOpen ==
  ASSUME StreamInv, TakeStream, UNCHANGED kept,
         entry # 0 \/ spent.streams < MaxStreams,
         entry # 0 => stream.number \in Streams
  PROVE  /\ stream' \in StreamObjects
         /\ spent' \in Counts
         /\ entry' = stream'.number /\ stream'.number \in Streams
         /\ stream'.number <= spent'.streams
         /\ \A n \in Streams : n > spent'.streams => kept[n] = Nil
         /\ Shown'.response.there = stream'.sentFirst
         /\ Shown'.thinking.there = stream'.sentThought
         /\ entry # 0 => stream' = stream
         /\ entry = 0 => /\ stream' = NewStream(spent.streams + 1)
                         /\ Shown' = Nil
<1>1. CASE entry # 0
  <2>1. stream' = stream /\ spent' = spent /\ entry' = stream.number
    BY <1>1 DEF TakeStream, Taken
  <2>2. Shown' = Shown
    BY <2>1 DEF Shown
  <2> QED
    BY <1>1, <2>1, <2>2 DEF StreamInv, TypesInv, FlagsInv
<1>2. CASE entry = 0
  <2>1. /\ stream' = NewStream(spent.streams + 1)
        /\ spent' = [spent EXCEPT !.streams = @ + 1]
        /\ entry' = spent.streams + 1
    BY <1>2 DEF TakeStream, Taken, NewStream
  <2>2. /\ spent.streams \in 0..MaxStreams /\ spent.streams < MaxStreams
        /\ MaxStreams \in Nat
    BY <1>2, Bounds DEF StreamInv, TypesInv
  <2>3. spent.streams + 1 \in 1..MaxStreams
    BY <2>2
  <2>4. stream' \in StreamObjects
    BY <2>1, <2>3, EmptyPieces DEF NewStream
  <2>5. spent' \in Counts
    BY <2>1, <2>3 DEF StreamInv, TypesInv
  <2>6. spent'.streams = spent.streams + 1
    BY <2>1 DEF StreamInv, TypesInv
  <2>7. Shown' = Nil
    <3>1. kept[spent.streams + 1] = Nil
      BY <2>2, <2>3 DEF StreamInv, FlagsInv, Streams
    <3> QED
      BY <2>1, <3>1 DEF Shown, NewStream
  <2>8. \A n \in Streams : n > spent'.streams => kept[n] = Nil
    BY <2>2, <2>6 DEF StreamInv, FlagsInv, Streams
  <2>9. /\ stream'.number = spent.streams + 1
        /\ stream'.sentFirst = FALSE /\ stream'.sentThought = FALSE
    BY <2>1 DEF NewStream
  <2>10. Shown'.response.there = FALSE /\ Shown'.thinking.there = FALSE
    BY <2>7 DEF Nil, Absent
  <2>11. /\ entry' = stream'.number /\ stream'.number \in Streams
         /\ stream'.number <= spent'.streams
    BY <2>1, <2>3, <2>6, <2>9 DEF Streams
  <2> QED
    BY <1>2, <2>1, <2>4, <2>5, <2>7, <2>8, <2>9, <2>10, <2>11
<1> QED
  BY <1>1, <1>2

\* With a new stream there is nothing behind.
LEMMA NewIsInLoop ==
  ASSUME stream' = NewStream(spent.streams + 1), Shown' = Nil, heard' = Unheard
  PROVE  InLoop'
<1>1. <<>> \o <<>> = <<>>
  OBVIOUS
<1> QED
  BY <1>1 DEF InLoop, Unclosed, Behind, NewStream, Nil, Absent, Unheard

\* What was heard of a run that has yet to speak.
LEMMA UnheardIsHeard ==
  Unheard \in Hearings
  BY EmptyPieces DEF Unheard

\* A pump begins in the loop, with nothing behind.
LEMMA BeginKeepsStream ==
  ASSUME StreamInv, Begin
  PROVE  StreamInv'
<1>1. /\ phase = "opening" /\ phase' = "draining" /\ live' = TRUE
      /\ evicted' = FALSE /\ heard' = Unheard /\ TakeStream /\ kept' = kept
      /\ jobs' = jobs /\ status' = status /\ final' = final
  BY DEF Begin
<1>2. /\ entry # 0 \/ spent.streams < MaxStreams
      /\ jobs = <<>> /\ status # "completed" /\ status # "none"
      /\ entry # 0 => ReusesLeft /\ Unclosed
  BY <1>1 DEF StreamInv, FlagsInv, PumpInv
<1>3. entry # 0 => stream.number \in Streams
  BY DEF StreamInv, TypesInv, Streams
<1>4. TypesInv'
  BY <1>1, <1>2, <1>3, TakenIsOpen, UnheardIsHeard DEF StreamInv, TypesInv, Phases
<1>5. FlagsInv'
  BY <1>1, <1>2, <1>3, TakenIsOpen DEF FlagsInv
<1>6. InLoop'
  <2>1. CASE entry # 0
    <3>1. Shown' = Shown
      BY <1>1, <1>2, <1>3, <2>1, TakenIsOpen DEF Shown
    <3> QED
      BY <1>2, <2>1, <3>1 DEF InLoop, Unclosed, Behind
  <2>2. CASE entry = 0
    BY <1>1, <1>2, <1>3, <2>2, TakenIsOpen, NewIsInLoop
  <2> QED
    BY <2>1, <2>2
<1>7. PumpInv'
  BY <1>1, <1>2, <1>6 DEF PumpInv
<1> QED
  BY <1>4, <1>5, <1>7 DEF StreamInv

\* The answer is read while the run stays parked.
LEMMA AnswerKeepsStream ==
  ASSUME StreamInv, NEW offered \in Offers, NEW text \in Replies,
         NEW entries \in Entries, Answer(offered, text, entries)
  PROVE  StreamInv'
<1>1. /\ stream' = stream /\ kept' = kept /\ heard' = heard /\ jobs' = jobs
      /\ phase = "paused" /\ phase' = "answering" /\ status' = "working"
      /\ spent' = spent /\ final' = final
      /\ entry' = entry /\ live' = live /\ evicted' = evicted
  BY DEF Answer, history
<1>2. TypesInv'
  BY <1>1 DEF StreamInv, TypesInv, Phases, States
<1>3. FlagsInv'
  BY <1>1, SameStream DEF StreamInv, FlagsInv, InPump
<1>4. PumpInv'
  BY <1>1, SameStream DEF StreamInv, PumpInv
<1> QED
  BY <1>2, <1>3, <1>4 DEF StreamInv

\* The pump goes on with the stream it has, or with a new one.
LEMMA ResumeKeepsStream ==
  ASSUME StreamInv, Resume
  PROVE  StreamInv'
<1>1. /\ phase = "answering" /\ kept' = kept /\ jobs' = jobs /\ status' = status
      /\ final' = final /\ live' = live /\ evicted' = evicted
  BY DEF Resume
<1>2. /\ jobs = <<>> /\ status # "completed" /\ status # "none"
      /\ InLoop
  BY <1>1 DEF StreamInv, FlagsInv, PumpInv
<1>3. CASE /\ phase' = "draining" /\ TakeStream
           /\ entry # 0 \/ spent.streams < MaxStreams
           /\ heard' = IF entry # 0 THEN heard ELSE Unheard
  <2>1. entry # 0 => stream.number \in Streams
    BY DEF StreamInv, TypesInv, Streams
  <2>2. TypesInv'
    BY <1>1, <1>3, <2>1, TakenIsOpen, UnheardIsHeard
       DEF StreamInv, TypesInv, Phases
  <2>3. FlagsInv'
    BY <1>1, <1>2, <1>3, <2>1, TakenIsOpen DEF FlagsInv
  <2>4. InLoop'
    <3>1. CASE entry # 0
      BY <1>1, <1>2, <1>3, <2>1, <3>1, TakenIsOpen, SameStream
    <3>2. CASE entry = 0
      BY <1>1, <1>3, <2>1, <3>2, TakenIsOpen, NewIsInLoop
    <3> QED
      BY <3>1, <3>2
  <2>5. PumpInv'
    BY <1>1, <1>2, <1>3, <2>4 DEF PumpInv
  <2> QED
    BY <2>2, <2>3, <2>5 DEF StreamInv
<1>4. CASE ~live /\ phase' = "over" /\ UNCHANGED <<stream, entry, history>>
  <2>1. stream' = stream /\ heard' = heard /\ spent' = spent /\ entry' = entry
    BY <1>4 DEF history
  <2>2. TypesInv'
    BY <1>1, <1>4, <2>1 DEF StreamInv, TypesInv, Phases
  <2>3. FlagsInv'
    BY <1>1, <1>2, <1>4, <2>1, SameStream DEF StreamInv, FlagsInv, InPump
  <2>4. PumpInv'
    BY <1>1, <1>2, <1>4, <2>1 DEF PumpInv
  <2> QED
    BY <2>2, <2>3, <2>4 DEF StreamInv
<1> QED
  BY <1>3, <1>4 DEF Resume

(***************************************************************************)
(* The agent's events.                                                     *)
(***************************************************************************)
\* What is true of the stream while an event is awaited.
LEMMA InDraining ==
  ASSUME StreamInv, phase = "draining"
  PROVE  /\ jobs = <<>> /\ InLoop /\ Unclosed
         /\ stream.number \in Streams
         /\ status # "completed" /\ status # "none"
         /\ stream.chunks \in Texts /\ stream.pending \in Texts
         /\ Len(stream.pending) <= 1 /\ stream.pending \in Pieces
         /\ Shown.response.text \in Texts /\ Shown.thinking.text \in Thoughts
         /\ Shown.plan \in Plans \cup {NoPlan}
         /\ stream.planShown \in BOOLEAN /\ stream.sentFirst \in BOOLEAN
         /\ stream.sentThought \in BOOLEAN
         /\ Shown.response.closed \in BOOLEAN /\ Shown.thinking.closed \in BOOLEAN
         /\ heard.said \in Texts /\ heard.thought \in Thoughts
<1>1. stream.number \in Streams
  BY DEF StreamInv, FlagsInv, InPump
<1>2. Shown \in KeptPieces
  BY <1>1 DEF StreamInv, TypesInv, Shown
<1>3. /\ Shown.response.text \in Texts /\ Shown.thinking.text \in Thoughts
      /\ Shown.response.closed \in BOOLEAN /\ Shown.thinking.closed \in BOOLEAN
  BY <1>2 DEF Artifacts
<1> QED
  BY <1>1, <1>2, <1>3 DEF StreamInv, TypesInv, FlagsInv, PumpInv, Pieces, InLoop

\* An event changes neither the artifacts nor which of them there are.
LEMMA DrainKeepsFlags ==
  ASSUME StreamInv, phase = "draining", kept' = kept, status' = status,
         stream'.number = stream.number, spent'.streams = spent.streams,
         stream'.sentFirst = stream.sentFirst,
         stream'.sentThought = stream.sentThought,
         phase' \in {"draining", "publishing", "finishing"}
  PROVE  FlagsInv' /\ Shown' = Shown
<1>1. Shown' = Shown
  BY DEF Shown
<1>2. stream.number \in Streams /\ status # "none"
  BY InDraining
<1> QED
  BY <1>1, <1>2 DEF StreamInv, FlagsInv

\* The bounds only count.
LEMMA SpendKeepsTypes ==
  ASSUME TypesInv,
         NEW what \in {"texts", "thoughts", "plans", "asides", "asks", "results"},
         Spend(what)
  PROVE  /\ spent' \in Counts
         /\ spent'.streams = spent.streams
<1>1. spent \in Counts
  BY DEF TypesInv
<1>2. spent[what] \in Nat
  BY <1>1
<1>3. PICK n : n = spent[what] + 1
  OBVIOUS
<1>4. n \in Nat /\ spent' = [spent EXCEPT ![what] = n]
  BY <1>2, <1>3 DEF Spend
<1> QED
  BY <1>1, <1>4

\* A text is held back, and the one before it queued to be flushed.
LEMMA DrainTextKeepsStream ==
  ASSUME StreamInv, DrainText
  PROVE  StreamInv'
<1> PICK text : text = <<spent.texts + 1>>
  OBVIOUS
<1>1. /\ phase = "draining" /\ spent.texts < MaxTexts
      /\ Spend("texts")
      /\ heard' = [heard EXCEPT !.said = @ \o text]
      /\ kept' = kept /\ status' = status /\ final' = final /\ entry' = entry
      /\ live' = live /\ evicted' = evicted
  BY DEF DrainText
<1>2. text \in Texts /\ text \in Pieces /\ text # <<>>
  <2>1. spent.texts \in Nat
    BY DEF StreamInv, TypesInv
  <2>2. spent.texts + 1 \in 1..MaxTexts
    BY <1>1, <2>1, Bounds
  <2> QED
    BY <2>2, OnePiece DEF Pieces, Texts
<1>3. /\ heard' \in Hearings
      /\ heard'.said = heard.said \o text /\ heard'.thought = heard.thought
      /\ heard'.plan = heard.plan /\ heard'.result = heard.result
  <2>1. heard.said \o text \in Texts
    BY <1>1, <1>2, InDraining, Joined DEF Texts
  <2> QED
    BY <1>1, <2>1 DEF StreamInv, TypesInv
<1>4. /\ spent' \in Counts
      /\ spent'.streams = spent.streams
  BY <1>1, SpendKeepsTypes DEF StreamInv
<1>5. CASE stream.pending # <<>>
  <2>1. /\ stream' = [stream EXCEPT !.chunks = @ \o stream.pending]
        /\ jobs' = <<Flush(stream.pending, FALSE, text)>>
        /\ phase' = "publishing"
    BY <1>5, Queues DEF DrainText, Publishes
  <2>2. stream.chunks \o stream.pending \in Texts
    BY <1>1, InDraining, Joined DEF Texts
  <2>3. /\ stream' \in StreamObjects
        /\ stream'.chunks = stream.chunks \o stream.pending
        /\ stream'.pending = stream.pending /\ stream'.number = stream.number
        /\ stream'.sentFirst = stream.sentFirst
        /\ stream'.sentThought = stream.sentThought
        /\ stream'.planShown = stream.planShown
        /\ stream'.metadata = stream.metadata
    BY <2>1, <2>2 DEF StreamInv, TypesInv
  <2>4. FlagsInv' /\ Shown' = Shown
    BY <1>1, <1>4, <2>1, <2>3, DrainKeepsFlags
  <2>5. TypesInv'
    BY <1>1, <1>3, <1>4, <2>1, <2>3 DEF StreamInv, TypesInv, Phases
  <2>6. Behind(stream.pending, text, <<>>, Shown.plan)'
    <3>1. /\ Shown.response.text \o <<>> = Shown.response.text
          /\ Shown.thinking.text \o <<>> = Shown.thinking.text
      BY <1>1, InDraining, Joined DEF Texts, Thoughts
    <3>2. Behind(<<>>, stream.pending, <<>>, Shown.plan)
      BY <1>1, InDraining DEF InLoop
    <3> QED
      BY <1>3, <2>3, <2>4, <3>1, <3>2 DEF Behind
  <2>7. Unclosed'
    BY <1>1, <2>4, InDraining DEF Unclosed
  <2>8. PumpInv'
    <3>1. /\ jobs' = <<Flush(stream'.pending, FALSE, text)>>
          /\ stream'.pending # <<>>
      BY <1>5, <2>1, <2>3
    <3>2. Publishing'
      BY <1>2, <2>6, <2>7, <3>1 DEF Publishing
    <3> QED
      BY <1>1, <2>1, <3>2, InDraining DEF PumpInv
  <2> QED
    BY <2>4, <2>5, <2>8 DEF StreamInv
<1>6. CASE stream.pending = <<>>
  <2>1. /\ stream' = [stream EXCEPT !.pending = text]
        /\ jobs' = jobs /\ phase' = "draining"
    BY <1>1, <1>6 DEF DrainText
  <2>2. /\ stream' \in StreamObjects
        /\ stream'.chunks = stream.chunks /\ stream'.pending = text
        /\ stream'.number = stream.number
        /\ stream'.sentFirst = stream.sentFirst
        /\ stream'.sentThought = stream.sentThought
        /\ stream'.planShown = stream.planShown
        /\ stream'.metadata = stream.metadata
    BY <1>2, <2>1 DEF StreamInv, TypesInv
  <2>3. FlagsInv' /\ Shown' = Shown
    BY <1>1, <1>4, <2>1, <2>2, DrainKeepsFlags
  <2>4. TypesInv'
    BY <1>1, <1>3, <1>4, <2>1, <2>2 DEF StreamInv, TypesInv, Phases
  <2>5. InLoop'
    <3>1. stream.chunks \o <<>> = stream.chunks
      BY <1>1, InDraining, Joined DEF Texts
    <3>2. Behind(<<>>, <<>>, <<>>, Shown.plan) /\ Unclosed
      BY <1>1, <1>6, InDraining DEF InLoop
    <3> QED
      BY <1>3, <2>2, <2>3, <3>1, <3>2 DEF Behind, InLoop, Unclosed
  <2>6. PumpInv'
    BY <1>1, <2>1, <2>5, InDraining DEF PumpInv
  <2> QED
    BY <2>3, <2>4, <2>6 DEF StreamInv
<1> QED
  BY <1>5, <1>6

\* A thought is queued as it comes.
LEMMA DrainThoughtKeepsStream ==
  ASSUME StreamInv, DrainThought
  PROVE  StreamInv'
<1> PICK text : text = <<spent.thoughts + 1>>
  OBVIOUS
<1>1. /\ phase = "draining" /\ spent.thoughts < MaxThoughts
      /\ Spend("thoughts")
      /\ heard' = [heard EXCEPT !.thought = @ \o text]
      /\ jobs' = <<Job("think", text, FALSE, <<>>)>> /\ phase' = "publishing"
      /\ kept' = kept /\ status' = status /\ final' = final /\ entry' = entry
      /\ live' = live /\ evicted' = evicted /\ stream' = stream
  BY Queues DEF DrainThought, Publishes
<1>2. text \in Thoughts /\ text # <<>>
  <2>1. spent.thoughts \in Nat
    BY DEF StreamInv, TypesInv
  <2>2. spent.thoughts + 1 \in 1..MaxThoughts
    BY <1>1, <2>1, Bounds
  <2> QED
    BY <2>2, OnePiece DEF Thoughts
<1>3. /\ heard' \in Hearings
      /\ heard'.said = heard.said /\ heard'.thought = heard.thought \o text
      /\ heard'.plan = heard.plan /\ heard'.result = heard.result
  <2>1. heard.thought \o text \in Thoughts
    BY <1>1, <1>2, InDraining, Joined DEF Thoughts
  <2> QED
    BY <1>1, <2>1 DEF StreamInv, TypesInv
<1>4. /\ spent' \in Counts
      /\ spent'.streams = spent.streams
  BY <1>1, SpendKeepsTypes DEF StreamInv
<1>5. FlagsInv' /\ Shown' = Shown
  BY <1>1, <1>4, DrainKeepsFlags
<1>6. TypesInv'
  BY <1>1, <1>3, <1>4 DEF StreamInv, TypesInv, Phases
<1>7. Behind(<<>>, stream.pending, text, Shown.plan)'
  <2>1. Shown.thinking.text \o <<>> = Shown.thinking.text
    BY <1>1, InDraining, Joined DEF Thoughts
  <2>2. Behind(<<>>, stream.pending, <<>>, Shown.plan)
    BY <1>1, InDraining DEF InLoop
  <2> QED
    BY <1>1, <1>3, <1>5, <2>1, <2>2 DEF Behind
<1>8. Unclosed'
  BY <1>1, <1>5, InDraining DEF Unclosed
<1>9. PumpInv'
  <2>1. Publishing'
    BY <1>1, <1>2, <1>7, <1>8 DEF Publishing
  <2> QED
    BY <1>1, <2>1, InDraining DEF PumpInv
<1> QED
  BY <1>5, <1>6, <1>9 DEF StreamInv

\* A plan is queued, unless it is empty and there is none to replace.
LEMMA DrainPlanKeepsStream ==
  ASSUME StreamInv, NEW body \in Plans, DrainPlan(body)
  PROVE  StreamInv'
<1>1. /\ phase = "draining" /\ Spend("plans")
      /\ heard' = [heard EXCEPT !.plan =
                     IF body = EmptyPlan /\ @ = NoPlan THEN NoPlan ELSE body]
      /\ stream' = [stream EXCEPT !.planShown = @ \/ body # EmptyPlan]
      /\ kept' = kept /\ status' = status /\ final' = final /\ entry' = entry
      /\ live' = live /\ evicted' = evicted
  BY DEF DrainPlan
<1>2. /\ heard' \in Hearings
      /\ heard'.said = heard.said /\ heard'.thought = heard.thought
      /\ heard'.result = heard.result
      /\ heard'.plan = IF body = EmptyPlan /\ heard.plan = NoPlan THEN NoPlan ELSE body
  BY <1>1 DEF StreamInv, TypesInv
<1>3. /\ spent' \in Counts
      /\ spent'.streams = spent.streams
  BY <1>1, SpendKeepsTypes DEF StreamInv
<1>4. /\ stream' \in StreamObjects
      /\ stream'.chunks = stream.chunks /\ stream'.pending = stream.pending
      /\ stream'.number = stream.number
      /\ stream'.sentFirst = stream.sentFirst
      /\ stream'.sentThought = stream.sentThought
      /\ stream'.planShown = (stream.planShown \/ body # EmptyPlan)
      /\ stream'.metadata = stream.metadata
  BY <1>1 DEF StreamInv, TypesInv
<1>5. Behind(<<>>, stream.pending, <<>>, Shown.plan)
  BY <1>1, InDraining DEF InLoop
<1>6. CASE body # EmptyPlan \/ stream.planShown
  <2>1. jobs' = <<Job("plan", body, TRUE, <<>>)>> /\ phase' = "publishing"
    BY <1>6, Queues DEF DrainPlan, Publishes
  <2>2. FlagsInv' /\ Shown' = Shown
    BY <1>1, <1>3, <1>4, <2>1, DrainKeepsFlags
  <2>3. TypesInv'
    BY <1>1, <1>2, <1>3, <1>4, <2>1 DEF StreamInv, TypesInv, Phases
  <2>4. Behind(<<>>, stream.pending, <<>>, body)'
    <3>1. body # NoPlan
      BY Bounds
    <3>2. ReusesLeft \/ heard'.plan = body
      BY <1>2, <1>5, <1>6 DEF Behind
    <3>3. stream'.planShown
      BY <1>4, <1>6
    <3> QED
      BY <1>2, <1>4, <1>5, <2>2, <3>1, <3>2, <3>3 DEF Behind
  <2>5. Unclosed'
    BY <1>1, <2>2, InDraining DEF Unclosed
  <2>6. PumpInv'
    <3>1. Publishing'
      BY <2>1, <2>4, <2>5 DEF Publishing
    <3> QED
      BY <1>1, <2>1, <3>1, InDraining DEF PumpInv
  <2> QED
    BY <2>2, <2>3, <2>6 DEF StreamInv
<1>7. CASE ~(body # EmptyPlan \/ stream.planShown)
  <2>1. jobs' = <<>> /\ phase' = "draining"
    BY <1>7 DEF DrainPlan, Publishes
  <2>2. FlagsInv' /\ Shown' = Shown
    BY <1>1, <1>3, <1>4, <2>1, DrainKeepsFlags
  <2>3. TypesInv'
    BY <1>1, <1>2, <1>3, <1>4, <2>1 DEF StreamInv, TypesInv, Phases
  <2>4. ReusesLeft \/ heard'.plan = heard.plan
    BY <1>2, <1>5, <1>7 DEF Behind
  <2>5. stream'.planShown <=> stream.planShown
    BY <1>4, <1>7
  <2>6. InLoop'
    BY <1>1, <1>2, <1>4, <1>5, <2>2, <2>4, <2>5, InDraining
       DEF InLoop, Behind, Unclosed
  <2>7. PumpInv'
    BY <1>1, <2>1, <2>6, InDraining DEF PumpInv
  <2> QED
    BY <2>2, <2>3, <2>7 DEF StreamInv
<1> QED
  BY <1>6, <1>7

\* A status line touches no artifact.
LEMMA DrainAsideKeepsStream ==
  ASSUME StreamInv, DrainAside
  PROVE  StreamInv'
<1>1. /\ phase = "draining" /\ Spend("asides")
      /\ jobs' = <<Tell("working")>> /\ phase' = "publishing"
      /\ kept' = kept /\ status' = status /\ final' = final /\ entry' = entry
      /\ live' = live /\ evicted' = evicted /\ stream' = stream /\ heard' = heard
  BY Queues DEF DrainAside, Publishes
<1>2. /\ spent' \in Counts
      /\ spent'.streams = spent.streams
  BY <1>1, SpendKeepsTypes DEF StreamInv
<1>3. FlagsInv' /\ Shown' = Shown
  BY <1>1, <1>2, DrainKeepsFlags
<1>4. TypesInv'
  BY <1>1, <1>2 DEF StreamInv, TypesInv, Phases
<1>5. PumpInv'
  <2>1. InLoop' /\ Unclosed'
    BY <1>1, SameStream, InDraining
  <2>2. Publishing'
    BY <1>1, <2>1 DEF Publishing
  <2> QED
    BY <1>1, <2>2, InDraining DEF PumpInv
<1> QED
  BY <1>3, <1>4, <1>5 DEF StreamInv

\* The latest result is the metadata.
LEMMA DrainResultKeepsStream ==
  ASSUME StreamInv, DrainResult
  PROVE  StreamInv'
<1> PICK result : result = spent.results + 1
  OBVIOUS
<1>1. /\ phase = "draining" /\ Spend("results") /\ phase' = phase /\ jobs' = jobs
      /\ stream' = [stream EXCEPT !.metadata = result]
      /\ heard' = [heard EXCEPT !.result = result]
      /\ kept' = kept /\ status' = status /\ final' = final /\ entry' = entry
      /\ live' = live /\ evicted' = evicted
  BY DEF DrainResult
<1>2. result \in Nat
  <2>1. spent.results \in Nat
    BY DEF StreamInv, TypesInv
  <2> QED
    BY <2>1
<1>3. /\ spent' \in Counts
      /\ spent'.streams = spent.streams
  BY <1>1, SpendKeepsTypes DEF StreamInv
<1>4. /\ stream' \in StreamObjects
      /\ stream'.chunks = stream.chunks /\ stream'.pending = stream.pending
      /\ stream'.number = stream.number
      /\ stream'.sentFirst = stream.sentFirst
      /\ stream'.sentThought = stream.sentThought
      /\ stream'.planShown = stream.planShown
      /\ stream'.metadata = result
  BY <1>1, <1>2 DEF StreamInv, TypesInv
<1>5. /\ heard' \in Hearings
      /\ heard'.said = heard.said /\ heard'.thought = heard.thought
      /\ heard'.plan = heard.plan /\ heard'.result = result
  BY <1>1, <1>2 DEF StreamInv, TypesInv
<1>6. FlagsInv' /\ Shown' = Shown
  BY <1>1, <1>3, <1>4, DrainKeepsFlags
<1>7. TypesInv'
  BY <1>1, <1>3, <1>4, <1>5 DEF StreamInv, TypesInv, Phases
<1>8. InLoop'
  BY <1>1, <1>4, <1>5, <1>6, InDraining DEF InLoop, Behind, Unclosed
<1>9. PumpInv'
  BY <1>1, <1>8, InDraining DEF PumpInv
<1> QED
  BY <1>6, <1>7, <1>9 DEF StreamInv

\* A run that died has only its failure left to publish.
LEMMA DrainErrorKeepsStream ==
  ASSUME StreamInv, DrainError
  PROVE  StreamInv'
<1>1. /\ phase = "draining" /\ phase' = "finishing" /\ jobs' = <<Tell("failed")>>
      /\ kept' = kept /\ status' = status /\ final' = final /\ entry' = 0
      /\ live' = FALSE /\ evicted' = evicted /\ stream' = stream /\ heard' = heard
      /\ spent' = spent
  BY DEF DrainError, history
<1>2. FlagsInv' /\ Shown' = Shown
  BY <1>1, DrainKeepsFlags
<1>3. TypesInv'
  BY <1>1 DEF StreamInv, TypesInv, Phases
<1>4. PumpInv'
  <2>1. InLoop'
    BY <1>1, SameStream, InDraining
  <2>2. Finishing'
    BY <1>1, <2>1 DEF Finishing
  <2> QED
    BY <1>1, <2>2, InDraining DEF PumpInv
<1> QED
  BY <1>2, <1>3, <1>4 DEF StreamInv

\* What a handler that flushes does to the stream: the text held back goes to
\* the chunks, and stays the pending one until it is published.
LEMMA FlushKeepsStream ==
  ASSUME StreamInv, phase = "draining",
         stream' = [stream EXCEPT !.chunks = @ \o stream.pending],
         heard' = heard, kept' = kept, status' = status, spent'.streams = spent.streams,
         phase' \in {"publishing", "finishing"}
  PROVE  /\ stream' \in StreamObjects
         /\ stream'.number = stream.number
         /\ stream'.pending = stream.pending
         /\ stream'.sentFirst = stream.sentFirst
         /\ stream'.sentThought = stream.sentThought
         /\ FlagsInv' /\ Shown' = Shown /\ Unclosed'
         /\ Behind(stream.pending, <<>>, <<>>, Shown.plan)'
<1>1. stream.chunks \o stream.pending \in Texts
  BY InDraining, Joined DEF Texts
<1>2. /\ stream' \in StreamObjects
      /\ stream'.chunks = stream.chunks \o stream.pending
      /\ stream'.pending = stream.pending /\ stream'.number = stream.number
      /\ stream'.sentFirst = stream.sentFirst
      /\ stream'.sentThought = stream.sentThought
      /\ stream'.planShown = stream.planShown
      /\ stream'.metadata = stream.metadata
  BY <1>1 DEF StreamInv, TypesInv
<1>3. FlagsInv' /\ Shown' = Shown
  BY <1>2, DrainKeepsFlags
<1>4. Unclosed'
  BY <1>3, InDraining DEF Unclosed
<1>5. Behind(stream.pending, <<>>, <<>>, Shown.plan)'
  <2>1. /\ Shown.response.text \o <<>> = Shown.response.text
        /\ stream'.chunks \o <<>> = stream'.chunks
    BY <1>1, <1>2, InDraining, Joined DEF Texts
  <2>2. Behind(<<>>, stream.pending, <<>>, Shown.plan)
    BY InDraining DEF InLoop
  <2> QED
    BY <1>2, <1>3, <2>1, <2>2 DEF Behind
<1> QED
  BY <1>2, <1>3, <1>4, <1>5

\* Where there is nothing to flush, the chunks are all there is.
LEMMA NothingHeldBack ==
  ASSUME stream.chunks \in Texts, stream.pending = <<>>,
         stream' = [stream EXCEPT !.chunks = @ \o stream.pending],
         stream \in StreamObjects
  PROVE  stream' = stream
<1>1. stream.chunks \o stream.pending = stream.chunks
  BY Joined DEF Texts
<1> QED
  BY <1>1

\* Before the caller is asked, the text held back is queued.
LEMMA DrainAskKeepsStream ==
  ASSUME StreamInv, DrainAsk
  PROVE  StreamInv'
<1>1. /\ phase = "draining" /\ Spend("asks")
      /\ stream' = [stream EXCEPT !.chunks = @ \o stream.pending]
      /\ kept' = kept /\ status' = status /\ final' = final /\ entry' = entry
      /\ live' = live /\ evicted' = evicted /\ heard' = heard
  BY DEF DrainAsk
<1>2. /\ spent' \in Counts
      /\ spent'.streams = spent.streams
  BY <1>1, SpendKeepsTypes DEF StreamInv
<1>3. /\ phase' = "publishing"
      /\ jobs' = IF stream.pending = <<>> THEN <<Tell("input")>>
                 ELSE <<Flush(stream.pending, FALSE, <<>>), Tell("input")>>
  <2>1. /\ <<>> \o <<Tell("input")>> = <<Tell("input")>>
        /\ <<Flush(stream.pending, FALSE, <<>>)>> \o <<Tell("input")>>
             = <<Flush(stream.pending, FALSE, <<>>), Tell("input")>>
    BY QueuesJoined, Zenon
  <2>2. jobs' = IF stream.pending = <<>> THEN <<Tell("input")>>
                ELSE <<Flush(stream.pending, FALSE, <<>>), Tell("input")>>
    <3>1. CASE stream.pending = <<>>
      BY <2>1, <3>1, Zenon DEF DrainAsk, Publishes
    <3>2. CASE stream.pending # <<>>
      BY <2>1, <3>2, Zenon DEF DrainAsk, Publishes
    <3> QED
      BY <3>1, <3>2
  <2>3. jobs' # <<>>
    BY <2>2, Queues
  <2>4. PICK list : Publishes(list)
    BY DEF DrainAsk
  <2>5. phase' = "publishing"
    BY <2>3, <2>4 DEF Publishes
  <2> QED
    BY <2>2, <2>5
<1>4. /\ stream' \in StreamObjects
      /\ stream'.number = stream.number
      /\ stream'.pending = stream.pending
      /\ FlagsInv' /\ Shown' = Shown /\ Unclosed'
      /\ Behind(stream.pending, <<>>, <<>>, Shown.plan)'
  BY <1>1, <1>2, <1>3, FlushKeepsStream
<1>5. TypesInv'
  BY <1>1, <1>2, <1>3, <1>4 DEF StreamInv, TypesInv, Phases
<1>6. Publishing'
  <2>1. CASE stream.pending = <<>>
    <3>1. stream' = stream
      BY <1>1, <2>1, InDraining, NothingHeldBack DEF StreamInv, TypesInv
    <3>2. InLoop'
      BY <1>1, <3>1, SameStream, InDraining
    <3> QED
      BY <1>3, <1>4, <2>1, <3>2 DEF Publishing
  <2>2. CASE stream.pending # <<>>
    BY <1>3, <1>4, <2>2 DEF Publishing
  <2> QED
    BY <2>1, <2>2
<1>7. PumpInv'
  BY <1>1, <1>3, <1>6, InDraining DEF PumpInv
<1> QED
  BY <1>4, <1>5, <1>7 DEF StreamInv

\* The four queues a run that ended may leave.
LEMMA Endings ==
  Ending =
    IF stream.sentThought
      THEN IF stream.pending # <<>> \/ stream.sentFirst
             THEN <<EndThought, LastFlush, Tell("completed")>>
             ELSE <<EndThought, Tell("completed")>>
      ELSE IF stream.pending # <<>> \/ stream.sentFirst
             THEN <<LastFlush, Tell("completed")>>
             ELSE <<Tell("completed")>>
<1>2. stream.pending = <<>> => Flush(<<>>, TRUE, <<>>) = LastFlush
  BY DEF LastFlush
<1> DEFINE thought == IF stream.sentThought THEN <<EndThought>> ELSE <<>>
           text == IF stream.pending # <<>> \/ stream.sentFirst
                     THEN <<LastFlush>> ELSE <<>>
<1>3. Ending = (thought \o text) \o <<Tell("completed")>>
  <2>1. (IF stream.pending # <<>>
           THEN <<Flush(stream.pending, TRUE, stream.pending)>>
         ELSE IF stream.sentFirst THEN <<Flush(<<>>, TRUE, <<>>)>>
         ELSE <<>>) = text
    <3>1. CASE stream.pending = <<>>
      BY <1>2, <3>1, Zenon
    <3>2. CASE stream.pending # <<>>
      BY <3>2, Zenon DEF LastFlush
    <3> QED
      BY <3>1, <3>2
  <2> QED
    BY <2>1, Zenon DEF Ending, EndThought
<1>4. CASE stream.sentThought
  <2>1. CASE stream.pending # <<>> \/ stream.sentFirst
    <3>1. (<<EndThought>> \o <<LastFlush>>) \o <<Tell("completed")>>
            = <<EndThought, LastFlush, Tell("completed")>>
      <4>1. <<EndThought>> \o <<LastFlush>> = <<EndThought, LastFlush>>
        BY QueuesJoined, Zenon
      <4>2. <<EndThought, LastFlush>> \o <<Tell("completed")>>
              = <<EndThought, LastFlush, Tell("completed")>>
        BY ThreeJoined, Zenon
      <4> QED
        BY <4>1, <4>2, Zenon
    <3> QED
      BY <1>3, <1>4, <2>1, <3>1, Zenon
  <2>2. CASE ~(stream.pending # <<>> \/ stream.sentFirst)
    <3>1. (<<EndThought>> \o <<>>) \o <<Tell("completed")>>
            = <<EndThought, Tell("completed")>>
      BY QueuesJoined, Zenon
    <3> QED
      BY <1>3, <1>4, <2>2, <3>1, Zenon
  <2> QED
    BY <2>1, <2>2
<1>5. CASE ~stream.sentThought
  <2>1. CASE stream.pending # <<>> \/ stream.sentFirst
    <3>1. (<<>> \o <<LastFlush>>) \o <<Tell("completed")>>
            = <<LastFlush, Tell("completed")>>
      BY QueuesJoined, Zenon
    <3> QED
      BY <1>3, <1>5, <2>1, <3>1, Zenon
  <2>2. CASE ~(stream.pending # <<>> \/ stream.sentFirst)
    <3>1. (<<>> \o <<>>) \o <<Tell("completed")>> = <<Tell("completed")>>
      BY QueuesJoined, Zenon
    <3> QED
      BY <1>3, <1>5, <2>2, <3>1, Zenon
  <2> QED
    BY <2>1, <2>2
<1> QED
  BY <1>4, <1>5

\* A run that was evicted fails; any other has its end to publish.
LEMMA DrainEndKeepsStream ==
  ASSUME StreamInv, DrainEnd
  PROVE  StreamInv'
<1>1. /\ phase = "draining" /\ phase' = "finishing"
      /\ kept' = kept /\ status' = status /\ final' = final /\ entry' = entry
      /\ live' = live /\ evicted' = evicted /\ heard' = heard /\ spent' = spent
  BY DEF DrainEnd, history
<1>2. CASE evicted
  <2>1. jobs' = <<Tell("failed")>> /\ stream' = stream
    BY <1>2 DEF DrainEnd
  <2>2. FlagsInv' /\ Shown' = Shown
    BY <1>1, <2>1, DrainKeepsFlags
  <2>3. TypesInv'
    BY <1>1, <2>1 DEF StreamInv, TypesInv, Phases
  <2>4. Finishing'
    BY <1>1, <2>1, SameStream, InDraining DEF Finishing
  <2>5. PumpInv'
    BY <1>1, <2>1, <2>4, InDraining DEF PumpInv
  <2> QED
    BY <2>2, <2>3, <2>5 DEF StreamInv
<1>3. CASE ~evicted
  <2>1. jobs' = Ending /\ stream' = [stream EXCEPT !.chunks = @ \o stream.pending]
    BY <1>3 DEF DrainEnd
  <2>2. /\ stream' \in StreamObjects
        /\ stream'.number = stream.number
        /\ stream'.pending = stream.pending
        /\ stream'.sentFirst = stream.sentFirst
        /\ stream'.sentThought = stream.sentThought
        /\ FlagsInv' /\ Shown' = Shown /\ Unclosed'
        /\ Behind(stream.pending, <<>>, <<>>, Shown.plan)'
    BY <1>1, <2>1, FlushKeepsStream
  <2>3. TypesInv'
    BY <1>1, <2>2 DEF StreamInv, TypesInv, Phases
  <2>4. LastFlush' = LastFlush
    BY <2>2 DEF LastFlush
  <2>5. stream.pending = <<>> => Behind(<<>>, <<>>, <<>>, Shown.plan)'
    BY <2>2 DEF Behind
  <2>8. /\ Shown'.response.closed \in BOOLEAN /\ Shown'.thinking.closed \in BOOLEAN
        /\ stream.sentThought \in BOOLEAN /\ stream.sentFirst \in BOOLEAN
    BY <1>1, <2>2, InDraining
  <2>6. Finishing'
    <3>1. CASE stream.sentThought /\ (stream.pending # <<>> \/ stream.sentFirst)
      <4>1. jobs' = <<EndThought, LastFlush, Tell("completed")>>
        BY <2>1, <3>1, Endings
      <4> QED
        BY <2>2, <2>4, <3>1, <4>1 DEF Finishing
    <3>2. CASE stream.sentThought /\ ~(stream.pending # <<>> \/ stream.sentFirst)
      <4>1. jobs' = <<EndThought, Tell("completed")>>
        BY <2>1, <3>2, Endings
      <4> QED
        BY <2>2, <2>5, <3>2, <4>1 DEF Finishing
    <3>3. CASE ~stream.sentThought /\ (stream.pending # <<>> \/ stream.sentFirst)
      <4>1. jobs' = <<LastFlush, Tell("completed")>>
        BY <2>1, <3>3, Endings
      <4>2. ThinkingIsWhole' /\ ~Shown'.response.closed
        BY <1>1, <2>2, <3>3, <2>8 DEF ThinkingIsWhole, Unclosed
      <4> QED
        BY <2>2, <2>4, <3>3, <4>1, <4>2 DEF Finishing
    <3>4. CASE ~stream.sentThought /\ ~(stream.pending # <<>> \/ stream.sentFirst)
      <4>1. jobs' = <<Tell("completed")>>
        BY <2>1, <3>4, Endings
      <4>2. ThinkingIsWhole' /\ ResponseIsWhole'
        BY <1>1, <2>2, <3>4, <2>8 DEF ThinkingIsWhole, ResponseIsWhole, Unclosed
      <4> QED
        BY <2>2, <2>5, <3>4, <4>1, <4>2 DEF Finishing
    <3> QED
      BY <3>1, <3>2, <3>3, <3>4
  <2>7. PumpInv'
    BY <1>1, <2>6, InDraining DEF PumpInv
  <2> QED
    BY <2>2, <2>3, <2>7 DEF StreamInv
<1> QED
  BY <1>2, <1>3

(***************************************************************************)
(* Publishing.                                                             *)
(***************************************************************************)
\* What publishing the job at the head does, whatever it is.
LEMMA PublishDoes ==
  ASSUME StreamInv, Publish, NEW job, job = Head(jobs)
  PROVE  /\ stream.number \in Streams /\ Shown \in KeptPieces
         /\ jobs' = Tail(jobs) /\ phase \in {"publishing", "finishing"}
         /\ stream'.number = stream.number /\ stream'.chunks = stream.chunks
         /\ stream'.planShown = stream.planShown
         /\ stream'.metadata = stream.metadata
         /\ stream'.sentFirst = (stream.sentFirst \/ job.do = "flush")
         /\ stream'.sentThought = (stream.sentThought \/ job.do = "think")
         /\ stream'.pending = IF job.do = "flush" THEN job.next ELSE stream.pending
         /\ Shown' = KeptAfter(job, Shown)
         /\ kept' = [kept EXCEPT ![stream.number] = KeptAfter(job, Shown)]
         /\ heard' = heard /\ spent' = spent /\ evicted' = evicted
         /\ status' = IF job.do \in States THEN job.do ELSE status
         /\ status # "completed" /\ status # "none"
         /\ phase' = CASE job.do = "input" -> "paused"
                       [] job.do \in {"completed", "failed"} -> "over"
                       [] OTHER -> IF phase = "publishing" /\ Tail(jobs) = <<>>
                                     THEN "draining" ELSE phase
         /\ IF job.do = "completed"
              THEN /\ entry' = 0 /\ live' = FALSE
                   /\ final'.text = stream.chunks /\ final'.metadata = stream.metadata
              ELSE entry' = entry /\ live' = live
<1>1. phase \in {"publishing", "finishing"}
  BY DEF Publish
<1>2. stream.number \in Streams /\ status # "completed" /\ status # "none"
  BY <1>1 DEF StreamInv, FlagsInv, PumpInv, InPump
<1>3. Shown \in KeptPieces
  BY <1>2 DEF StreamInv, TypesInv, Shown, KeptPieces
<1>4. stream' = [stream EXCEPT !.sentFirst   = @ \/ job.do = "flush",
                               !.sentThought = @ \/ job.do = "think",
                               !.pending     = IF job.do = "flush" THEN job.next
                                               ELSE @]
  BY DEF Publish
<1>5. /\ stream'.number = stream.number /\ stream'.chunks = stream.chunks
      /\ stream'.planShown = stream.planShown
      /\ stream'.metadata = stream.metadata
      /\ stream'.sentFirst = (stream.sentFirst \/ job.do = "flush")
      /\ stream'.sentThought = (stream.sentThought \/ job.do = "think")
      /\ stream'.pending = IF job.do = "flush" THEN job.next ELSE stream.pending
  BY <1>4 DEF StreamInv, TypesInv
<1>6. kept' = [kept EXCEPT ![stream.number] = KeptAfter(job, Shown)]
  BY DEF Publish, Shown
<1>7. Shown' = KeptAfter(job, Shown)
  BY <1>2, <1>5, <1>6 DEF StreamInv, TypesInv, Shown
<1>8. /\ jobs' = Tail(jobs) /\ heard' = heard /\ spent' = spent /\ evicted' = evicted
      /\ status' = IF job.do \in States THEN job.do ELSE status
      /\ phase' = CASE job.do = "input" -> "paused"
                    [] job.do \in {"completed", "failed"} -> "over"
                    [] OTHER -> IF phase = "publishing" /\ Tail(jobs) = <<>>
                                  THEN "draining" ELSE phase
  BY DEF Publish, history
<1>9. IF job.do = "completed"
        THEN /\ entry' = 0 /\ live' = FALSE
             /\ final'.text = stream.chunks /\ final'.metadata = stream.metadata
        ELSE entry' = entry /\ live' = live
  BY DEF Publish
<1> QED
  BY <1>1, <1>2, <1>3, <1>5, <1>6, <1>7, <1>8, <1>9

\* What it takes for the types and the flags to be kept.
LEMMA PublishKeepsFlags ==
  ASSUME StreamInv, Publish,
         stream'.pending \in Pieces, Shown' \in KeptPieces,
         Shown'.response.there = stream'.sentFirst,
         Shown'.thinking.there = stream'.sentThought
  PROVE  TypesInv' /\ FlagsInv'
<1> PICK job : job = Head(jobs)
  OBVIOUS
<1>1. /\ stream.number \in Streams
      /\ phase \in {"publishing", "finishing"}
      /\ stream'.number = stream.number /\ Shown' = KeptAfter(job, Shown)
      /\ kept' = [kept EXCEPT ![stream.number] = KeptAfter(job, Shown)]
      /\ heard' = heard /\ spent' = spent /\ evicted' = evicted
      /\ status' = IF job.do \in States THEN job.do ELSE status
      /\ status # "none"
      /\ phase' \in {"paused", "over", "draining", phase}
      /\ entry' \in {0, entry} /\ live' \in {FALSE, live}
  <2>1. phase' = CASE job.do = "input" -> "paused"
                    [] job.do \in {"completed", "failed"} -> "over"
                    [] OTHER -> IF phase = "publishing" /\ Tail(jobs) = <<>>
                                  THEN "draining" ELSE phase
    BY PublishDoes
  <2>2. phase' \in {"paused", "over", "draining", phase}
    BY <2>1
  <2>3. entry' \in {0, entry} /\ live' \in {FALSE, live}
    BY PublishDoes
  <2> QED
    BY <2>2, <2>3, PublishDoes
<1>2. stream' \in StreamObjects
  <2>1. stream' = [stream EXCEPT !.sentFirst   = @ \/ job.do = "flush",
                                 !.sentThought = @ \/ job.do = "think",
                                 !.pending     = IF job.do = "flush" THEN job.next
                                                 ELSE @]
    BY DEF Publish
  <2>2. (stream.sentFirst \/ job.do = "flush") \in BOOLEAN
        /\ (stream.sentThought \/ job.do = "think") \in BOOLEAN
    OBVIOUS
  <2> QED
    BY <2>1, <2>2 DEF StreamInv, TypesInv
<1>3. kept' \in [Streams -> KeptPieces]
  BY <1>1 DEF StreamInv, TypesInv, KeptPieces
<1>4. TypesInv'
  BY <1>1, <1>2, <1>3 DEF StreamInv, TypesInv, KeptPieces, Phases, States
<1>5. FlagsInv'
  <2>1. stream.number \in Nat /\ stream.number <= spent.streams
        /\ spent.streams \in Nat
    BY DEF StreamInv, TypesInv, FlagsInv
  <2>2. \A n \in Streams : n > spent.streams => kept'[n] = Nil
    BY <1>1, <2>1 DEF StreamInv, TypesInv, FlagsInv, Streams
  <2>3. status' # "none" /\ phase' # "opening"
    BY <1>1 DEF States
  <2> QED
    BY <1>1, <2>1, <2>2, <2>3 DEF FlagsInv
<1> QED
  BY <1>4, <1>5

\* A piece of the response that is published.
LEMMA FlushIsKept ==
  ASSUME StreamInv, Publish, NEW text \in Texts, NEW last \in BOOLEAN,
         NEW next \in Pieces, Head(jobs) = Flush(text, last, next),
         ~Shown.response.closed,
         stream.sentFirst \/ text # <<>>,
         NEW rest, Behind(text, rest, <<>>, Shown.plan)
  PROVE  /\ TypesInv' /\ FlagsInv'
         /\ stream'.pending = next /\ stream'.sentFirst
         /\ stream'.sentThought = stream.sentThought
         /\ Shown'.response.closed = last /\ Shown'.thinking = Shown.thinking
         /\ Shown'.plan = Shown.plan
         /\ Behind(<<>>, rest, <<>>, Shown.plan)'
         /\ phase' = IF phase = "publishing" /\ Tail(jobs) = <<>> THEN "draining"
                     ELSE phase
         /\ status' = status /\ jobs' = Tail(jobs)
<1> PICK job : job = Flush(text, last, next)
  OBVIOUS
<1>1. /\ job.do = "flush" /\ job.text = text /\ job.last = last /\ job.next = next
  BY DEF Flush, Job
<1>2. /\ Shown \in KeptPieces
      /\ stream'.chunks = stream.chunks /\ stream'.planShown = stream.planShown
      /\ stream'.metadata = stream.metadata /\ stream'.sentFirst
      /\ stream'.sentThought = (stream.sentThought \/ job.do = "think")
      /\ stream'.pending = next /\ Shown' = KeptAfter(job, Shown)
      /\ heard' = heard /\ status' = status /\ jobs' = Tail(jobs)
      /\ phase' = IF phase = "publishing" /\ Tail(jobs) = <<>> THEN "draining"
                  ELSE phase
  BY <1>1, PublishDoes DEF States
<1>3. stream.sentThought \in BOOLEAN /\ stream.sentFirst \in BOOLEAN
  BY DEF StreamInv, TypesInv
<1>4. stream'.sentThought = stream.sentThought
  BY <1>1, <1>2, <1>3
<1>5. /\ Shown.response \in Artifacts(Texts) /\ Shown.thinking \in Artifacts(Thoughts)
      /\ Shown.plan \in Plans \cup {NoPlan}
      /\ Shown.response.text \in Texts /\ Shown.response.there \in BOOLEAN
      /\ ~Shown.response.there => Shown.response.text = <<>>
      /\ Shown.thinking.text \in Thoughts
  BY <1>2 DEF KeptPieces, Artifacts
<1>6. /\ Shown.response.there = stream.sentFirst
      /\ Shown.thinking.there = stream.sentThought
  BY PublishDoes DEF StreamInv, FlagsInv
<1>7. /\ Shown.response.text \o text \in Texts
      /\ <<>> \o text = text
      /\ (Shown.response.text \o text) \o <<>> = Shown.response.text \o text
      /\ Shown.thinking.text \o <<>> = Shown.thinking.text
      /\ Shown.response.text # <<>> => Shown.response.text \o text # <<>>
      /\ text # <<>> => Shown.response.text \o text # <<>>
  BY <1>5, Joined DEF Texts, Thoughts
<1>8. Shown' = [Shown EXCEPT !.response =
                  [there |-> TRUE, text |-> Shown.response.text \o text,
                   closed |-> last]]
  <2>1. Shown' = [Shown EXCEPT !.response =
                    Stored(@, text, stream.sentFirst, last)]
    BY <1>1, <1>2 DEF KeptAfter
  <2>2. Stored(Shown.response, text, stream.sentFirst, last)
          = [there |-> TRUE, text |-> Shown.response.text \o text, closed |-> last]
    <3>1. CASE stream.sentFirst
      <4>1. Shown.response.there /\ (Shown.response.closed \/ last) = last
        BY <1>6, <3>1
      <4>2. Shown.response \in [there : BOOLEAN, text : Texts, closed : BOOLEAN]
        BY <1>5 DEF Artifacts
      <4>3. Stored(Shown.response, text, TRUE, last)
              = [Shown.response EXCEPT !.text = @ \o text, !.closed = @ \/ last]
        BY <4>1 DEF Stored
      <4> QED
        BY <3>1, <4>1, <4>2, <4>3, <1>3
    <3>2. CASE ~stream.sentFirst
      <4>1. Shown.response.text = <<>>
        BY <1>5, <1>6, <3>2
      <4>2. Stored(Shown.response, text, stream.sentFirst, last)
              = [there |-> TRUE, text |-> text, closed |-> last]
        BY <3>2 DEF Stored
      <4> QED
        BY <1>7, <4>1, <4>2
    <3> QED
      BY <3>1, <3>2
  <2> QED
    BY <2>1, <2>2
<1>9. /\ Shown'.response = [there |-> TRUE, text |-> Shown.response.text \o text,
                            closed |-> last]
      /\ Shown'.thinking = Shown.thinking /\ Shown'.plan = Shown.plan
      /\ Shown' \in KeptPieces
  <2>1. [there |-> TRUE, text |-> Shown.response.text \o text, closed |-> last]
          \in Artifacts(Texts)
    BY <1>7 DEF Artifacts
  <2> QED
    BY <1>2, <1>8, <2>1 DEF KeptPieces
<1>10. /\ Shown'.response.text = Shown.response.text \o text
       /\ Shown'.response.there = TRUE /\ Shown'.response.closed = last
  BY <1>9
<1>11. TypesInv' /\ FlagsInv'
  <2>1. stream'.sentFirst = TRUE
    BY <1>1, PublishDoes
  <2> QED
    BY <1>2, <1>4, <1>6, <1>9, <1>10, <2>1, PublishKeepsFlags
<1>12. Behind(<<>>, rest, <<>>, Shown.plan)'
  <2>1. ReusesLeft \/ Shown'.response.text # <<>>
    BY <1>7, <1>10 DEF Behind
  <2> QED
    BY <1>2, <1>4, <1>7, <1>9, <1>10, <2>1 DEF Behind
<1> QED
  BY <1>2, <1>4, <1>9, <1>10, <1>11, <1>12

\* A piece of the thinking that is published.
LEMMA ThoughtIsKept ==
  ASSUME StreamInv, Publish, NEW text \in Thoughts, NEW last \in BOOLEAN,
         Head(jobs) = Job("think", text, last, <<>>),
         ~Shown.thinking.closed,
         stream.sentThought \/ text # <<>>,
         NEW queued, NEW held, Behind(queued, held, text, Shown.plan)
  PROVE  /\ TypesInv' /\ FlagsInv'
         /\ stream'.pending = stream.pending /\ stream'.sentThought
         /\ stream'.sentFirst = stream.sentFirst
         /\ Shown'.thinking.closed = last /\ Shown'.response = Shown.response
         /\ Shown'.plan = Shown.plan
         /\ Behind(queued, held, <<>>, Shown.plan)'
         /\ phase' = IF phase = "publishing" /\ Tail(jobs) = <<>> THEN "draining"
                     ELSE phase
         /\ status' = status /\ jobs' = Tail(jobs)
<1> PICK job : job = Job("think", text, last, <<>>)
  OBVIOUS
<1>1. /\ job.do = "think" /\ job.text = text /\ job.last = last
  BY DEF Job
<1>2. /\ Shown \in KeptPieces
      /\ stream'.chunks = stream.chunks /\ stream'.planShown = stream.planShown
      /\ stream'.metadata = stream.metadata /\ stream'.sentThought
      /\ stream'.sentFirst = (stream.sentFirst \/ job.do = "flush")
      /\ stream'.pending = stream.pending /\ Shown' = KeptAfter(job, Shown)
      /\ heard' = heard /\ status' = status /\ jobs' = Tail(jobs)
      /\ phase' = IF phase = "publishing" /\ Tail(jobs) = <<>> THEN "draining"
                  ELSE phase
  BY <1>1, PublishDoes DEF States
<1>3. stream.sentThought \in BOOLEAN /\ stream.sentFirst \in BOOLEAN
      /\ stream.pending \in Pieces
  BY DEF StreamInv, TypesInv
<1>4. stream'.sentFirst = stream.sentFirst
  BY <1>1, <1>2, <1>3
<1>5. /\ Shown.response \in Artifacts(Texts) /\ Shown.thinking \in Artifacts(Thoughts)
      /\ Shown.plan \in Plans \cup {NoPlan}
      /\ Shown.thinking.text \in Thoughts /\ Shown.thinking.there \in BOOLEAN
      /\ ~Shown.thinking.there => Shown.thinking.text = <<>>
  BY <1>2 DEF KeptPieces, Artifacts
<1>6. /\ Shown.response.there = stream.sentFirst
      /\ Shown.thinking.there = stream.sentThought
  BY PublishDoes DEF StreamInv, FlagsInv
<1>7. /\ Shown.thinking.text \o text \in Thoughts
      /\ <<>> \o text = text
      /\ (Shown.thinking.text \o text) \o <<>> = Shown.thinking.text \o text
      /\ Shown.thinking.text # <<>> => Shown.thinking.text \o text # <<>>
      /\ text # <<>> => Shown.thinking.text \o text # <<>>
  BY <1>5, Joined DEF Thoughts
<1>8. Shown' = [Shown EXCEPT !.thinking =
                  [there |-> TRUE, text |-> Shown.thinking.text \o text,
                   closed |-> last]]
  <2>1. Shown' = [Shown EXCEPT !.thinking =
                    Stored(@, text, stream.sentThought, last)]
    BY <1>1, <1>2 DEF KeptAfter
  <2>2. Stored(Shown.thinking, text, stream.sentThought, last)
          = [there |-> TRUE, text |-> Shown.thinking.text \o text, closed |-> last]
    <3>1. CASE stream.sentThought
      <4>1. Shown.thinking.there /\ (Shown.thinking.closed \/ last) = last
        BY <1>6, <3>1
      <4>2. Shown.thinking \in [there : BOOLEAN, text : Thoughts, closed : BOOLEAN]
        BY <1>5 DEF Artifacts
      <4>3. Stored(Shown.thinking, text, TRUE, last)
              = [Shown.thinking EXCEPT !.text = @ \o text, !.closed = @ \/ last]
        BY <4>1 DEF Stored
      <4> QED
        BY <3>1, <4>1, <4>2, <4>3, <1>3
    <3>2. CASE ~stream.sentThought
      <4>1. Shown.thinking.text = <<>>
        BY <1>5, <1>6, <3>2
      <4>2. Stored(Shown.thinking, text, stream.sentThought, last)
              = [there |-> TRUE, text |-> text, closed |-> last]
        BY <3>2 DEF Stored
      <4> QED
        BY <1>7, <4>1, <4>2
    <3> QED
      BY <3>1, <3>2
  <2> QED
    BY <2>1, <2>2
<1>9. /\ Shown'.thinking = [there |-> TRUE, text |-> Shown.thinking.text \o text,
                            closed |-> last]
      /\ Shown'.response = Shown.response /\ Shown'.plan = Shown.plan
      /\ Shown' \in KeptPieces
  <2>1. [there |-> TRUE, text |-> Shown.thinking.text \o text, closed |-> last]
          \in Artifacts(Thoughts)
    BY <1>7 DEF Artifacts
  <2> QED
    BY <1>2, <1>8, <2>1 DEF KeptPieces
<1>10. /\ Shown'.thinking.text = Shown.thinking.text \o text
       /\ Shown'.thinking.there = TRUE /\ Shown'.thinking.closed = last
  BY <1>9
<1>11. TypesInv' /\ FlagsInv'
  <2>1. stream'.sentThought = TRUE
    BY <1>1, PublishDoes
  <2> QED
    BY <1>2, <1>3, <1>4, <1>6, <1>9, <1>10, <2>1, PublishKeepsFlags
<1>12. Behind(queued, held, <<>>, Shown.plan)'
  <2>1. ReusesLeft \/ Shown'.thinking.text # <<>>
    BY <1>7, <1>10 DEF Behind
  <2> QED
    BY <1>2, <1>4, <1>7, <1>9, <1>10, <2>1 DEF Behind
<1> QED
  BY <1>2, <1>4, <1>9, <1>10, <1>11, <1>12

\* The plan, and what does not touch an artifact.
LEMMA PlanIsKept ==
  ASSUME StreamInv, Publish, NEW body \in Plans,
         Head(jobs) = Job("plan", body, TRUE, <<>>),
         Behind(<<>>, stream.pending, <<>>, body), Unclosed
  PROVE  /\ TypesInv' /\ FlagsInv' /\ InLoop'
         /\ phase' = IF phase = "publishing" /\ Tail(jobs) = <<>> THEN "draining"
                     ELSE phase
         /\ status' = status /\ jobs' = Tail(jobs)
<1> PICK job : job = Job("plan", body, TRUE, <<>>)
  OBVIOUS
<1>1. job.do = "plan" /\ job.text = body
  BY DEF Job
<1>2. /\ Shown \in KeptPieces
      /\ stream'.chunks = stream.chunks /\ stream'.planShown = stream.planShown
      /\ stream'.metadata = stream.metadata
      /\ stream'.sentFirst = (stream.sentFirst \/ job.do = "flush")
      /\ stream'.sentThought = (stream.sentThought \/ job.do = "think")
      /\ stream'.pending = stream.pending /\ Shown' = KeptAfter(job, Shown)
      /\ heard' = heard /\ status' = status /\ jobs' = Tail(jobs)
      /\ phase' = IF phase = "publishing" /\ Tail(jobs) = <<>> THEN "draining"
                  ELSE phase
  BY <1>1, PublishDoes DEF States
<1>3. stream.sentThought \in BOOLEAN /\ stream.sentFirst \in BOOLEAN
      /\ stream.pending \in Pieces
  BY DEF StreamInv, TypesInv
<1>4. stream'.sentFirst = stream.sentFirst /\ stream'.sentThought = stream.sentThought
  BY <1>1, <1>2, <1>3
<1>5. /\ Shown.response.there = stream.sentFirst
      /\ Shown.thinking.there = stream.sentThought
  BY PublishDoes DEF StreamInv, FlagsInv
<1>6. Shown' = [Shown EXCEPT !.plan = body]
  BY <1>1, <1>2 DEF KeptAfter
<1>7. /\ Shown'.response = Shown.response /\ Shown'.thinking = Shown.thinking
      /\ Shown'.plan = body /\ Shown' \in KeptPieces
  BY <1>2, <1>6 DEF KeptPieces
<1>8. TypesInv' /\ FlagsInv'
  BY <1>2, <1>3, <1>4, <1>5, <1>7, PublishKeepsFlags
<1>9. InLoop'
  BY <1>2, <1>4, <1>7 DEF InLoop, Behind, Unclosed
<1> QED
  BY <1>2, <1>8, <1>9

\* A status line changes the status alone, and ends what it says it ends.
LEMMA TellKeepsAll ==
  ASSUME StreamInv, Publish, NEW state \in States, Head(jobs) = Tell(state)
  PROVE  /\ TypesInv' /\ FlagsInv' /\ Shown' = Shown /\ stream' = stream
         /\ kept' = kept /\ heard' = heard /\ status' = state /\ jobs' = Tail(jobs)
         /\ phase' = CASE state = "input" -> "paused"
                       [] state \in {"completed", "failed"} -> "over"
                       [] OTHER -> IF phase = "publishing" /\ Tail(jobs) = <<>>
                                     THEN "draining" ELSE phase
         /\ state = "completed" => /\ final'.text = stream.chunks
                                   /\ final'.metadata = stream.metadata
<1> PICK job : job = Tell(state)
  OBVIOUS
<1>1. job.do = state /\ job.do \notin {"flush", "think", "plan"}
  BY DEF Tell, Job, States
<1>2. /\ Shown \in KeptPieces /\ stream.number \in Streams
      /\ Shown' = KeptAfter(job, Shown)
      /\ kept' = [kept EXCEPT ![stream.number] = KeptAfter(job, Shown)]
      /\ heard' = heard /\ status' = state /\ jobs' = Tail(jobs)
      /\ phase' = CASE job.do = "input" -> "paused"
                    [] job.do \in {"completed", "failed"} -> "over"
                    [] OTHER -> IF phase = "publishing" /\ Tail(jobs) = <<>>
                                  THEN "draining" ELSE phase
      /\ state = "completed" => /\ final'.text = stream.chunks
                                /\ final'.metadata = stream.metadata
  BY <1>1, PublishDoes
<1>3. Shown' = Shown /\ KeptAfter(job, Shown) = Shown
  BY <1>1, <1>2 DEF KeptAfter
<1>4. kept' = kept
  BY <1>2, <1>3 DEF StreamInv, TypesInv, Shown
<1>5. stream' = stream
  <2>1. stream' = [stream EXCEPT !.sentFirst   = @ \/ job.do = "flush",
                                 !.sentThought = @ \/ job.do = "think",
                                 !.pending     = IF job.do = "flush" THEN job.next
                                                 ELSE @]
    BY DEF Publish
  <2>2. /\ (stream.sentFirst \/ job.do = "flush") = stream.sentFirst
        /\ (stream.sentThought \/ job.do = "think") = stream.sentThought
    BY <1>1 DEF StreamInv, TypesInv
  <2> QED
    BY <1>1, <2>1, <2>2 DEF StreamInv, TypesInv
<1>6. TypesInv' /\ FlagsInv'
  <2>1. stream.pending \in Pieces /\ Shown.response.there = stream.sentFirst
        /\ Shown.thinking.there = stream.sentThought
    BY <1>2 DEF StreamInv, TypesInv, FlagsInv
  <2> QED
    BY <1>2, <1>3, <1>5, <2>1, PublishKeepsFlags
<1> QED
  BY <1>1, <1>2, <1>3, <1>4, <1>5, <1>6

\* In the loop: what is left once a job is published is what may be left.
LEMMA PublishingKeepsStream ==
  ASSUME StreamInv, Publish, phase = "publishing"
  PROVE  StreamInv'
<1>1. Publishing /\ Unclosed
  BY DEF StreamInv, PumpInv, Publishing
<1>2. /\ status # "completed" /\ stream.pending \in Pieces /\ stream.pending \in Texts
      /\ Shown \in KeptPieces
  BY PublishDoes DEF StreamInv, TypesInv, Pieces
<1>3. ASSUME NEW next \in Pieces, jobs = <<Flush(stream.pending, FALSE, next)>>,
             stream.pending # <<>>, Behind(stream.pending, next, <<>>, Shown.plan)
      PROVE  StreamInv'
  <2>1. Head(jobs) = Flush(stream.pending, FALSE, next) /\ Tail(jobs) = <<>>
    BY <1>3, Queues
  <2>2. /\ TypesInv' /\ FlagsInv' /\ stream'.pending = next
        /\ Shown'.response.closed = FALSE /\ Shown'.thinking = Shown.thinking
        /\ Shown'.plan = Shown.plan
        /\ Behind(<<>>, next, <<>>, Shown.plan)'
        /\ phase' = "draining" /\ status' = status /\ jobs' = <<>>
    BY <1>1, <1>2, <1>3, <2>1, FlushIsKept DEF Unclosed
  <2>3. InLoop'
    BY <1>1, <2>2 DEF InLoop, Unclosed
  <2>4. PumpInv'
    BY <1>2, <2>2, <2>3 DEF PumpInv
  <2> QED
    BY <2>2, <2>4 DEF StreamInv
<1>4. ASSUME NEW text \in Thoughts, jobs = <<Job("think", text, FALSE, <<>>)>>,
             text # <<>>, Behind(<<>>, stream.pending, text, Shown.plan)
      PROVE  StreamInv'
  <2>1. Head(jobs) = Job("think", text, FALSE, <<>>) /\ Tail(jobs) = <<>>
    BY <1>4, Queues
  <2>2. /\ TypesInv' /\ FlagsInv' /\ stream'.pending = stream.pending
        /\ Shown'.thinking.closed = FALSE /\ Shown'.response = Shown.response
        /\ Shown'.plan = Shown.plan
        /\ phase' = "draining" /\ status' = status /\ jobs' = <<>>
    BY <1>1, <1>4, <2>1, ThoughtIsKept DEF Unclosed
  <2>3. \A held : held = stream.pending => Behind(<<>>, held, <<>>, Shown.plan)'
    BY <1>1, <1>4, <2>1, ThoughtIsKept DEF Unclosed
  <2>4. InLoop'
    BY <1>1, <2>2, <2>3 DEF InLoop, Unclosed, Behind
  <2>5. PumpInv'
    BY <1>2, <2>2, <2>4 DEF PumpInv
  <2> QED
    BY <2>2, <2>5 DEF StreamInv
<1>5. ASSUME NEW body \in Plans, jobs = <<Job("plan", body, TRUE, <<>>)>>,
             Behind(<<>>, stream.pending, <<>>, body)
      PROVE  StreamInv'
  <2>1. Head(jobs) = Job("plan", body, TRUE, <<>>) /\ Tail(jobs) = <<>>
    BY <1>5, Queues
  <2>2. /\ TypesInv' /\ FlagsInv' /\ InLoop'
        /\ phase' = "draining" /\ status' = status /\ jobs' = <<>>
    BY <1>1, <1>5, <2>1, PlanIsKept
  <2>3. PumpInv'
    BY <1>2, <2>2 DEF PumpInv
  <2> QED
    BY <2>2, <2>3 DEF StreamInv
<1>6. CASE jobs = <<Tell("working")>> /\ InLoop
  <2>1. Head(jobs) = Tell("working") /\ Tail(jobs) = <<>> /\ "working" \in States
    BY <1>6, Queues DEF States
  <2>2. /\ TypesInv' /\ FlagsInv' /\ stream' = stream /\ kept' = kept /\ heard' = heard
        /\ phase' = "draining" /\ status' = "working" /\ jobs' = <<>>
    BY <2>1, TellKeepsAll
  <2>3. InLoop'
    BY <1>6, <2>2, SameStream
  <2>4. PumpInv'
    BY <2>2, <2>3 DEF PumpInv
  <2> QED
    BY <2>2, <2>4 DEF StreamInv
<1>7. CASE /\ jobs = <<Flush(stream.pending, FALSE, <<>>), Tell("input")>>
           /\ stream.pending # <<>>
           /\ Behind(stream.pending, <<>>, <<>>, Shown.plan)
  <2>1. /\ Head(jobs) = Flush(stream.pending, FALSE, <<>>)
        /\ Tail(jobs) = <<Tell("input")>> /\ Tail(jobs) # <<>>
    BY <1>7, Queues
  <2>2. /\ TypesInv' /\ FlagsInv' /\ stream'.pending = <<>>
        /\ Shown'.response.closed = FALSE /\ Shown'.thinking = Shown.thinking
        /\ Behind(<<>>, <<>>, <<>>, Shown.plan)'
        /\ phase' = "publishing" /\ status' = status /\ jobs' = <<Tell("input")>>
    BY <1>1, <1>2, <1>7, <2>1, FlushIsKept, EmptyPieces DEF Unclosed
  <2>3. InLoop' /\ Unclosed'
    BY <1>1, <2>2 DEF InLoop, Unclosed, Behind
  <2>4. Publishing'
    BY <2>2, <2>3 DEF Publishing
  <2>5. PumpInv'
    BY <1>2, <2>2, <2>4 DEF PumpInv
  <2> QED
    BY <2>2, <2>5 DEF StreamInv
<1>8. CASE jobs = <<Tell("input")>> /\ stream.pending = <<>> /\ InLoop
  <2>1. Head(jobs) = Tell("input") /\ Tail(jobs) = <<>> /\ "input" \in States
    BY <1>8, Queues DEF States
  <2>2. /\ TypesInv' /\ FlagsInv' /\ stream' = stream /\ kept' = kept /\ heard' = heard
        /\ phase' = "paused" /\ status' = "input" /\ jobs' = <<>>
    BY <2>1, TellKeepsAll
  <2>3. InLoop'
    BY <1>8, <2>2, SameStream
  <2>4. PumpInv'
    BY <1>8, <2>2, <2>3 DEF PumpInv
  <2> QED
    BY <2>2, <2>4 DEF StreamInv
<1> QED
  BY <1>1, <1>3, <1>4, <1>5, <1>6, <1>7, <1>8 DEF Publishing

\* Past the loop.
LEMMA FinishingKeepsStream ==
  ASSUME StreamInv, Publish, phase = "finishing"
  PROVE  StreamInv'
<1>1. Finishing
  BY DEF StreamInv, PumpInv
<1>2. /\ status # "completed" /\ stream.pending \in Pieces /\ stream.pending \in Texts
      /\ stream.sentFirst \in BOOLEAN /\ stream.sentThought \in BOOLEAN
      /\ stream.number \in Streams
  BY PublishDoes DEF StreamInv, TypesInv, Pieces
<1>3. CASE jobs = <<Tell("failed")>>
  <2>1. Head(jobs) = Tell("failed") /\ Tail(jobs) = <<>> /\ "failed" \in States
    BY <1>3, Queues DEF States
  <2>2. /\ TypesInv' /\ FlagsInv' /\ phase' = "over" /\ status' = "failed" /\ jobs' = <<>>
    BY <2>1, TellKeepsAll
  <2>3. PumpInv'
    BY <2>2 DEF PumpInv
  <2> QED
    BY <2>2, <2>3 DEF StreamInv
<1>4. CASE /\ jobs = <<EndThought, LastFlush, Tell("completed")>>
           /\ Unclosed /\ stream.sentThought
           /\ stream.pending # <<>> \/ stream.sentFirst
           /\ Behind(stream.pending, <<>>, <<>>, Shown.plan)
  <2>1. /\ Head(jobs) = Job("think", <<>>, TRUE, <<>>)
        /\ Tail(jobs) = <<LastFlush, Tell("completed")>>
    BY <1>4, Queues DEF EndThought
  <2>2. /\ TypesInv' /\ FlagsInv' /\ stream'.pending = stream.pending
        /\ stream'.sentThought /\ stream'.sentFirst = stream.sentFirst
        /\ Shown'.thinking.closed = TRUE /\ Shown'.response = Shown.response
        /\ phase' = "finishing" /\ status' = status
        /\ jobs' = <<LastFlush, Tell("completed")>>
    BY <1>4, <2>1, ThoughtIsKept, EmptyPieces DEF Unclosed
  <2>3. \A queued : queued = stream.pending => Behind(queued, <<>>, <<>>, Shown.plan)'
    BY <1>4, <2>1, ThoughtIsKept, EmptyPieces DEF Unclosed
  <2>4. Behind(stream.pending, <<>>, <<>>, Shown.plan)' /\ LastFlush' = LastFlush
    BY <2>2, <2>3 DEF Behind, LastFlush
  <2>5. ThinkingIsWhole'
    BY <2>2 DEF ThinkingIsWhole, StreamInv, TypesInv
  <2>6. Finishing'
    BY <1>4, <2>2, <2>4, <2>5 DEF Finishing, Unclosed
  <2>7. PumpInv'
    BY <1>2, <2>2, <2>6 DEF PumpInv
  <2> QED
    BY <2>2, <2>7 DEF StreamInv
<1>5. CASE /\ jobs = <<EndThought, Tell("completed")>>
           /\ Unclosed /\ stream.sentThought /\ ~stream.sentFirst
           /\ Behind(<<>>, <<>>, <<>>, Shown.plan)
  <2>1. /\ Head(jobs) = Job("think", <<>>, TRUE, <<>>)
        /\ Tail(jobs) = <<Tell("completed")>>
    BY <1>5, Queues DEF EndThought
  <2>2. /\ TypesInv' /\ FlagsInv'
        /\ stream'.sentThought /\ stream'.sentFirst = stream.sentFirst
        /\ Shown'.thinking.closed = TRUE /\ Shown'.response = Shown.response
        /\ Behind(<<>>, <<>>, <<>>, Shown.plan)'
        /\ phase' = "finishing" /\ status' = status
        /\ jobs' = <<Tell("completed")>>
    BY <1>5, <2>1, ThoughtIsKept, EmptyPieces DEF Unclosed
  <2>3. Shown.response.closed = FALSE
    <3>1. Shown.response.closed \in BOOLEAN
      BY PublishDoes DEF KeptPieces, Artifacts
    <3> QED
      BY <1>5, <3>1 DEF Unclosed
  <2>4. ThinkingIsWhole' /\ ResponseIsWhole'
    BY <1>2, <1>5, <2>2, <2>3 DEF ThinkingIsWhole, ResponseIsWhole, StreamInv, TypesInv
  <2>5. Finishing'
    BY <2>2, <2>4 DEF Finishing
  <2>6. PumpInv'
    BY <1>2, <2>2, <2>5 DEF PumpInv
  <2> QED
    BY <2>2, <2>6 DEF StreamInv
<1>6. CASE /\ jobs = <<LastFlush, Tell("completed")>>
           /\ ~Shown.response.closed /\ ThinkingIsWhole
           /\ stream.pending # <<>> \/ stream.sentFirst
           /\ Behind(stream.pending, <<>>, <<>>, Shown.plan)
  <2>1. /\ Head(jobs) = Flush(stream.pending, TRUE, stream.pending)
        /\ Tail(jobs) = <<Tell("completed")>>
    BY <1>6, Queues DEF LastFlush
  <2>2. /\ TypesInv' /\ FlagsInv' /\ stream'.sentFirst
        /\ stream'.sentThought = stream.sentThought
        /\ Shown'.response.closed = TRUE /\ Shown'.thinking = Shown.thinking
        /\ Behind(<<>>, <<>>, <<>>, Shown.plan)'
        /\ phase' = "finishing" /\ status' = status
        /\ jobs' = <<Tell("completed")>>
    BY <1>2, <1>6, <2>1, FlushIsKept
  <2>3. ThinkingIsWhole' /\ ResponseIsWhole'
    BY <1>2, <1>6, <2>2 DEF ThinkingIsWhole, ResponseIsWhole, TypesInv
  <2>4. Finishing'
    BY <2>2, <2>3 DEF Finishing
  <2>5. PumpInv'
    BY <1>2, <2>2, <2>4 DEF PumpInv
  <2> QED
    BY <2>2, <2>5 DEF StreamInv
<1>7. CASE /\ jobs = <<Tell("completed")>>
           /\ ResponseIsWhole /\ ThinkingIsWhole
           /\ Behind(<<>>, <<>>, <<>>, Shown.plan)
  <2>1. Head(jobs) = Tell("completed") /\ Tail(jobs) = <<>> /\ "completed" \in States
    BY <1>7, Queues DEF States
  <2>2. /\ TypesInv' /\ FlagsInv' /\ stream' = stream /\ kept' = kept /\ heard' = heard
        /\ Shown' = Shown /\ phase' = "over" /\ status' = "completed" /\ jobs' = <<>>
        /\ final'.text = stream.chunks /\ final'.metadata = stream.metadata
    BY <2>1, TellKeepsAll
  <2>3. /\ ResponseIsWhole' /\ ThinkingIsWhole'
        /\ Behind(<<>>, <<>>, <<>>, Shown.plan)'
    BY <1>7, <2>2 DEF ResponseIsWhole, ThinkingIsWhole, Behind
  <2>4. PumpInv'
    BY <1>2, <2>2, <2>3 DEF PumpInv
  <2> QED
    BY <2>2, <2>4 DEF StreamInv
<1> QED
  BY <1>1, <1>3, <1>4, <1>5, <1>6, <1>7 DEF Finishing

\* The invariant.
LEMMA StreamIsInductive == StreamInv /\ [Next]_vars => StreamInv'
<1> SUFFICES ASSUME StreamInv, [Next]_vars PROVE StreamInv'
  OBVIOUS
<1>1. ASSUME NEW parts \in Openings, Open(parts) PROVE StreamInv'
  BY <1>1, OpenKeepsStream
<1>2. CASE Begin
  BY <1>2, BeginKeepsStream
<1>3. ASSUME NEW offered \in Offers, NEW text \in Replies, NEW entries \in Entries,
             Answer(offered, text, entries)
      PROVE  StreamInv'
  BY <1>3, AnswerKeepsStream
<1>4. CASE Resume
  BY <1>4, ResumeKeepsStream
<1>5. CASE DrainText
  BY <1>5, DrainTextKeepsStream
<1>6. CASE DrainThought
  BY <1>6, DrainThoughtKeepsStream
<1>7. CASE DrainAside
  BY <1>7, DrainAsideKeepsStream
<1>8. CASE DrainAsk
  BY <1>8, DrainAskKeepsStream
<1>9. CASE DrainResult
  BY <1>9, DrainResultKeepsStream
<1>10. ASSUME NEW body \in Plans, DrainPlan(body) PROVE StreamInv'
  BY <1>10, DrainPlanKeepsStream
<1>11. CASE DrainError
  BY <1>11, DrainErrorKeepsStream
<1>12. CASE DrainEnd
  BY <1>12, DrainEndKeepsStream
<1>13. CASE Publish
  <2>1. phase \in {"publishing", "finishing"}
    BY <1>13 DEF Publish
  <2> QED
    BY <1>13, <2>1, PublishingKeepsStream, FinishingKeepsStream
<1>14. CASE Evict
  BY <1>14, EvictKeepsStream
<1>15. CASE Cancel
  BY <1>15, CancelKeepsStream
<1>16. CASE UNCHANGED vars
  BY <1>16, StutterKeepsStream
<1> QED
  BY <1>1, <1>2, <1>3, <1>4, <1>5, <1>6, <1>7, <1>8, <1>9, <1>10,
     <1>11, <1>12, <1>13, <1>14, <1>15, <1>16 DEF Next

\* It holds of every behaviour.
LEMMA StreamIsInvariant == Spec => []StreamInv
BY InitIsStream, StreamIsInductive, PTL DEF Spec

(***************************************************************************)
(* What the caller is shown.                                               *)
(***************************************************************************)
\* Whatever the agent says and however often it asks, texts and thoughts are what
\* the task's artifacts hold, and the entry of _streams is the pump's stream or
\* none.
THEOREM StreamIsTyped == Spec => []TypeOK
<1>1. StreamInv => TypeOK
  <2> SUFFICES ASSUME StreamInv PROVE TypeOK
    OBVIOUS
  <2>1. \A n \in Streams : /\ kept[n].response.text \in Texts
                           /\ kept[n].thinking.text \in Thoughts
                           /\ kept[n].plan \in Plans \cup {NoPlan}
    BY DEF StreamInv, TypesInv, Artifacts
  <2> QED
    BY <2>1 DEF StreamInv, TypesInv, TypeOK, Pieces
<1> QED
  BY <1>1, StreamIsInvariant, PTL

\* A text is the beginning of what was said, of which two pieces are still to
\* come.
IsBeginning(text, queued, held, said) ==
  /\ text = SubSeq(said, 1, Len(text))
  /\ Len(said) - Len(text) <= 2
  /\ queued = <<>> \/ held = <<>> => Len(said) - Len(text) <= 1
  /\ queued = <<>> /\ held = <<>> => text = said

\* It is one of its concatenation with them.
LEMMA Lags ==
  ASSUME NEW text \in Texts, NEW queued \in Pieces, NEW held \in Pieces,
         NEW said, said = (text \o queued) \o held
  PROVE  IsBeginning(text, queued, held, said)
<1>1. queued \in Texts /\ Len(queued) <= 1 /\ held \in Texts /\ Len(held) <= 1
  BY DEF Pieces
<1>2. /\ text \o queued \in Texts /\ queued \o held \in Texts
      /\ Len(text \o queued) = Len(text) + Len(queued)
      /\ Len(text) \in Nat /\ Len(queued) \in Nat /\ Len(held) \in Nat
      /\ text \o <<>> = text
  BY <1>1, Joined DEF Texts
<1>3. Len(said) = Len(text) + Len(queued) + Len(held)
  BY <1>1, <1>2, Joined DEF Texts
<1>4. said = text \o (queued \o held)
  <2>1. /\ text \in Seq(1..MaxTexts) /\ queued \in Seq(1..MaxTexts)
        /\ held \in Seq(1..MaxTexts)
    BY <1>1 DEF Texts
  <2>2. (text \o queued) \o held = text \o (queued \o held)
    BY <2>1, ConcatAssociative
  <2> QED
    BY <2>2
<1>5. text = SubSeq(said, 1, Len(text))
  BY <1>2, <1>4, BeginsWith DEF Texts
<1>6. <<>> \o <<>> = <<>> /\ Len(<<>>) = 0
  OBVIOUS
<1>7. queued = <<>> /\ held = <<>> => text = said
  BY <1>2, <1>4, <1>6
<1>8. /\ Len(said) - Len(text) <= 2
      /\ queued = <<>> \/ held = <<>> => Len(said) - Len(text) <= 1
  <2>1. /\ queued = <<>> => Len(queued) = 0
        /\ held = <<>> => Len(held) = 0
    BY <1>6
  <2> QED
    BY <1>1, <1>2, <1>3, <2>1
<1> QED
  BY <1>5, <1>7, <1>8 DEF IsBeginning

\* How far behind the caller is, by phase.
LEMMA LagIsBounded ==
  ASSUME StreamInv, ~ReusesLeft, InPump
  PROVE  \E queued \in Pieces : \E held \in Pieces :
           /\ heard.said = (Shown.response.text \o queued) \o held
           /\ phase # "publishing" => queued = <<>> \/ held = <<>>
           /\ phase \in {"paused", "answering"} => queued = <<>> /\ held = <<>>
<1>1. stream.pending \in Pieces /\ <<>> \in Pieces
  BY EmptyPieces DEF StreamInv, TypesInv
<1>2. ASSUME NEW queued, NEW held, NEW thinking, NEW plan,
             Behind(queued, held, thinking, plan)
      PROVE  heard.said = (Shown.response.text \o queued) \o held
  BY <1>2 DEF Behind
<1>3. CASE phase \in {"draining", "paused", "answering"}
  <2>1. Behind(<<>>, stream.pending, <<>>, Shown.plan)
    BY <1>3 DEF StreamInv, PumpInv, InLoop
  <2>2. heard.said = (Shown.response.text \o <<>>) \o stream.pending
    BY <1>2, <2>1
  <2>3. phase \in {"paused", "answering"} => stream.pending = <<>>
    BY DEF StreamInv, PumpInv
  <2> QED
    BY <1>1, <1>3, <2>2, <2>3
<1>4. CASE phase = "publishing"
  <2>1. \/ \E next \in Pieces : Behind(stream.pending, next, <<>>, Shown.plan)
        \/ \E text \in Thoughts : Behind(<<>>, stream.pending, text, Shown.plan)
        \/ \E body \in Plans : Behind(<<>>, stream.pending, <<>>, body)
        \/ Behind(<<>>, stream.pending, <<>>, Shown.plan)
        \/ Behind(stream.pending, <<>>, <<>>, Shown.plan)
    BY <1>4 DEF StreamInv, PumpInv, Publishing, InLoop
  <2>2. \E queued \in Pieces : \E held \in Pieces :
           heard.said = (Shown.response.text \o queued) \o held
    BY <1>1, <1>2, <2>1
  <2> QED
    BY <1>4, <2>2
<1>5. CASE phase = "finishing"
  <2>1. \/ Behind(<<>>, stream.pending, <<>>, Shown.plan)
        \/ Behind(stream.pending, <<>>, <<>>, Shown.plan)
        \/ Behind(<<>>, <<>>, <<>>, Shown.plan)
    BY <1>5 DEF StreamInv, PumpInv, Finishing, InLoop
  <2>2. \E queued \in Pieces : \E held \in Pieces :
           /\ heard.said = (Shown.response.text \o queued) \o held
           /\ queued = <<>> \/ held = <<>>
    BY <1>1, <1>2, <2>1
  <2> QED
    BY <1>5, <2>2
<1> QED
  BY <1>3, <1>4, <1>5 DEF InPump

\* Where no run starts over a stream that an evicted one left: whatever the agent
\* says between its thoughts, plans, tools and questions, and however the caller's
\* answers and the evictions fall, the response the caller has is a beginning of
\* it, short by what the stream holds back and publishes, and all of it when the
\* caller is asked (_pump, flush).
THEOREM ShownStaysCurrent ==
  ASSUME ~ReusesLeft
  PROVE  Spec => []ShownIsCurrent
<1>1. StreamInv => ShownIsCurrent
  <2> SUFFICES ASSUME StreamInv, InPump PROVE ShownIsCurrent
    BY DEF ShownIsCurrent
  <2>1. PICK queued \in Pieces, held \in Pieces :
           /\ heard.said = (Shown.response.text \o queued) \o held
           /\ phase # "publishing" => queued = <<>> \/ held = <<>>
           /\ phase \in {"paused", "answering"} => queued = <<>> /\ held = <<>>
    BY LagIsBounded
  <2>2. PICK text, said : text = Shown.response.text /\ said = heard.said
    OBVIOUS
  <2>3. text \in Texts /\ said = (text \o queued) \o held
    BY <2>1, <2>2 DEF StreamInv, TypesInv, FlagsInv, Shown, Artifacts
  <2>4. IsBeginning(text, queued, held, said)
    BY <2>3, Lags
  <2>5. phase \in {"draining", "paused"} => Shown.plan = heard.plan
    BY DEF StreamInv, PumpInv, InLoop, Behind
  <2> QED
    BY <2>1, <2>2, <2>4, <2>5 DEF ShownIsCurrent, IsBeginning
<1> QED
  BY <1>1, StreamIsInvariant, PTL

\* Under the same condition a completed task presents the whole of its run, in its
\* message and in its artifacts, each closed and none without a text (_pump past
\* the loop).
THEOREM CompletedStaysWhole ==
  ASSUME ~ReusesLeft
  PROVE  Spec => []CompletedIsWhole
<1>1. StreamInv => CompletedIsWhole
  <2> SUFFICES ASSUME StreamInv, status = "completed" PROVE CompletedIsWhole
    BY DEF CompletedIsWhole
  <2>1. /\ stream.number \in Streams
        /\ final.text = stream.chunks /\ final.metadata = stream.metadata
        /\ ResponseIsWhole /\ ThinkingIsWhole
        /\ Behind(<<>>, <<>>, <<>>, Shown.plan)
    BY DEF StreamInv, PumpInv
  <2>2. Shown \in KeptPieces
    BY <2>1 DEF StreamInv, TypesInv, Shown, KeptPieces
  <2>3. /\ Shown.response \in [there : BOOLEAN, text : Texts, closed : BOOLEAN]
        /\ Shown.thinking \in [there : BOOLEAN, text : Thoughts, closed : BOOLEAN]
    BY <2>2 DEF KeptPieces, Artifacts
  <2>4. /\ Shown.response.text \in Texts /\ Shown.thinking.text \in Thoughts
        /\ Shown.response.text \o <<>> = Shown.response.text
        /\ Shown.thinking.text \o <<>> = Shown.thinking.text
    BY <2>3, Joined DEF Texts, Thoughts
  <2>5. /\ stream.chunks = Shown.response.text
        /\ heard.said = Shown.response.text
        /\ stream.sentFirst <=> heard.said # <<>>
        /\ heard.thought = Shown.thinking.text
        /\ stream.sentThought <=> heard.thought # <<>>
        /\ heard.plan = Shown.plan /\ stream.metadata = heard.result
    BY <2>1, <2>4 DEF Behind
  <2>6. /\ Shown.response.there = stream.sentFirst
        /\ Shown.thinking.there = stream.sentThought
        /\ stream.sentFirst \in BOOLEAN /\ stream.sentThought \in BOOLEAN
    BY <2>1 DEF StreamInv, FlagsInv, TypesInv
  <2>7. /\ Shown.response.there = (heard.said # <<>>)
        /\ Shown.response.closed = (heard.said # <<>>)
        /\ Shown.thinking.there = (heard.thought # <<>>)
        /\ Shown.thinking.closed = (heard.thought # <<>>)
    BY <2>1, <2>5, <2>6 DEF ResponseIsWhole, ThinkingIsWhole
  <2>8. Shown.response = [there  |-> heard.said # <<>>, text |-> heard.said,
                          closed |-> heard.said # <<>>]
    BY <2>3, <2>5, <2>7
  <2>9. Shown.thinking = [there  |-> heard.thought # <<>>, text |-> heard.thought,
                          closed |-> heard.thought # <<>>]
    BY <2>3, <2>5, <2>7
  <2> QED
    BY <2>1, <2>5, <2>8, <2>9 DEF CompletedIsWhole
<1> QED
  BY <1>1, StreamIsInvariant, PTL

(***************************************************************************)
(* The refinement of Artifact.                                             *)
(***************************************************************************)
\* A chunk that is stored adds to what was there, and takes nothing back.
LEMMA StoredGrows ==
  ASSUME NEW S, NEW artifact \in Artifacts(Seq(S)), NEW piece \in Seq(S),
         NEW last \in BOOLEAN
  PROVE  LET stored == Stored(artifact, piece, artifact.there, last)
         IN  /\ Len(artifact.text) <= Len(stored.text)
             /\ SubSeq(stored.text, 1, Len(artifact.text)) = artifact.text
             /\ ~artifact.closed => stored.closed = last
<1> DEFINE stored == Stored(artifact, piece, artifact.there, last)
<1>1. /\ artifact \in [there : BOOLEAN, text : Seq(S), closed : BOOLEAN]
      /\ artifact.text \in Seq(S) /\ artifact.closed \in BOOLEAN
      /\ ~artifact.there => artifact.text = <<>>
  BY DEF Artifacts
<1>2. CASE artifact.there
  <2>1. stored = [artifact EXCEPT !.text = @ \o piece, !.closed = @ \/ last]
    BY <1>2 DEF Stored
  <2>2. stored.text = artifact.text \o piece /\ (~artifact.closed => stored.closed = last)
    BY <1>1, <2>1
  <2>3. /\ Len(artifact.text \o piece) = Len(artifact.text) + Len(piece)
        /\ Len(artifact.text) \in Nat /\ Len(piece) \in Nat
        /\ SubSeq(artifact.text \o piece, 1, Len(artifact.text)) = artifact.text
    BY <1>1, Joined, BeginsWith
  <2> HIDE DEF stored
  <2>4. /\ Len(artifact.text) <= Len(stored.text)
        /\ SubSeq(stored.text, 1, Len(artifact.text)) = artifact.text
    BY <2>2, <2>3
  <2> QED
    BY <2>2, <2>4 DEF stored
<1>3. CASE ~artifact.there
  <2>1. stored.text = piece /\ stored.closed = last
    BY <1>3 DEF Stored
  <2>2. /\ <<>> \o piece = piece /\ <<>> \in Seq(S) /\ Len(piece) \in Nat
        /\ Len(<<>>) = 0
    BY Joined
  <2>3. SubSeq(piece, 1, Len(<<>>)) = <<>>
    BY <2>2, BeginsWith
  <2>4. artifact.text = <<>>
    BY <1>1, <1>3
  <2> HIDE DEF stored
  <2>5. /\ Len(artifact.text) <= Len(stored.text)
        /\ SubSeq(stored.text, 1, Len(artifact.text)) = artifact.text
    BY <2>1, <2>2, <2>3, <2>4
  <2> QED
    BY <2>1, <2>5 DEF stored
<1> QED
  BY <1>2, <1>3

\* What a job at the head carries; where it goes is still open.
LEMMA HeadIsOpen ==
  ASSUME StreamInv, Publish, NEW job, job = Head(jobs)
  PROVE  /\ job.do = "flush" => /\ job.text \in Texts /\ job.last \in BOOLEAN
                                /\ ~Shown.response.closed
         /\ job.do = "think" => /\ job.text \in Thoughts /\ job.last \in BOOLEAN
                                /\ ~Shown.thinking.closed
<1>1. stream.pending \in Texts /\ <<>> \in Texts /\ <<>> \in Thoughts
  BY EmptyPieces DEF StreamInv, TypesInv, Pieces
<1>2. \A state \in States : Tell(state).do \notin {"flush", "think"}
  BY DEF Tell, Job, States
<1>3. {"working", "input", "completed", "failed"} \subseteq States
  BY DEF States
<1>4. /\ \A a : jobs = <<a>> => job = a
      /\ \A a, b : jobs = <<a, b>> => job = a
      /\ \A a, b, c : jobs = <<a, b, c>> => job = a
  BY Queues
<1>5. CASE phase = "publishing"
  <2>1. Publishing /\ Unclosed
    BY <1>5 DEF StreamInv, PumpInv, Publishing
  <2>2. ASSUME NEW next, jobs = <<Flush(stream.pending, FALSE, next)>>
        PROVE  job = Flush(stream.pending, FALSE, next)
    BY <1>4, <2>2, Zenon
  <2>3. ASSUME NEW text \in Thoughts, jobs = <<Job("think", text, FALSE, <<>>)>>
        PROVE  job = Job("think", text, FALSE, <<>>)
    BY <1>4, <2>3, Zenon
  <2>4. ASSUME NEW body, jobs = <<Job("plan", body, TRUE, <<>>)>>
        PROVE  job = Job("plan", body, TRUE, <<>>)
    BY <1>4, <2>4, Zenon
  <2>5. jobs = <<Flush(stream.pending, FALSE, <<>>), Tell("input")>> =>
          job = Flush(stream.pending, FALSE, <<>>)
    BY <1>4, Zenon
  <2>6. ASSUME NEW state \in States, jobs = <<Tell(state)>> PROVE job = Tell(state)
    BY <1>4, <2>6, Zenon
  <2>7. \/ \E next : job = Flush(stream.pending, FALSE, next)
        \/ \E text \in Thoughts : job = Job("think", text, FALSE, <<>>)
        \/ \E body : job = Job("plan", body, TRUE, <<>>)
        \/ \E state \in States : job = Tell(state)
    BY <1>3, <2>1, <2>2, <2>3, <2>4, <2>5, <2>6, Zenon DEF Publishing
  <2>8. CASE \E next : job = Flush(stream.pending, FALSE, next)
    <3>1. job.do = "flush" /\ job.text = stream.pending /\ job.last = FALSE
      BY <2>8 DEF Flush, Job
    <3> QED
      BY <1>1, <2>1, <3>1 DEF Unclosed
  <2>9. CASE \E text \in Thoughts : job = Job("think", text, FALSE, <<>>)
    <3>1. job.do = "think" /\ job.text \in Thoughts /\ job.last = FALSE
      BY <2>9 DEF Job
    <3> QED
      BY <2>1, <3>1 DEF Unclosed
  <2>10. CASE \E body : job = Job("plan", body, TRUE, <<>>)
    BY <2>10 DEF Job
  <2>11. CASE \E state \in States : job = Tell(state)
    BY <1>2, <2>11
  <2> QED
    BY <2>7, <2>8, <2>9, <2>10, <2>11
<1>6. CASE phase = "finishing"
  <2>1. Finishing
    BY <1>6 DEF StreamInv, PumpInv
  <2>2. CASE jobs = <<Tell("failed")>> \/ jobs = <<Tell("completed")>>
    <3>1. job = Tell("failed") \/ job = Tell("completed")
      BY <1>4, <2>2, Zenon
    <3> QED
      BY <1>2, <1>3, <3>1
  <2>3. CASE /\ \/ jobs = <<EndThought, LastFlush, Tell("completed")>>
                \/ jobs = <<EndThought, Tell("completed")>>
             /\ Unclosed
    <3>1. job = EndThought
      BY <1>4, <2>3, Zenon
    <3>2. job.do = "think" /\ job.text = <<>> /\ job.last = TRUE
      BY <3>1 DEF EndThought, Job
    <3> QED
      BY <1>1, <2>3, <3>2 DEF Unclosed
  <2>4. CASE jobs = <<LastFlush, Tell("completed")>> /\ ~Shown.response.closed
    <3>1. job = LastFlush
      BY <1>4, <2>4, Zenon
    <3>2. job.do = "flush" /\ job.text = stream.pending /\ job.last = TRUE
      BY <3>1 DEF LastFlush, Flush, Job
    <3> QED
      BY <1>1, <2>4, <3>2
  <2> QED
    BY <2>1, <2>2, <2>3, <2>4, Zenon DEF Finishing
<1> QED
  BY <1>5, <1>6, PublishDoes

\* A step of the artifacts of stream n: each is added to, or stays as it is.
ArtifactsStep(n) == /\ Response(n)!Next \/ UNCHANGED kept[n].response
                    /\ Thinking(n)!Next \/ UNCHANGED kept[n].thinking

\* Publishing adds to one artifact at most, and to one that is open.
LEMMA PublishKeepsArtifacts ==
  ASSUME StreamInv, Publish, NEW n \in Streams
  PROVE  ArtifactsStep(n)
<1> PICK job : job = Head(jobs)
  OBVIOUS
<1>1. /\ stream.number \in Streams /\ Shown \in KeptPieces
      /\ kept' = [kept EXCEPT ![stream.number] = KeptAfter(job, Shown)]
  BY PublishDoes
<1>2. kept'[n] = IF n = stream.number THEN KeptAfter(job, Shown) ELSE kept[n]
  BY <1>1 DEF StreamInv, TypesInv
<1>3. CASE n # stream.number \/ job.do \notin {"flush", "think"}
  <2>1. kept'[n].response = kept[n].response /\ kept'[n].thinking = kept[n].thinking
    <3>1. CASE n # stream.number
      BY <1>2, <3>1
    <3>2. CASE n = stream.number /\ job.do \notin {"flush", "think"}
      <4>1. KeptAfter(job, Shown) \in {Shown, [Shown EXCEPT !.plan = job.text]}
        BY <3>2 DEF KeptAfter
      <4> QED
        BY <1>1, <1>2, <3>2, <4>1 DEF KeptPieces, Shown
    <3> QED
      BY <1>3, <3>1, <3>2
  <2> QED
    BY <2>1 DEF ArtifactsStep
<1>4. CASE n = stream.number /\ job.do = "flush"
  <2>1. /\ job.text \in Texts /\ job.last \in BOOLEAN /\ ~Shown.response.closed
        /\ Shown.response \in Artifacts(Texts)
        /\ Shown.response.there = stream.sentFirst
    BY <1>1, <1>4, HeadIsOpen DEF KeptPieces, StreamInv, FlagsInv
  <2>2. KeptAfter(job, Shown) = [Shown EXCEPT !.response =
          Stored(@, job.text, stream.sentFirst, job.last)]
    BY <1>4 DEF KeptAfter
  <2>3. /\ kept'[n].response = Stored(Shown.response, job.text,
                                      Shown.response.there, job.last)
        /\ kept'[n].thinking = kept[n].thinking /\ kept[n] = Shown
    BY <1>1, <1>2, <1>4, <2>1, <2>2 DEF KeptPieces, Shown
  <2>4. /\ Len(kept[n].response.text) <= Len(kept'[n].response.text)
        /\ SubSeq(kept'[n].response.text, 1, Len(kept[n].response.text))
             = kept[n].response.text
        /\ kept'[n].response.closed = job.last /\ ~kept[n].response.closed
    BY <2>1, <2>3, StoredGrows DEF Texts
  <2>5. Response(n)!Next
    BY <2>4 DEF Response!Next, Response!Chunk, Response!LastChunk, Response!Grows
  <2> QED
    BY <2>3, <2>5 DEF ArtifactsStep
<1>5. CASE n = stream.number /\ job.do = "think"
  <2>1. /\ job.text \in Thoughts /\ job.last \in BOOLEAN /\ ~Shown.thinking.closed
        /\ Shown.thinking \in Artifacts(Thoughts)
        /\ Shown.thinking.there = stream.sentThought
    BY <1>1, <1>5, HeadIsOpen DEF KeptPieces, StreamInv, FlagsInv
  <2>2. KeptAfter(job, Shown) = [Shown EXCEPT !.thinking =
          Stored(@, job.text, stream.sentThought, job.last)]
    BY <1>5 DEF KeptAfter
  <2>3. /\ kept'[n].thinking = Stored(Shown.thinking, job.text,
                                      Shown.thinking.there, job.last)
        /\ kept'[n].response = kept[n].response /\ kept[n] = Shown
    BY <1>1, <1>2, <1>5, <2>1, <2>2 DEF KeptPieces, Shown
  <2>4. /\ Len(kept[n].thinking.text) <= Len(kept'[n].thinking.text)
        /\ SubSeq(kept'[n].thinking.text, 1, Len(kept[n].thinking.text))
             = kept[n].thinking.text
        /\ kept'[n].thinking.closed = job.last /\ ~kept[n].thinking.closed
    BY <2>1, <2>3, StoredGrows DEF Thoughts
  <2>5. Thinking(n)!Next
    BY <2>4 DEF Thinking!Next, Thinking!Chunk, Thinking!LastChunk, Thinking!Grows
  <2> QED
    BY <2>3, <2>5 DEF ArtifactsStep
<1> QED
  BY <1>3, <1>4, <1>5

\* Every behaviour, those with a stream that was left included: each response and
\* each thinking the caller is given behaves as Artifact says one does, from none
\* to its last chunk; nothing is taken back, and nothing comes after the last.
THEOREM ArtifactsAreKept == Spec => KeepsArtifacts
<1> DEFINE Started == \A n \in Streams : Response(n)!Init /\ Thinking(n)!Init
           Steps   == \A n \in Streams : ArtifactsStep(n)
<1>1. Init => Started
  BY DEF Init, Nil, Absent, Response!Init, Thinking!Init
<1>2. StreamInv /\ [Next]_vars => [Steps]_kept
  <2> SUFFICES ASSUME StreamInv, [Next]_vars, ~(kept' = kept)
               PROVE  \A n \in Streams : ArtifactsStep(n)
    OBVIOUS
  <2>1. Publish
    BY DEF Next, vars, Open, Begin, Answer, Resume, DrainText, DrainThought,
           DrainAside, DrainAsk, DrainResult, DrainPlan, DrainError, DrainEnd,
           Evict, Cancel
  <2> QED
    BY <2>1, PublishKeepsArtifacts
<1>3. KeepsArtifacts <=> Started /\ [][Steps]_kept
  BY DEF KeepsArtifacts, ArtifactsStep
<1> HIDE DEF Started, Steps
<1> QED
  BY <1>1, <1>2, <1>3, StreamIsInvariant, PTL DEF Spec

(***************************************************************************)
(* Loops.                                                                  *)
(***************************************************************************)
\* A set of numbers that has 0 and is closed under the next has them all.
LEMMA Induct ==
  ASSUME NEW T, 0 \in T, \A n \in Nat : n \in T => n + 1 \in T
  PROVE  Nat \subseteq T
<1> SUFFICES ASSUME Nat \ T # {} PROVE FALSE
  OBVIOUS
<1>1. PICK x \in Nat \ T : \A y \in Nat \ T : x <= y
  BY LeastIsIn
<1>2. x # 0 /\ x - 1 \in Nat /\ ~(x <= x - 1) /\ x = (x - 1) + 1
  BY <1>1
<1>3. x - 1 \in T
  BY <1>1, <1>2
<1> QED
  BY <1>1, <1>2, <1>3

\* f: the values of a loop of N turns, from v on; a turn makes a value of V of one.
IsLoop(N, V, v, turn, f) ==
  /\ f \in [0..N -> V] /\ f[0] = v
  /\ \A i \in 1..N : f[i] = turn[<<i, f[i - 1]>>]

LEMMA LoopExists ==
  ASSUME NEW N \in Nat, NEW V, NEW v \in V, NEW turn \in [(1..N) \X V -> V]
  PROVE  \E f : IsLoop(N, V, v, turn, f)
<1> DEFINE Good(n, f) == f[0] = v /\ \A i \in 1..n : f[i] = turn[<<i, f[i - 1]>>]
           T == {n \in Nat : n <= N => \E f \in [0..n -> V] : Good(n, f)}
<1>1. 0 \in T
  <2>1. [i \in 0..0 |-> v] \in [0..0 -> V] /\ Good(0, [i \in 0..0 |-> v])
    OBVIOUS
  <2> QED
    BY <2>1
<1>2. ASSUME NEW n \in Nat, n \in T PROVE n + 1 \in T
  <2> SUFFICES ASSUME n + 1 <= N PROVE \E f \in [0..(n + 1) -> V] : Good(n + 1, f)
    OBVIOUS
  <2>1. PICK f \in [0..n -> V] : Good(n, f)
    BY <1>2
  <2> DEFINE g == [i \in 0..(n + 1) |-> IF i <= n THEN f[i]
                                        ELSE turn[<<n + 1, f[n]>>]]
  <2>2. <<n + 1, f[n]>> \in (1..N) \X V /\ turn[<<n + 1, f[n]>>] \in V
    BY <2>1
  <2>3. g \in [0..(n + 1) -> V]
    BY <2>1, <2>2
  <2>4. \A i \in 0..n : g[i] = f[i]
    OBVIOUS
  <2>5. g[n + 1] = turn[<<n + 1, g[n]>>]
    <3>1. n \in 0..n /\ n + 1 \in 0..(n + 1) /\ ~(n + 1 <= n)
      OBVIOUS
    <3>2. g[n] = f[n]
      BY <2>4, <3>1
    <3>3. g[n + 1] = turn[<<n + 1, f[n]>>]
      BY <3>1
    <3> HIDE DEF g
    <3> QED
      BY <3>2, <3>3
  <2>6. ASSUME NEW i \in 1..(n + 1) PROVE g[i] = turn[<<i, g[i - 1]>>]
    <3>1. CASE i <= n
      <4>1. i \in 0..n /\ i - 1 \in 0..n /\ i \in 1..n
        BY <3>1
      <4> HIDE DEF g
      <4> QED
        BY <2>1, <2>4, <4>1
    <3>2. CASE i = n + 1
      <4>1. i - 1 = n
        BY <3>2
      <4> HIDE DEF g
      <4> QED
        BY <2>5, <3>2, <4>1
    <3> QED
      BY <3>1, <3>2
  <2>7. g[0] = v
    BY <2>1, <2>4
  <2> HIDE DEF g
  <2> QED
    BY <2>3, <2>6, <2>7
<1>3. N \in T
  <2> HIDE DEF T
  <2> QED
    BY <1>1, <1>2, Induct
<1> QED
  BY <1>3 DEF IsLoop

\* Two loops that begin alike and go on alike end alike.
GoAlike(N, f, g) == /\ f[0] = g[0]
                    /\ \A i \in 1..N : f[i - 1] = g[i - 1] => f[i] = g[i]

LEMMA LoopsAgree ==
  ASSUME NEW N \in Nat, NEW f, NEW g, GoAlike(N, f, g)
  PROVE  f[N] = g[N]
<1> DEFINE T == {n \in Nat : n <= N => f[n] = g[n]}
<1>1. 0 \in T
  BY DEF GoAlike
<1>2. ASSUME NEW n \in Nat, n \in T PROVE n + 1 \in T
  <2> SUFFICES ASSUME n + 1 <= N PROVE f[n + 1] = g[n + 1]
    OBVIOUS
  <2>1. n + 1 \in 1..N /\ (n + 1) - 1 = n /\ f[n] = g[n]
    BY <1>2
  <2> QED
    BY <2>1 DEF GoAlike
<1>3. Nat \subseteq T
  <2> HIDE DEF T
  <2> QED
    BY <1>1, <1>2, Induct
<1> QED
  BY <1>3

(***************************************************************************)
(* What attachments take of the allowances.                                *)
(***************************************************************************)
Given == [form : {"link", "text", "binary", "dropped"}, size : Nat,
          image : BOOLEAN, truncated : BOOLEAN]

Charge(a, form) == IF a.form = form THEN a.size ELSE 0

\* f: the totals of the beginnings of s.
Sums(s, form, f) ==
  /\ f \in [0..Len(s) -> Nat] /\ f[0] = 0
  /\ \A i \in 1..Len(s) : f[i] = f[i - 1] + Charge(s[i], form)

LEMMA TotalIs ==
  ASSUME NEW s \in Seq(Given), NEW form
  PROVE  \E f : Sums(s, form, f) /\ Total(s, form) = f[Len(s)]
<1> DEFINE N == Len(s)
           body(f, n) == f[n - 1] + IF s[n].form = form THEN s[n].size ELSE 0
           turn == [x \in (1..N) \X Nat |-> x[2] + Charge(s[x[1]], form)]
<1>1. N \in Nat /\ \A i \in 1..N : s[i] \in Given
  BY ElementOfSeq, LenProperties
<1>2. \A i \in 1..N : Charge(s[i], form) \in Nat
  BY <1>1 DEF Charge, Given
<1>3. turn \in [(1..N) \X Nat -> Nat]
  BY <1>2
<1>4. PICK f : IsLoop(N, Nat, 0, turn, f)
  <2> HIDE DEF turn, N
  <2> QED
    BY <1>1, <1>3, LoopExists
<1>5. ASSUME NEW i \in 1..N PROVE f[i] = f[i - 1] + Charge(s[i], form)
  <2>1. i - 1 \in 0..N /\ f[i - 1] \in Nat
    BY <1>1, <1>4 DEF IsLoop
  <2>2. <<i, f[i - 1]>> \in (1..N) \X Nat
    BY <2>1
  <2> QED
    BY <1>4, <2>2 DEF IsLoop
<1>6. Sums(s, form, f)
  BY <1>4, <1>5 DEF Sums, IsLoop
<1> DEFINE h == CHOOSE h : h = [n \in 0..N |-> IF n = 0 THEN 0 ELSE body(h, n)]
<1>7. f = [n \in 0..N |-> IF n = 0 THEN 0 ELSE body(f, n)]
  <2>1. ASSUME NEW n \in 0..N PROVE f[n] = IF n = 0 THEN 0 ELSE body(f, n)
    <3>1. n = 0 \/ n \in 1..N
      BY <1>1
    <3> QED
      BY <1>4, <1>5, <3>1 DEF Charge, IsLoop
  <2>2. f \in [0..N -> Nat]
    BY <1>4 DEF IsLoop
  <2> QED
    BY <2>1, <2>2
<1>8. h = [n \in 0..N |-> IF n = 0 THEN 0 ELSE body(h, n)]
  BY <1>7
<1>9. Total(s, form) = h[N]
  BY DEF Total
<1> HIDE DEF h
<1>10. h[0] = 0 /\ \A i \in 1..N : h[i] = h[i - 1] + Charge(s[i], form)
  BY <1>1, <1>8 DEF Charge
<1>11. f[N] = h[N]
  <2>1. GoAlike(N, f, h)
    BY <1>4, <1>5, <1>10 DEF GoAlike, IsLoop
  <2> HIDE DEF N
  <2> QED
    BY <1>1, <2>1, LoopsAgree
<1> QED
  BY <1>6, <1>9, <1>11

LEMMA TotalOfNone == ASSUME NEW form PROVE Total(<<>>, form) = 0
<1>1. <<>> \in Seq(Given) /\ Len(<<>>) = 0
  BY EmptySeq
<1> QED
  BY <1>1, TotalIs DEF Sums

LEMMA TotalIsNat == ASSUME NEW s \in Seq(Given), NEW form PROVE Total(s, form) \in Nat
<1>1. Len(s) \in Nat
  BY LenProperties
<1> QED
  BY <1>1, TotalIs DEF Sums

LEMMA TotalOfMore ==
  ASSUME NEW s \in Seq(Given), NEW a \in Given, NEW form
  PROVE  Total(Append(s, a), form) = Total(s, form) + Charge(a, form)
<1> DEFINE t == Append(s, a)
<1>1. /\ Len(s) \in Nat /\ t \in Seq(Given) /\ Len(t) = Len(s) + 1
      /\ t[Len(s) + 1] = a /\ \A i \in 1..Len(s) : t[i] = s[i]
  BY AppendProperties, LenProperties
<1> HIDE DEF t
<1>2. PICK f : Sums(s, form, f) /\ Total(s, form) = f[Len(s)]
  BY TotalIs
<1>3. PICK g : Sums(t, form, g) /\ Total(t, form) = g[Len(t)]
  BY <1>1, TotalIs
<1>4. GoAlike(Len(s), f, g)
  BY <1>1, <1>2, <1>3 DEF Sums, GoAlike
<1>5. f[Len(s)] = g[Len(s)]
  BY <1>1, <1>4, LoopsAgree
<1>6. g[Len(s) + 1] = g[Len(s)] + Charge(a, form)
  BY <1>1, <1>3 DEF Sums
<1> QED
  BY <1>1, <1>2, <1>3, <1>5, <1>6 DEF t

(***************************************************************************)
(* One attachment.                                                         *)
(***************************************************************************)
\* What a message brings, before the allowances are looked at.
Whole == {a \in Given : a.form # "dropped" /\ ~a.truncated}

Lefts == [text : Nat, binary : Nat]

LEMMA ReceivedIsWhole ==
  ASSUME NEW part \in AnyPart, IsAttached(part)
  PROVE  Received(part) \in Whole
<1>1. CASE part.kind = "url"
  BY <1>1 DEF AnyPart, Received, Attachment, Whole, Given
<1>2. CASE part.kind = "data"
  BY <1>2 DEF AnyPart, Received, Attachment, Whole, Given
<1>3. CASE part.kind = "raw"
  BY <1>3 DEF AnyPart, Received, Attachment, Whole, Given
<1> QED
  BY <1>1, <1>2, <1>3 DEF IsAttached

\* What is left is what the attachments so far did not take.
IsAccounted(left, before) ==
  /\ before \in Seq(Given)
  /\ Total(before, "text") <= MaxTextTotal
  /\ Total(before, "binary") <= MaxBinaryTotal
  /\ left = [text   |-> MaxTextTotal - Total(before, "text"),
             binary |-> MaxBinaryTotal - Total(before, "binary")]

\* The size from which on it is cut or dropped.
Cap(left, a) == IF a.form = "text" THEN Lesser(left.text, MaxTextAttached)
                ELSE Lesser(left.binary, MaxBinaryAttached)

\* The outcomes: a link, text, and bytes that are too many or are not.
IsFit(left, a, cut, fitted) ==
  \/ /\ a.form = "link"
     /\ fitted.left = left /\ fitted.kept = a
  \/ /\ a.form = "text"
     /\ fitted.left = [left EXCEPT !.text = @ - Lesser(a.size, Cap(left, a))]
     /\ fitted.kept = [form |-> "text", size |-> Lesser(a.size, Cap(left, a)),
                       image |-> a.image, truncated |-> cut]
  \/ /\ a.form = "binary" /\ cut
     /\ fitted.left = left
     /\ fitted.kept = [form |-> "dropped", size |-> 0, image |-> a.image,
                       truncated |-> TRUE]
  \/ /\ a.form = "binary" /\ ~cut
     /\ fitted.left = [left EXCEPT !.binary = @ - a.size]
     /\ fitted.kept = a

LEMMA FitIs ==
  ASSUME NEW left \in Lefts, NEW a \in Whole,
         NEW cut \in BOOLEAN, cut <=> a.size > Cap(left, a)
  PROVE  IsFit(left, a, cut, Fit(left, a))
<1>6. cut = (a.size > Cap(left, a))
  OBVIOUS
<1>1. /\ a.form \in {"link", "text", "binary"}
      /\ a = [form |-> a.form, size |-> a.size, image |-> a.image,
              truncated |-> a.truncated]
  BY DEF Whole, Given
<1>2. CASE a.form = "link"
  BY <1>2 DEF Fit, Cap, IsFit
<1>3. CASE a.form = "text"
  <2>1. /\ Fit(left, a).left = [left EXCEPT !.text = @ - Lesser(a.size, Cap(left, a))]
        /\ Fit(left, a).kept = [a EXCEPT !.size = Lesser(a.size, Cap(left, a)),
                                         !.truncated = cut]
    BY <1>3, <1>6 DEF Fit, Cap
  <2> QED
    BY <1>1, <1>3, <2>1 DEF IsFit
<1>4. CASE a.form = "binary" /\ cut
  <2>1. /\ Fit(left, a).left = left
        /\ Fit(left, a).kept = [a EXCEPT !.form = "dropped", !.size = 0,
                                         !.truncated = TRUE]
    BY <1>4 DEF Fit, Cap
  <2> QED
    BY <1>1, <1>4, <2>1 DEF IsFit
<1>5. CASE a.form = "binary" /\ ~cut
  BY <1>5 DEF Fit, Cap, IsFit
<1> QED
  BY <1>1, <1>2, <1>3, <1>4, <1>5

\* It takes no more than there is, and what it keeps is what it takes.
LEMMA FitTakes ==
  ASSUME NEW left \in Lefts, NEW a \in Whole, NEW given, given = Fit(left, a).kept
  PROVE  /\ given \in Given
         /\ Charge(given, "text") \in 0..left.text
         /\ Charge(given, "binary") \in 0..left.binary
         /\ Fit(left, a).left = [text   |-> left.text - Charge(given, "text"),
                                 binary |-> left.binary - Charge(given, "binary")]
<1> PICK cap : cap = Cap(left, a)
  OBVIOUS
<1> PICK cut \in BOOLEAN : cut <=> a.size > cap
  OBVIOUS
<1>0. IsFit(left, a, cut, Fit(left, a))
  BY FitIs
<1>1. /\ left \in Lefts /\ left.text \in Nat /\ left.binary \in Nat
      /\ left = [text |-> left.text, binary |-> left.binary]
      /\ left = [text |-> left.text - 0, binary |-> left.binary - 0]
  BY DEF Lefts
<1>2. a \in Given /\ a.size \in Nat /\ a.image \in BOOLEAN /\ a.truncated = FALSE
  BY DEF Whole, Given
<1>3. CASE a.form = "link"
  <2>1. Fit(left, a).left = left /\ given = a
    BY <1>0, <1>3 DEF IsFit
  <2>2. Charge(given, "text") = 0 /\ Charge(given, "binary") = 0
    BY <1>3, <2>1 DEF Charge
  <2> QED
    BY <1>1, <1>2, <2>1, <2>2
<1>4. CASE a.form = "text"
  <2>1. /\ Fit(left, a).left = [left EXCEPT !.text = @ - Lesser(a.size, cap)]
        /\ given = [form |-> "text", size |-> Lesser(a.size, cap),
                     image |-> a.image, truncated |-> cut]
    BY <1>0, <1>4 DEF IsFit
  <2>2. cap \in Nat /\ cap <= left.text /\ Lesser(a.size, cap) \in 0..left.text
    BY <1>1, <1>2, <1>4, AllowanceAssumption DEF Lesser, Cap
  <2>3. /\ given \in Given
        /\ Charge(given, "text") = Lesser(a.size, cap) /\ Charge(given, "binary") = 0
    BY <1>2, <1>4, <2>1, <2>2 DEF Given, Charge
  <2> QED
    BY <1>1, <2>1, <2>2, <2>3
<1>5. CASE a.form = "binary" /\ cut
  <2>1. /\ Fit(left, a).left = left
        /\ given = [form |-> "dropped", size |-> 0, image |-> a.image,
                   truncated |-> TRUE]
    BY <1>0, <1>5 DEF IsFit
  <2>2. /\ given \in Given
        /\ Charge(given, "text") = 0 /\ Charge(given, "binary") = 0
    BY <1>2, <2>1 DEF Given, Charge
  <2> QED
    BY <1>1, <2>1, <2>2
<1>6. CASE a.form = "binary" /\ ~cut
  <2>1. Fit(left, a).left = [left EXCEPT !.binary = @ - a.size] /\ given = a
    BY <1>0, <1>6 DEF IsFit
  <2>2. cap \in Nat /\ cap <= left.binary /\ a.size \in 0..left.binary
    BY <1>1, <1>2, <1>6, AllowanceAssumption DEF Lesser, Cap
  <2>3. Charge(given, "text") = 0 /\ Charge(given, "binary") = a.size
    BY <1>6, <2>1 DEF Charge
  <2> QED
    BY <1>1, <1>2, <2>1, <2>2, <2>3
<1> QED
  BY <1>0, <1>3, <1>4, <1>5, <1>6 DEF IsFit

\* What is kept of it is fair to what came before.
LEMMA FitIsFair ==
  ASSUME NEW left \in Lefts, NEW a \in Whole, NEW before, IsAccounted(left, before)
  PROVE  IsFair(a, Fit(left, a).kept, before)
<1> PICK given : given = Fit(left, a).kept
  OBVIOUS
<1> PICK room : room = Room(a, before)
  OBVIOUS
<1>1. /\ left.text = MaxTextTotal - Total(before, "text")
      /\ left.binary = MaxBinaryTotal - Total(before, "binary")
      /\ left.text \in Nat /\ left.binary \in Nat
  BY DEF IsAccounted, Lefts
<1>2. a.size \in Nat /\ a.truncated = FALSE
  BY DEF Whole, Given
<1>3. room = Cap(left, a) /\ room \in Nat
  BY <1>1, AllowanceAssumption DEF Room, Cap, Lesser
<1> PICK cut \in BOOLEAN : cut <=> a.size > room
  OBVIOUS
<1>0. /\ IsFit(left, a, cut, Fit(left, a))
      /\ cut <=> ~(a.size <= room)
  BY <1>2, <1>3, FitIs
<1> DEFINE shown == Form(given, TRUE)
           whole == {"whole text", "image", "address", "size only"}
<1>4. CASE a.form = "link"
  <2>1. given = a
    BY <1>0, <1>4 DEF IsFit
  <2>2. shown = "address"
    BY <1>4, <2>1 DEF Form
  <2> QED
    BY <1>2, <1>4, <2>1, <2>2 DEF IsFair
<1>5. CASE a.form = "text"
  <2>1. given = [form |-> "text", size |-> Lesser(a.size, room),
                 image |-> a.image, truncated |-> cut]
    BY <1>0, <1>3, <1>5 DEF IsFit
  <2>2. /\ given.form = "text" /\ given.truncated = cut
        /\ given.size = Lesser(a.size, room)
    BY <1>5, <2>1 DEF Whole, Given
  <2>3. shown = IF given.truncated THEN "excerpt" ELSE "whole text"
    BY <2>2 DEF Form
  <2>4. shown \in whole <=> a.size <= room
    BY <1>0, <2>2, <2>3
  <2>5. ~given.truncated => given = a
    <3>1. ~cut => Lesser(a.size, room) = a.size
      BY <1>2, <1>3 DEF Lesser
    <3>2. a = [form |-> "text", size |-> a.size, image |-> a.image,
               truncated |-> FALSE]
      BY <1>2, <1>5 DEF Whole, Given
    <3> QED
      BY <2>1, <2>2, <3>1, <3>2
  <2> HIDE DEF shown
  <2> QED
    BY <1>5, <2>4, <2>5 DEF IsFair, shown
<1>6. CASE a.form = "binary" /\ cut
  <2>1. given = [form |-> "dropped", size |-> 0, image |-> a.image,
                   truncated |-> TRUE]
    BY <1>0, <1>3, <1>6 DEF IsFit
  <2>2. given.form = "dropped" /\ given.truncated = TRUE /\ given.size = 0
    BY <2>1 DEF Whole, Given
  <2>3. shown = "too large"
    BY <2>2 DEF Form
  <2>4. ~(a.size <= room)
    BY <1>0, <1>6
  <2> QED
    BY <1>6, <2>2, <2>3, <2>4 DEF IsFair
<1>7. CASE a.form = "binary" /\ ~cut
  <2>1. given = a
    BY <1>0, <1>3, <1>7 DEF IsFit
  <2>2. shown \in {"image", "size only"}
    BY <1>7, <2>1 DEF Form
  <2>3. a.size <= room
    BY <1>0, <1>7
  <2> QED
    BY <1>7, <2>1, <2>2, <2>3 DEF IsFair
<1>8. a.form \in {"link", "text", "binary"}
  BY DEF Whole, Given
<1> QED
  BY <1>4, <1>5, <1>6, <1>7, <1>8

\* The account goes on.
LEMMA FitIsAccounted ==
  ASSUME NEW left \in Lefts, NEW a \in Whole, NEW before, IsAccounted(left, before)
  PROVE  /\ Fit(left, a).left \in Lefts
         /\ IsAccounted(Fit(left, a).left, Append(before, Fit(left, a).kept))
<1> PICK given : given = Fit(left, a).kept
  OBVIOUS
<1>1. /\ given \in Given
      /\ Charge(given, "text") \in 0..left.text
      /\ Charge(given, "binary") \in 0..left.binary
      /\ Fit(left, a).left = [text   |-> left.text - Charge(given, "text"),
                              binary |-> left.binary - Charge(given, "binary")]
  BY FitTakes
<1>2. /\ before \in Seq(Given)
      /\ left.text = MaxTextTotal - Total(before, "text")
      /\ left.binary = MaxBinaryTotal - Total(before, "binary")
      /\ left.text \in Nat /\ left.binary \in Nat
  BY DEF IsAccounted, Lefts
<1> PICK t, b : t = Total(before, "text") /\ b = Total(before, "binary")
  OBVIOUS
<1> PICK m, n : m = Charge(given, "text") /\ n = Charge(given, "binary")
  OBVIOUS
<1>3. /\ Append(before, given) \in Seq(Given)
      /\ Total(Append(before, given), "text") = t + m
      /\ Total(Append(before, given), "binary") = b + n
      /\ t \in Nat /\ b \in Nat
  BY <1>1, <1>2, TotalOfMore, TotalIsNat, AppendProperties
<1>4. /\ MaxTextTotal - (t + m) = left.text - m
      /\ t + m <= MaxTextTotal /\ left.text - m \in Nat
  <2> PICK l : l = left.text
    OBVIOUS
  <2>1. /\ l \in Nat /\ l = MaxTextTotal - t /\ m \in 0..l
        /\ t \in Nat /\ MaxTextTotal \in Nat
    BY <1>1, <1>2, <1>3, AllowanceAssumption
  <2>2. MaxTextTotal - (t + m) = l - m /\ t + m <= MaxTextTotal /\ l - m \in Nat
    BY <2>1
  <2> QED
    BY <2>2
<1>5. /\ MaxBinaryTotal - (b + n) = left.binary - n
      /\ b + n <= MaxBinaryTotal /\ left.binary - n \in Nat
  <2> PICK l : l = left.binary
    OBVIOUS
  <2>1. /\ l \in Nat /\ l = MaxBinaryTotal - b /\ n \in 0..l
        /\ b \in Nat /\ MaxBinaryTotal \in Nat
    BY <1>1, <1>2, <1>3, AllowanceAssumption
  <2>2. MaxBinaryTotal - (b + n) = l - n /\ b + n <= MaxBinaryTotal /\ l - n \in Nat
    BY <2>1
  <2> QED
    BY <2>2
<1> QED
  BY <1>1, <1>3, <1>4, <1>5 DEF IsAccounted, Lefts

(***************************************************************************)
(* The message.                                                            *)
(***************************************************************************)
LEMMA PlacesAreFinite ==
  ASSUME NEW parts, NEW n \in Nat
  PROVE  /\ IsFiniteSet(Places(parts, n))
         /\ Cardinality(Places(parts, n)) \in Nat
<1>1. IsFiniteSet(1..n) /\ Places(parts, n) \in SUBSET (1..n)
  BY FS_Interval DEF Places
<1> QED
  BY <1>1, FS_Subset, FS_CardinalityType

\* An attachment's place among the attachments is one of theirs.
LEMMA PlaceIsThere ==
  ASSUME NEW parts, NEW n \in Nat, NEW i \in Places(parts, n)
  PROVE  Cardinality(Places(parts, i)) \in 1..Cardinality(Places(parts, n))
<1>1. /\ i \in Nat /\ i \in Places(parts, i)
      /\ Places(parts, i) \in SUBSET Places(parts, n)
  BY DEF Places
<1>2. Cardinality(Places(parts, i)) # 0
  BY <1>1, PlacesAreFinite, FS_EmptySet
<1>3. Cardinality(Places(parts, i)) <= Cardinality(Places(parts, n))
  BY <1>1, PlacesAreFinite, FS_Subset
<1> QED
  BY <1>1, <1>2, <1>3, PlacesAreFinite

LEMMA OnePlaceMore ==
  ASSUME NEW parts, NEW n \in Nat
  PROVE  IF IsAttached(parts[n + 1])
           THEN /\ Places(parts, n + 1) = Places(parts, n) \cup {n + 1}
                /\ Cardinality(Places(parts, n + 1))
                     = Cardinality(Places(parts, n)) + 1
         ELSE Places(parts, n + 1) = Places(parts, n)
<1>1. n + 1 \notin Places(parts, n) /\ IsFiniteSet(Places(parts, n))
  BY PlacesAreFinite DEF Places
<1>2. 1..(n + 1) = (1..n) \cup {n + 1}
  OBVIOUS
<1>3. CASE IsAttached(parts[n + 1])
  <2>1. Places(parts, n + 1) = Places(parts, n) \cup {n + 1}
    BY <1>2, <1>3 DEF Places
  <2> QED
    BY <1>1, <1>3, <2>1, FS_AddElement
<1>4. CASE ~IsAttached(parts[n + 1])
  <2>1. Places(parts, n + 1) = Places(parts, n)
    BY <1>2, <1>4 DEF Places
  <2> QED
    BY <1>4, <2>1
<1> QED
  BY <1>3, <1>4

\* What is added to a sequence leaves its beginnings as they are.
LEMMA BeginningStays ==
  ASSUME NEW S, NEW s \in Seq(S), NEW a \in S, NEW k \in 0..Len(s)
  PROVE  SubSeq(Append(s, a), 1, k) = SubSeq(s, 1, k)
<1>1. /\ Len(s) \in Nat /\ \A i \in 1..Len(s) : s[i] \in S
      /\ \A i \in 1..Len(s) : Append(s, a)[i] = s[i]
  BY AppendProperties, LenProperties, ElementOfSeq
<1>2. k \in Int /\ 1..k \subseteq 1..Len(s)
  BY <1>1
<1>3. /\ SubSeq(s, 1, k) \in Seq(S)
      /\ Len(SubSeq(s, 1, k)) = (IF 1 <= k THEN k - 1 + 1 ELSE 0)
      /\ \A i \in 1..(k - 1 + 1) : SubSeq(s, 1, k)[i] = s[1 + i - 1]
  BY <1>1, <1>2, SubSeqProperties
<1>4. /\ SubSeq(Append(s, a), 1, k) \in Seq(S)
      /\ Len(SubSeq(Append(s, a), 1, k)) = (IF 1 <= k THEN k - 1 + 1 ELSE 0)
      /\ \A i \in 1..(k - 1 + 1) :
           SubSeq(Append(s, a), 1, k)[i] = Append(s, a)[1 + i - 1]
  BY <1>1, <1>2, SubSeqProperties
<1>5. \A i \in 1..Len(SubSeq(s, 1, k)) :
        SubSeq(Append(s, a), 1, k)[i] = SubSeq(s, 1, k)[i]
  BY <1>1, <1>2, <1>3, <1>4
<1> QED
  BY <1>3, <1>4, <1>5, SeqEqual

\* What the loop of _build_input has.
Buildings == [left : Lefts, texts : Nat, attached : Seq(Given)]

\* One turn of it.
Turned(part, before) ==
  IF IsAttached(part)
    THEN [before EXCEPT !.left = Fit(before.left, Received(part)).left,
                        !.attached = Append(@, Fit(before.left, Received(part)).kept)]
  ELSE IF part.kind = "text" /\ part.size > 0
    THEN [before EXCEPT !.texts = @ + 1]
  ELSE before

AtFirst == [left |-> Allowance, texts |-> 0, attached |-> <<>>]

\* Each of the first n parts that is an attachment has its fair share.
IsFairTo(parts, n, building) ==
  /\ building \in Buildings
  /\ IsAccounted(building.left, building.attached)
  /\ Len(building.attached) = Cardinality(Places(parts, n))
  /\ \A i \in Places(parts, n) :
       LET k == Cardinality(Places(parts, i))
       IN  IsFair(Received(parts[i]), building.attached[k],
                  SubSeq(building.attached, 1, k - 1))

LEMMA TurnedIs ==
  ASSUME NEW part, NEW before \in Buildings
  PROVE  /\ IsAttached(part) =>
              /\ Turned(part, before).left = Fit(before.left, Received(part)).left
              /\ Turned(part, before).attached
                   = Append(before.attached, Fit(before.left, Received(part)).kept)
              /\ Turned(part, before).texts = before.texts
              /\ Turned(part, before)
                   = [left     |-> Turned(part, before).left,
                      texts    |-> Turned(part, before).texts,
                      attached |-> Turned(part, before).attached]
         /\ ~IsAttached(part) =>
              /\ Turned(part, before).left = before.left
              /\ Turned(part, before).attached = before.attached
              /\ Turned(part, before) \in Buildings
<1> PICK fitted : fitted = Fit(before.left, Received(part))
  OBVIOUS
<1>1. /\ before = [left |-> before.left, texts |-> before.texts,
                   attached |-> before.attached]
      /\ before.left \in Lefts /\ before.texts \in Nat
      /\ before.attached \in Seq(Given)
  BY DEF Buildings
<1>2. CASE IsAttached(part)
  <2>1. Turned(part, before) = [left |-> fitted.left, texts |-> before.texts,
                                attached |-> Append(before.attached, fitted.kept)]
    <3>1. Turned(part, before) =
            [before EXCEPT !.left = fitted.left, !.attached = Append(@, fitted.kept)]
      BY <1>2 DEF Turned
    <3> QED
      BY <1>1, <3>1
  <2> QED
    BY <1>2, <2>1
<1>3. CASE ~IsAttached(part)
  <2>1. Turned(part, before) \in {before, [before EXCEPT !.texts = @ + 1]}
    BY <1>3 DEF Turned
  <2>2. [before EXCEPT !.texts = @ + 1] =
          [left |-> before.left, texts |-> before.texts + 1,
           attached |-> before.attached]
    BY <1>1
  <2> QED
    BY <1>1, <1>3, <2>1, <2>2 DEF Buildings
<1> QED
  BY <1>2, <1>3

LEMMA TurnedIsBuilding ==
  ASSUME NEW part \in AnyPart, NEW before \in Buildings
  PROVE  Turned(part, before) \in Buildings
<1>1. CASE IsAttached(part)
  <2> PICK given : given = Fit(before.left, Received(part)).kept
    OBVIOUS
  <2>1. Received(part) \in Whole /\ before.left \in Lefts
    BY <1>1, ReceivedIsWhole DEF Buildings
  <2>2. /\ given \in Given
        /\ Charge(given, "text") \in 0..before.left.text
        /\ Charge(given, "binary") \in 0..before.left.binary
        /\ Fit(before.left, Received(part)).left
             = [text   |-> before.left.text - Charge(given, "text"),
                binary |-> before.left.binary - Charge(given, "binary")]
    BY <2>1, FitTakes
  <2>3. Fit(before.left, Received(part)).left \in Lefts
    BY <2>1, <2>2 DEF Lefts
  <2>4. Append(before.attached, given) \in Seq(Given)
    BY <2>2, AppendProperties DEF Buildings
  <2> PICK after : after = Turned(part, before)
    OBVIOUS
  <2>5. /\ after.left \in Lefts /\ after.attached \in Seq(Given)
        /\ after.texts = before.texts /\ before.texts \in Nat
        /\ after = [left |-> after.left, texts |-> after.texts,
                    attached |-> after.attached]
    BY <1>1, <2>3, <2>4, TurnedIs DEF Buildings
  <2> QED
    BY <2>5 DEF Buildings
<1>2. CASE ~IsAttached(part)
  BY <1>2, TurnedIs
<1> QED
  BY <1>1, <1>2

LEMMA FirstIsFair ==
  ASSUME NEW parts
  PROVE  IsFairTo(parts, 0, AtFirst)
<1>1. <<>> \in Seq(Given) /\ Len(<<>>) = 0
  BY EmptySeq
<1>2. Places(parts, 0) = {} /\ Cardinality({}) = 0
  BY FS_EmptySet DEF Places
<1>3. Allowance \in Lefts
  BY AllowanceAssumption DEF Allowance, Lefts
<1>4. /\ AtFirst \in Buildings /\ AtFirst.attached = <<>>
      /\ AtFirst.left = Allowance
  BY <1>1, <1>3 DEF AtFirst, Buildings
<1>5. IsAccounted(Allowance, <<>>)
  BY <1>1, TotalOfNone, AllowanceAssumption DEF IsAccounted, Allowance
<1> QED
  BY <1>1, <1>2, <1>4, <1>5 DEF IsFairTo

LEMMA TurnIsFair ==
  ASSUME NEW parts \in Seq(AnyPart), NEW n \in Nat, n + 1 <= Len(parts),
         NEW before, IsFairTo(parts, n, before)
  PROVE  IsFairTo(parts, n + 1, Turned(parts[n + 1], before))
<1> PICK part : part = parts[n + 1]
  OBVIOUS
<1> PICK after : after = Turned(part, before)
  OBVIOUS
<1> DEFINE k(i) == Cardinality(Places(parts, i))
           fair(i, attached) ==
             IsFair(Received(parts[i]), attached[k(i)], SubSeq(attached, 1, k(i) - 1))
<1>1. part \in AnyPart
  <2>1. Len(parts) \in Nat
    BY LenProperties
  <2> QED
    BY <2>1, ElementOfSeq
<1>2. /\ before \in Buildings /\ before.left \in Lefts
      /\ before.attached \in Seq(Given)
      /\ IsAccounted(before.left, before.attached)
      /\ Len(before.attached) = k(n)
      /\ \A i \in Places(parts, n) : fair(i, before.attached)
  BY DEF IsFairTo, Buildings
<1>3. after \in Buildings
  BY <1>1, <1>2, TurnedIsBuilding
<1>4. CASE ~IsAttached(part)
  <2>1. after.left = before.left /\ after.attached = before.attached
    BY <1>2, <1>4, TurnedIs
  <2>2. Places(parts, n + 1) = Places(parts, n)
    BY <1>4, OnePlaceMore
  <2> QED
    BY <1>2, <1>3, <2>1, <2>2 DEF IsFairTo
<1>5. CASE IsAttached(part)
  <2> PICK whole : whole = Received(part)
    OBVIOUS
  <2> PICK given : given = Fit(before.left, whole).kept
    OBVIOUS
  <2>1. whole \in Whole
    BY <1>1, <1>5, ReceivedIsWhole
  <2>2. given \in Given
    BY <1>2, <2>1, FitTakes
  <2>3. /\ after.left = Fit(before.left, whole).left
        /\ after.attached = Append(before.attached, given)
    BY <1>2, <1>5, TurnedIs
  <2>4. IsFair(whole, given, before.attached)
    BY <1>2, <2>1, FitIsFair
  <2>5. IsAccounted(after.left, after.attached)
    BY <1>2, <2>1, <2>3, FitIsAccounted
  <2>6. /\ Len(before.attached) \in Nat
        /\ Len(after.attached) = Len(before.attached) + 1
        /\ after.attached[Len(before.attached) + 1] = given
        /\ \A j \in 1..Len(before.attached) : after.attached[j] = before.attached[j]
    BY <1>2, <2>2, <2>3, AppendProperties, LenProperties
  <2>7. \A j \in 0..Len(before.attached) :
          SubSeq(after.attached, 1, j) = SubSeq(before.attached, 1, j)
    BY <1>2, <2>2, <2>3, BeginningStays
  <2>8. /\ Places(parts, n + 1) = Places(parts, n) \cup {n + 1}
        /\ k(n + 1) = k(n) + 1
    BY <1>5, OnePlaceMore
  <2>9. ASSUME NEW i \in Places(parts, n) PROVE fair(i, after.attached)
    <3>1. k(i) \in 1..Len(before.attached)
      BY <1>2, PlaceIsThere
    <3>2. k(i) - 1 \in 0..Len(before.attached)
      BY <2>6, <3>1
    <3>3. /\ after.attached[k(i)] = before.attached[k(i)]
          /\ SubSeq(after.attached, 1, k(i) - 1) = SubSeq(before.attached, 1, k(i) - 1)
      BY <2>6, <2>7, <3>1, <3>2
    <3> QED
      BY <1>2, <3>3
  <2>10. fair(n + 1, after.attached)
    <3>1. /\ k(n + 1) = Len(before.attached) + 1
          /\ k(n + 1) - 1 = Len(before.attached)
      BY <1>2, <2>6, <2>8
    <3>2. SubSeq(before.attached, 1, Len(before.attached)) = before.attached
      BY <1>2, SubSeqFull
    <3>3. SubSeq(after.attached, 1, Len(before.attached)) = before.attached
      BY <2>6, <2>7, <3>2
    <3>4. /\ after.attached[k(n + 1)] = given
          /\ SubSeq(after.attached, 1, k(n + 1) - 1) = before.attached
      BY <2>6, <3>1, <3>3
    <3> QED
      BY <2>4, <3>4
  <2>11. Len(after.attached) = k(n + 1)
    BY <1>2, <2>6, <2>8
  <2> HIDE DEF k
  <2>12. \A i \in Places(parts, n + 1) : fair(i, after.attached)
    BY <2>8, <2>9, <2>10
  <2> QED
    BY <1>3, <2>5, <2>11, <2>12 DEF IsFairTo, k
<1> QED
  BY <1>4, <1>5

\* The loop over all of them.
LEMMA BuiltIsFair ==
  ASSUME NEW parts \in Seq(AnyPart)
  PROVE  IsFairTo(parts, Len(parts), Built(parts))
<1> DEFINE N == Len(parts)
           turn == [x \in (1..N) \X Buildings |-> Turned(parts[x[1]], x[2])]
           whole(f, n) == IF n = 0 THEN AtFirst ELSE Turned(parts[n], f[n - 1])
           h == CHOOSE h : h = [n \in 0..N |-> whole(h, n)]
<1>1. N \in Nat /\ \A i \in 1..N : parts[i] \in AnyPart
  BY ElementOfSeq, LenProperties
<1>2. turn \in [(1..N) \X Buildings -> Buildings]
  BY <1>1, TurnedIsBuilding
<1>3. AtFirst \in Buildings
  BY FirstIsFair DEF IsFairTo
<1>4. PICK f : IsLoop(N, Buildings, AtFirst, turn, f)
  <2> HIDE DEF turn, N
  <2> QED
    BY <1>1, <1>2, <1>3, LoopExists
<1>5. /\ f \in [0..N -> Buildings] /\ f[0] = AtFirst
      /\ \A i \in 1..N : f[i] = Turned(parts[i], f[i - 1])
  <2>1. ASSUME NEW i \in 1..N PROVE f[i] = Turned(parts[i], f[i - 1])
    <3>1. i - 1 \in 0..N
      BY <1>1
    <3>2. <<i, f[i - 1]>> \in (1..N) \X Buildings
      BY <1>4, <3>1 DEF IsLoop
    <3> QED
      BY <1>4, <3>2 DEF IsLoop
  <2> QED
    BY <1>4, <2>1 DEF IsLoop
<1>6. f = [n \in 0..N |-> whole(f, n)]
  <2>1. ASSUME NEW n \in 0..N PROVE f[n] = whole(f, n)
    <3>1. n = 0 \/ n \in 1..N
      BY <1>1
    <3> QED
      BY <1>5, <3>1
  <2> HIDE DEF whole
  <2> QED
    BY <1>5, <2>1
<1>7. h = [n \in 0..N |-> whole(h, n)]
  BY <1>6
<1>8. Built(parts) = h[N]
  BY DEF Built, Turned, AtFirst
<1> HIDE DEF h
<1>9. h[0] = AtFirst /\ \A i \in 1..N : h[i] = Turned(parts[i], h[i - 1])
  BY <1>1, <1>7
<1>10. Built(parts) = f[N]
  <2>1. GoAlike(N, f, h)
    BY <1>5, <1>9 DEF GoAlike
  <2> HIDE DEF N
  <2> QED
    BY <1>1, <1>8, <2>1, LoopsAgree
<1> DEFINE T == {n \in Nat : n <= N => IsFairTo(parts, n, f[n])}
<1>11. 0 \in T
  BY <1>5, FirstIsFair
<1>12. ASSUME NEW n \in Nat, n \in T PROVE n + 1 \in T
  <2> SUFFICES ASSUME n + 1 <= N PROVE IsFairTo(parts, n + 1, f[n + 1])
    OBVIOUS
  <2>1. IsFairTo(parts, n, f[n])
    BY <1>1, <1>12
  <2>2. f[n + 1] = Turned(parts[n + 1], f[n])
    <3>1. n + 1 \in 1..N /\ (n + 1) - 1 = n
      BY <1>1
    <3> QED
      BY <1>5, <3>1
  <2> QED
    BY <2>1, <2>2, TurnIsFair
<1>13. N \in T
  <2> HIDE DEF T
  <2>1. Nat \subseteq T
    BY <1>11, <1>12, Induct
  <2> QED
    BY <1>1, <2>1
<1> QED
  BY <1>10, <1>13

\* A message that opens a run is one of those there are, as _build_input has it.
OpeningInv ==
  opening.read => /\ opening.parts \in Openings
                  /\ opening.built = Built(opening.parts)

\* What the agent gets of any message: of text and of bytes no more than is
\* allowed, every attachment in its place, all of it that there is room for, and
\* whatever is cut or dropped presented as such (_build_input, _Budget.fit,
\* prompt_blocks).
THEOREM BudgetIsAlwaysKept == Spec => []BudgetIsKept
<1>1. Init => OpeningInv
  BY DEF Init, OpeningInv, Nothing
<1>2. OpeningInv /\ [Next]_vars => OpeningInv'
  <2> SUFFICES ASSUME OpeningInv, [Next]_vars PROVE OpeningInv'
    OBVIOUS
  <2>1. ASSUME NEW parts \in Openings, Open(parts) PROVE OpeningInv'
    BY <2>1 DEF Open, OpeningInv
  <2>2. CASE Begin \/ Cancel
    BY <2>2 DEF Begin, Cancel, OpeningInv, Nothing
  <2>3. CASE UNCHANGED opening
    BY <2>3 DEF OpeningInv
  <2>4. CASE \E offered \in Offers : \E text \in Replies : \E entries \in Entries :
               Answer(offered, text, entries)
    BY <2>3, <2>4 DEF Answer
  <2>5. CASE Resume \/ DrainText \/ DrainThought \/ DrainAside \/ DrainAsk
    BY <2>3, <2>5 DEF Resume, DrainText, DrainThought, DrainAside, DrainAsk
  <2>6. CASE DrainResult \/ DrainError \/ DrainEnd \/ Evict
    BY <2>3, <2>6 DEF DrainResult, DrainError, DrainEnd, Evict
  <2>7. CASE \E body \in Plans : DrainPlan(body)
    BY <2>3, <2>7 DEF DrainPlan
  <2>8. CASE Publish
    BY <2>3, <2>8 DEF Publish
  <2>9. CASE UNCHANGED vars
    BY <2>3, <2>9 DEF vars
  <2> QED
    BY <2>1, <2>2, <2>4, <2>5, <2>6, <2>7, <2>8, <2>9 DEF Next
<1>3. OpeningInv => BudgetIsKept
  <2> SUFFICES ASSUME OpeningInv, opening.read PROVE BudgetIsKept
    BY DEF BudgetIsKept
  <2>1. opening.parts \in Seq(AnyPart) /\ opening.built = Built(opening.parts)
    BY OpeningsAssumption DEF OpeningInv
  <2>2. IsFairTo(opening.parts, Len(opening.parts), opening.built)
    BY <2>1, BuiltIsFair
  <2> QED
    BY <2>2 DEF IsFairTo, IsAccounted, BudgetIsKept
<1> QED
  BY <1>1, <1>2, <1>3, PTL DEF Spec
=============================================================================
