---------------------------- MODULE SessionProofs ----------------------------
(***************************************************************************)
(* What holds of a BackendSession whatever the number of requests and      *)
(* outputs of its run: theorems about module Session.                      *)
(***************************************************************************)
EXTENDS Session, SequenceTheorems, TLAPS

(***************************************************************************)
(* Types.                                                                  *)
(***************************************************************************)
LEMMA ItemTypes == /\ Output \in Items /\ Failure \in Items /\ Sentinel \in Items
                   /\ \A r \in Requests : Prompt(r) \in Items
BY DEF Items

LEMMA PutType ==
  ASSUME NEW s \in Sessions, NEW item \in Items
  PROVE  Put(s, item) \in Sessions
<1>1. s.queue \in Seq(Items)
  BY DEF Sessions
<1>2. Append(s.queue, item) \in Seq(Items)
  BY <1>1, AppendProperties
<1> QED
  BY <1>2 DEF Put, Sessions

\* Every operation takes a session to a session.
LEMMA OperationTypes ==
  ASSUME NEW s \in Sessions
  PROVE  /\ RunnerBegins(s) \in Sessions
         /\ SetCanceller(s) \in Sessions
         /\ Emit(s) \in Sessions
         /\ CancelRunner(s) \in Sessions
         /\ RunnerReturns(s) \in Sessions
         /\ RunnerFails(s) \in Sessions
         /\ ClearPending(s) \in Sessions
<1>1. RunnerBegins(s) \in Sessions /\ SetCanceller(s) \in Sessions
  BY DEF RunnerBegins, SetCanceller, Sessions
<1>2. Emit(s) \in Sessions
  BY ItemTypes, PutType DEF Emit
<1>3. CancelRunner(s) \in Sessions
  BY DEF CancelRunner, Sessions
<1>4. RunnerReturns(s) \in Sessions
  <2>1. Put(s, Sentinel) \in Sessions
    BY ItemTypes, PutType
  <2> QED
    BY <2>1 DEF RunnerReturns, Sessions
<1>5. RunnerFails(s) \in Sessions
  <2>1. Put(Put(s, Failure), Sentinel) \in Sessions
    BY ItemTypes, PutType
  <2> QED
    BY <2>1 DEF RunnerFails, Sessions
<1>6. ClearPending(s) \in Sessions
  BY DEF ClearPending, Sessions
<1> QED
  BY <1>1, <1>2, <1>3, <1>4, <1>5, <1>6

\* So do those that name a request.
LEMMA RequestTypes ==
  ASSUME NEW s \in Sessions, NEW r \in Requests
  PROVE  /\ Ask(s, r) \in Sessions
         /\ AskInline(s, r) \in Sessions
         /\ Resolve(s, r) \in Sessions
         /\ Park(s, r) \in Sessions
<1>1. Ask(s, r) \in Sessions
  <2>1. Put(s, Prompt(r)) \in Sessions
    BY ItemTypes, PutType
  <2> QED
    BY <2>1 DEF Ask, Sessions
<1>2. AskInline(s, r) \in Sessions
  BY <1>1 DEF AskInline, Sessions
<1>3. Resolve(s, r) \in Sessions /\ Park(s, r) \in Sessions
  BY DEF Resolve, Park, Sessions
<1> QED
  BY <1>1, <1>2, <1>3

\* So do the steps of close().
LEMMA CloseTypes ==
  ASSUME NEW s \in Sessions
  PROVE  /\ BeginClose(s) \in Sessions
         /\ ContinueClose(s) \in Sessions
         /\ InterruptClose(s) \in Sessions
<1>1. \A t \in Sessions, c \in Closers : [t EXCEPT !.closer = c] \in Sessions
  BY DEF Sessions
<1>2. {"asking", "winding", "joining", "closed", "abandoned"} \subseteq Closers
  BY DEF Closers
<1>3. BeginClose(s) \in Sessions
  <2>1. CASE ~Alive(s)
    BY <2>1, <1>1, <1>2, OperationTypes DEF BeginClose
  <2>2. CASE Alive(s) /\ s.canceller
    BY <2>2, <1>1, <1>2 DEF BeginClose
  <2>3. CASE Alive(s) /\ ~s.canceller
    BY <2>3, <1>1, <1>2, OperationTypes DEF BeginClose
  <2> QED
    BY <2>1, <2>2, <2>3
<1>4. ContinueClose(s) \in Sessions
  BY <1>1, <1>2, OperationTypes DEF ContinueClose
<1>5. InterruptClose(s) \in Sessions
  BY <1>1, <1>2, OperationTypes DEF InterruptClose
<1> QED
  BY <1>3, <1>4, <1>5

\* And what drain does to one with something on its queue.
LEMMA DrainTypes ==
  ASSUME NEW s \in Sessions, s.queue # <<>>
  PROVE  /\ Take(s) \in Sessions
         /\ End(s) \in Sessions
         /\ Head(s.queue) \in Items
<1>1. s.queue \in Seq(Items)
  BY DEF Sessions
<1>2. Tail(s.queue) \in Seq(Items) /\ Head(s.queue) \in Items
  BY <1>1, HeadTailProperties
<1> QED
  BY <1>2 DEF Take, End, Sessions

\* No step leaves the types.
LEMMA TypeStep ==
  ASSUME TypeOK, [Next]_vars
  PROVE  TypeOK'
<1> USE DEF TypeOK, BackendVars, ConsumerVars, CloserVars
<1>0. /\ \A item \in Items : Append(sent, item) \in Seq(Items)
      /\ Append(Append(sent, Failure), Sentinel) \in Seq(Items)
  BY ItemTypes, AppendProperties
<1>1. ASSUME Begin PROVE TypeOK'
  BY <1>1, OperationTypes DEF Begin
<1>2. ASSUME Register PROVE TypeOK'
  BY <1>2, OperationTypes DEF Register
<1>3. ASSUME Speak PROVE TypeOK'
  BY <1>0, <1>3, OperationTypes, ItemTypes DEF Speak
<1>4. ASSUME NEW r \in Requests, AskFromHandler(r) PROVE TypeOK'
  BY <1>0, <1>4, RequestTypes, ItemTypes DEF AskFromHandler
<1>5. ASSUME NEW r \in Requests, AskFromDrive(r) PROVE TypeOK'
  BY <1>0, <1>5, RequestTypes, ItemTypes DEF AskFromDrive
<1>6. ASSUME Return PROVE TypeOK'
  BY <1>0, <1>6, OperationTypes, ItemTypes DEF Return
<1>7. ASSUME Fail PROVE TypeOK'
  BY <1>0, <1>7, OperationTypes DEF Fail
<1>8. ASSUME TakeOutput PROVE TypeOK'
  BY <1>8, DrainTypes DEF TakeOutput
<1>9. ASSUME TakePrompt PROVE TypeOK'
  <2>1. Head(session.queue) \in Items
    BY <1>9, DrainTypes DEF TakePrompt
  <2>2. Head(session.queue).id \in Requests
    BY <1>9, <2>1 DEF TakePrompt, Items, Output, Failure, Sentinel, Prompt
  <2> QED
    BY <1>9, <2>2, DrainTypes DEF TakePrompt, Consumers
<1>10. ASSUME Pause PROVE TypeOK'
  <2>1. CASE surfacing \in Requests
    BY <1>10, <2>1, RequestTypes DEF Pause, Consumers
  <2>2. CASE surfacing = NoRequest
    BY <1>10, <2>2 DEF Pause, Park, Sessions, Consumers
  <2> QED
    BY <2>1, <2>2
<1>11. ASSUME TakeEnd PROVE TypeOK'
  BY <1>11, DrainTypes DEF TakeEnd, Consumers
<1>12. ASSUME Answer PROVE TypeOK'
  <2>1. session.lastRequest \in Requests
    BY <1>12 DEF Answer, IsParked, Sessions
  <2> QED
    BY <1>12, <2>1, RequestTypes DEF Answer, Consumers
<1>13. ASSUME Abort PROVE TypeOK'
  BY <1>13, OperationTypes DEF Abort, Consumers
<1>14. ASSUME Close PROVE TypeOK'
  BY <1>14, CloseTypes DEF Close
<1>15. ASSUME KeepClosing PROVE TypeOK'
  BY <1>15, CloseTypes DEF KeepClosing
<1>16. ASSUME Interrupt PROVE TypeOK'
  BY <1>16, CloseTypes DEF Interrupt
<1>17. CASE UNCHANGED vars
  BY <1>17 DEF vars
<1> QED
  BY <1>1, <1>2, <1>3, <1>4, <1>5, <1>6, <1>7, <1>8, <1>9, <1>10, <1>11,
     <1>12, <1>13, <1>14, <1>15, <1>16, <1>17
  DEF Next, Backend, Consumer, Closer

\* TypeOK holds of every behaviour: no interleaving of backend, consumer and
\* closer takes the session out of the states session.py gives it.
THEOREM TypeCorrect == Spec => []TypeOK
<1>1. Init => TypeOK
  BY DEF Init, TypeOK, NewSession, Sessions, Consumers, Closers
<1> QED
  BY <1>1, TypeStep, PTL DEF Spec

(***************************************************************************)
(* The queue.                                                              *)
(***************************************************************************)
\* What a step may do to the queue and to what was sent and received.
Says(item) == /\ sent' = Append(sent, item)
              /\ session'.queue = Append(session.queue, item)
              /\ received' = received
Takes == /\ session.queue # <<>>
         /\ sent' = sent
         /\ session'.queue = Tail(session.queue)
         /\ received' = received + 1
Rests == /\ sent' = sent
         /\ session'.queue = session.queue
         /\ received' = received
Dies == /\ sent' = Append(Append(sent, Failure), Sentinel)
        /\ session'.queue = Append(Append(session.queue, Failure), Sentinel)
        /\ received' = received

LEMMA StepShapes ==
  ASSUME TypeOK, [Next]_vars
  PROVE  (\E item \in Items : Says(item)) \/ Dies \/ Takes \/ Rests
<1> USE DEF TypeOK, BackendVars, ConsumerVars, CloserVars
<1>0. session \in Sessions
  OBVIOUS
<1>1. CASE Begin \/ Register
  BY <1>0, <1>1 DEF Begin, Register, RunnerBegins, SetCanceller, Rests, Sessions
<1>2. ASSUME Speak PROVE Says(Output)
  BY <1>0, <1>2 DEF Speak, Emit, Put, Says, Sessions
<1>3. ASSUME NEW r \in Requests, AskFromHandler(r) \/ AskFromDrive(r)
      PROVE  Says(Prompt(r))
  BY <1>0, <1>3 DEF AskFromHandler, AskFromDrive, AskInline, Ask, Put, Says, Sessions
<1>4. ASSUME Return PROVE Says(Sentinel)
  BY <1>0, <1>4 DEF Return, RunnerReturns, Put, Says, Sessions
<1>5. ASSUME Fail PROVE Dies
  BY <1>0, <1>5 DEF Fail, RunnerFails, Put, Dies, Sessions
<1>6. CASE TakeOutput \/ TakePrompt \/ TakeEnd
  BY <1>0, <1>6 DEF TakeOutput, TakePrompt, TakeEnd, Take, End, Takes, Sessions
<1>7. CASE Pause \/ Answer \/ Abort
  BY <1>0, <1>7 DEF Pause, Answer, Abort, Park, Resolve, CancelRunner, Rests,
                    Sessions
<1>8. CASE Close \/ KeepClosing \/ Interrupt
  <2>1. BeginClose(session).queue = session.queue
    BY <1>0 DEF BeginClose, CancelRunner, ClearPending, Alive, Sessions
  <2>2. ContinueClose(session).queue = session.queue
    BY <1>0 DEF ContinueClose, CancelRunner, ClearPending, Alive, Sessions
  <2>3. InterruptClose(session).queue = session.queue
    BY <1>0 DEF InterruptClose, CancelRunner, ClearPending, Sessions
  <2> QED
    BY <1>8, <2>1, <2>2, <2>3 DEF Close, KeepClosing, Interrupt, Rests
<1>9. CASE UNCHANGED vars
  BY <1>9 DEF vars, Rests
<1> QED
  BY <1>1, <1>2, <1>3, <1>4, <1>5, <1>6, <1>7, <1>8, <1>9, ItemTypes
  DEF Next, Backend, Consumer, Closer

\* q is what is left of log after its first n items.
RestOf(q, log, n) == /\ n <= Len(log)
                     /\ Len(q) = Len(log) - n
                     /\ \A i \in 1..Len(q) : q[i] = log[n + i]

LEMMA AppendRest ==
  ASSUME NEW S, NEW q \in Seq(S), NEW log \in Seq(S), NEW n \in Nat,
         NEW x \in S, RestOf(q, log, n)
  PROVE  RestOf(Append(q, x), Append(log, x), n)
<1> DEFINE qx == Append(q, x)
           logx == Append(log, x)
<1>1. Len(q) \in Nat /\ Len(log) \in Nat
  BY LenProperties
<1>2. /\ Len(qx) = Len(q) + 1
      /\ \A i \in 1..Len(q) : qx[i] = q[i]
      /\ qx[Len(q) + 1] = x
  BY AppendProperties
<1>3. /\ Len(logx) = Len(log) + 1
      /\ \A i \in 1..Len(log) : logx[i] = log[i]
      /\ logx[Len(log) + 1] = x
  BY AppendProperties
<1> HIDE DEF qx, logx
<1>4. ASSUME NEW i \in 1..Len(qx) PROVE qx[i] = logx[n + i]
  <2>1. CASE i \in 1..Len(q)
    <3>1. n + i \in 1..Len(log)
      BY <1>1, <2>1 DEF RestOf
    <3> QED
      BY <1>2, <1>3, <2>1, <3>1 DEF RestOf
  <2>2. CASE i = Len(q) + 1
    <3>1. n + i = Len(log) + 1
      BY <1>1, <2>2 DEF RestOf
    <3> QED
      BY <1>2, <1>3, <2>2, <3>1
  <2> QED
    BY <1>1, <1>2, <2>1, <2>2
<1>5. n <= Len(logx) /\ Len(qx) = Len(logx) - n
  BY <1>1, <1>2, <1>3 DEF RestOf
<1> QED
  BY <1>4, <1>5 DEF RestOf, qx, logx

LEMMA TailRest ==
  ASSUME NEW S, NEW q \in Seq(S), NEW log \in Seq(S), NEW n \in Nat,
         RestOf(q, log, n), q # <<>>
  PROVE  RestOf(Tail(q), log, n + 1)
<1> DEFINE rest == Tail(q)
<1>1. Len(q) \in Nat \ {0} /\ Len(log) \in Nat
  BY LenProperties, EmptySeq
<1>2. Len(rest) = Len(q) - 1 /\ \A i \in 1..Len(rest) : rest[i] = q[i + 1]
  BY HeadTailProperties
<1> HIDE DEF rest
<1>3. RestOf(rest, log, n + 1)
  BY <1>1, <1>2 DEF RestOf
<1> QED
  BY <1>3 DEF rest

LEMMA QueueStep ==
  ASSUME TypeOK, [Next]_vars, QueueIsRest
  PROVE  QueueIsRest'
<1>1. session.queue \in Seq(Items) /\ sent \in Seq(Items) /\ received \in Nat
  BY DEF TypeOK, Sessions
<1>2. RestOf(session.queue, sent, received)
  BY DEF QueueIsRest, RestOf
<1>3. RestOf(session'.queue, sent', received')
  <2>1. ASSUME NEW item \in Items, Says(item)
        PROVE  RestOf(session'.queue, sent', received')
    BY <1>1, <1>2, <2>1, AppendRest DEF Says
  <2>2. CASE Dies
    <3>1. /\ Append(session.queue, Failure) \in Seq(Items)
          /\ Append(sent, Failure) \in Seq(Items)
      BY <1>1, ItemTypes, AppendProperties
    <3>2. RestOf(Append(session.queue, Failure), Append(sent, Failure), received)
      BY <1>1, <1>2, ItemTypes, AppendRest
    <3> QED
      BY <1>1, <2>2, <3>1, <3>2, ItemTypes, AppendRest DEF Dies
  <2>3. CASE Takes
    BY <1>1, <1>2, <2>3, TailRest DEF Takes
  <2>4. CASE Rests
    BY <1>2, <2>4 DEF Rests
  <2> QED
    BY <2>1, <2>2, <2>3, <2>4, StepShapes
<1> QED
  BY <1>3 DEF QueueIsRest, RestOf

(***************************************************************************)
(* The runner and close().                                                 *)
(***************************************************************************)
LEMMA CleanStep ==
  ASSUME TypeOK, [Next]_vars, CloseIsClean
  PROVE  CloseIsClean'
<1> USE DEF CloseIsClean
<1>1. session \in Sessions
  BY DEF TypeOK
<1>2. CASE Begin \/ Register \/ Speak \/ Return \/ Fail
  <2>1. CASE Begin \/ Register
    BY <1>1, <2>1 DEF Begin, Register, RunnerBegins, SetCanceller, Alive, Sessions
  <2>2. CASE Speak \/ Return
    BY <1>1, <2>2 DEF Speak, Return, Emit, RunnerReturns, Put, Driving, Alive,
                      Sessions
  <2>3. CASE Fail
    BY <1>1, <2>3 DEF Fail, RunnerFails, Put, Driving, Alive, Sessions
  <2> QED
    BY <1>2, <2>1, <2>2, <2>3
<1>3. ASSUME NEW r \in Requests, AskFromHandler(r) \/ AskFromDrive(r)
      PROVE  CloseIsClean'
  BY <1>1, <1>3 DEF AskFromHandler, AskFromDrive, AskInline, Ask, Put, Driving,
                    Alive, Sessions
<1>4. CASE TakeOutput \/ TakePrompt \/ TakeEnd \/ Pause
  BY <1>1, <1>4 DEF TakeOutput, TakePrompt, TakeEnd, Pause, Take, End, Park,
                    Alive, Sessions
<1>5. CASE Answer
  BY <1>1, <1>5 DEF Answer, Resolve, Alive, Sessions
<1>6. CASE Abort
  BY <1>1, <1>6 DEF Abort, CancelRunner, Alive, Sessions
<1>7. CASE Close
  BY <1>1, <1>7 DEF Close, BeginClose, ClearPending, CancelRunner, Alive,
                    Sessions
<1>8. CASE KeepClosing
  BY <1>1, <1>8 DEF KeepClosing, CloseGoesOn, ContinueClose, ClearPending,
                    CancelRunner, Alive, Sessions
<1>9. CASE Interrupt
  BY <1>1, <1>9 DEF Interrupt, InterruptClose, ClearPending, CancelRunner,
                    Alive, Sessions
<1>10. CASE UNCHANGED vars
  BY <1>10 DEF vars, Alive
<1> QED
  BY <1>2, <1>3, <1>4, <1>5, <1>6, <1>7, <1>8, <1>9, <1>10
  DEF Next, Backend, Consumer, Closer

\* A runner that is done stays done.
LEMMA DoneForGood ==
  ASSUME TypeOK, [Next]_vars, CloseIsClean, ~Alive(session)
  PROVE  ~Alive(session') /\ sent' = sent
<1>1. session \in Sessions /\ session.runner = "finished"
      /\ session.own = NoRequest
  BY DEF TypeOK, Alive, CloseIsClean
<1>2. CASE Backend
  BY <1>1, <1>2 DEF Backend, Begin, Register, Speak, Return, Fail,
                    AskFromHandler, AskFromDrive, Driving
<1>3. CASE Consumer
  BY <1>1, <1>3 DEF Consumer, TakeOutput, TakePrompt, TakeEnd, Pause, Answer,
                    Abort, Take, End, Park, Resolve, CancelRunner, Alive,
                    ConsumerVars, Sessions
<1>4. CASE Closer
  BY <1>1, <1>4 DEF Closer, Close, KeepClosing, Interrupt, BeginClose,
                    ContinueClose, InterruptClose, ClearPending, CancelRunner,
                    Alive, CloserVars, Sessions
<1>5. CASE UNCHANGED vars
  BY <1>1, <1>5 DEF vars, Alive
<1> QED
  BY <1>2, <1>3, <1>4, <1>5 DEF Next

\* Which steps add to what was sent, and from which runner.
LEMMA WhoSends ==
  ASSUME TypeOK, [Next]_vars
  PROVE  \/ Rests \/ Takes
         \/ \E item \in Items \ {Failure, Sentinel} : Says(item) /\ Alive(session)
         \/ Says(Sentinel) /\ Alive(session) /\ ~Alive(session')
         \/ Dies /\ Alive(session) /\ ~Alive(session')
<1>1. session \in Sessions
  BY DEF TypeOK
<1>2. Output \in Items \ {Failure, Sentinel}
      /\ \A r \in Requests : Prompt(r) \in Items \ {Failure, Sentinel}
  BY ItemTypes DEF Output, Prompt, Failure, Sentinel
<1>3. ASSUME Speak PROVE Says(Output) /\ Alive(session)
  BY <1>1, <1>3 DEF Speak, Emit, Put, Says, Driving, Alive, BackendVars, Sessions
<1>4. ASSUME NEW r \in Requests, AskFromHandler(r) \/ AskFromDrive(r)
      PROVE  Says(Prompt(r)) /\ Alive(session)
  BY <1>1, <1>4 DEF AskFromHandler, AskFromDrive, AskInline, Ask, Put, Says,
                    Driving, Alive, BackendVars, Sessions
<1>5. ASSUME Return PROVE Says(Sentinel) /\ Alive(session) /\ ~Alive(session')
  BY <1>1, <1>5 DEF Return, RunnerReturns, Put, Says, Driving, Alive,
                    BackendVars, Sessions
<1>6. ASSUME Fail PROVE Dies /\ Alive(session) /\ ~Alive(session')
  BY <1>1, <1>6 DEF Fail, RunnerFails, Put, Dies, Driving, Alive, BackendVars,
                    Sessions
<1>7. CASE Begin \/ Register \/ Consumer \/ Closer \/ UNCHANGED vars
  <2>1. sent' = sent
    BY <1>7 DEF Begin, Register, Consumer, Closer, TakeOutput, TakePrompt,
                TakeEnd, Pause, Answer, Abort, Close, KeepClosing, Interrupt,
                ConsumerVars, CloserVars, vars
  <2>2. \A item \in Items : ~Says(item)
    BY <2>1, AppendProperties DEF Says, TypeOK
  <2>3. ~Dies
    <3>1. Append(sent, Failure) \in Seq(Items)
      BY ItemTypes, AppendProperties DEF TypeOK
    <3>2. Len(Append(Append(sent, Failure), Sentinel)) = Len(sent) + 2
      BY <3>1, ItemTypes, AppendProperties, LenProperties DEF TypeOK
    <3> QED
      BY <2>1, <3>2, LenProperties DEF Dies, TypeOK
  <2> QED
    BY <2>2, <2>3, StepShapes
<1> QED
  BY <1>2, <1>3, <1>4, <1>5, <1>6, <1>7 DEF Next, Backend

(***************************************************************************)
(* The end of a run.                                                       *)
(***************************************************************************)
\* Two items more, for a run that dies of an error.
LEMMA DiesFacts ==
  ASSUME TypeOK, Dies
  PROVE  /\ Len(sent') = Len(sent) + 2
         /\ \A i \in 1..Len(sent) : sent'[i] = sent[i]
         /\ sent'[Len(sent) + 1] = Failure
         /\ sent'[Len(sent) + 2] = Sentinel
<1> DEFINE mid == Append(sent, Failure)
<1>1. /\ mid \in Seq(Items)
      /\ Len(mid) = Len(sent) + 1
      /\ \A i \in 1..Len(sent) : mid[i] = sent[i]
      /\ mid[Len(sent) + 1] = Failure
  BY ItemTypes, AppendProperties DEF TypeOK
<1>2. sent' = Append(mid, Sentinel)
  BY DEF Dies
<1> HIDE DEF mid
<1>3. /\ Len(sent') = Len(mid) + 1
      /\ \A i \in 1..Len(mid) : sent'[i] = mid[i]
      /\ sent'[Len(mid) + 1] = Sentinel
  BY <1>1, <1>2, ItemTypes, AppendProperties
<1>4. Len(sent) \in Nat
  BY LenProperties DEF TypeOK
<1> QED
  BY <1>1, <1>3, <1>4

LEMMA SaysFacts ==
  ASSUME TypeOK, NEW item \in Items, Says(item)
  PROVE  /\ Len(sent') = Len(sent) + 1
         /\ \A i \in 1..Len(sent) : sent'[i] = sent[i]
         /\ sent'[Len(sent) + 1] = item
BY AppendProperties DEF TypeOK, Says

\* What was sent stays as it was sent.
LEMMA SentOnlyGrows ==
  ASSUME TypeOK, [Next]_vars
  PROVE  /\ Len(sent) \in Nat /\ Len(sent') \in Nat
         /\ Len(sent) <= Len(sent')
         /\ \A i \in 1..Len(sent) : sent'[i] = sent[i]
<1>1. Len(sent) \in Nat
  BY LenProperties DEF TypeOK
<1>2. CASE \E item \in Items : Says(item)
  BY <1>1, <1>2, SaysFacts
<1>3. CASE Dies
  BY <1>1, <1>3, DiesFacts
<1>4. CASE Takes \/ Rests
  BY <1>1, <1>4 DEF Takes, Rests
<1> QED
  BY <1>2, <1>3, <1>4, StepShapes

LEMMA EndsStep ==
  ASSUME TypeOK, [Next]_vars, CloseIsClean, EndsAreLast
  PROVE  EndsAreLast'
<1>1. Len(sent) \in Nat
  BY LenProperties DEF TypeOK
<1>2. CASE Rests \/ Takes
  <2>1. sent' = sent
    BY <1>2 DEF Rests, Takes
  <2>2. ~Alive(session) => ~Alive(session')
    BY DoneForGood
  <2>3. ASSUME NEW i \in 1..Len(sent')
        PROVE  /\ sent'[i] = Sentinel => i = Len(sent') /\ ~Alive(session')
               /\ sent'[i] = Failure => /\ i = Len(sent') - 1 /\ ~Alive(session')
                                        /\ sent'[i + 1] = Sentinel
    BY <2>1, <2>2 DEF EndsAreLast
  <2> QED
    BY <2>3 DEF EndsAreLast
<1>3. ASSUME Alive(session)
      PROVE  \A i \in 1..Len(sent) : sent[i] \notin {Failure, Sentinel}
  BY <1>3 DEF EndsAreLast
<1>4. ASSUME NEW item \in Items \ {Failure, Sentinel}, Says(item), Alive(session)
      PROVE  EndsAreLast'
  BY <1>1, <1>3, <1>4, SaysFacts DEF EndsAreLast
<1>5. CASE Says(Sentinel) /\ Alive(session) /\ ~Alive(session')
  BY <1>1, <1>3, <1>5, SaysFacts, ItemTypes DEF EndsAreLast, Failure, Sentinel
<1>6. CASE Dies /\ Alive(session) /\ ~Alive(session')
  BY <1>1, <1>3, <1>6, DiesFacts DEF EndsAreLast, Failure, Sentinel
<1> QED
  BY <1>2, <1>4, <1>5, <1>6, WhoSends

\* The head of the queue is the first item not received.
LEMMA HeadIsNext ==
  ASSUME TypeOK, QueueIsRest, session.queue # <<>>
  PROVE  /\ received + 1 \in 1..Len(sent)
         /\ sent[received + 1] = Head(session.queue)
<1>1. session.queue \in Seq(Items)
  BY DEF TypeOK, Sessions
<1>2. Len(session.queue) \in Nat \ {0} /\ Len(sent) \in Nat /\ received \in Nat
  BY <1>1, EmptySeq, LenProperties DEF TypeOK
<1>3. Head(session.queue) = session.queue[1]
  BY <1>1
<1> QED
  BY <1>2, <1>3 DEF QueueIsRest

LEMMA DoneStep ==
  ASSUME TypeOK, [Next]_vars, QueueIsRest, DoneIsEnd
  PROVE  DoneIsEnd'
<1>1. session \in Sessions /\ received \in Nat /\ received <= Len(sent)
  BY DEF TypeOK, QueueIsRest
<1>2. \A i \in 1..received : i \in 1..Len(sent) /\ sent'[i] = sent[i]
  BY <1>1, SentOnlyGrows
<1>3. CASE /\ session'.done = session.done
           /\ (consumer' = "ended") = (consumer = "ended")
           /\ received' = received
  BY <1>1, <1>2, <1>3 DEF DoneIsEnd
<1>4. CASE Backend
  <2>1. received' = received /\ consumer' = consumer
    BY <1>4 DEF Backend, Begin, Register, Speak, Return, Fail, AskFromHandler,
                AskFromDrive, BackendVars
  <2>2. session'.done = session.done
    BY <1>1, <1>4 DEF Backend, Begin, Register, Speak, Return, Fail,
         AskFromHandler, AskFromDrive, RunnerBegins, SetCanceller, Emit,
         RunnerReturns, RunnerFails, AskInline, Ask, Put, Sessions
  <2> QED
    BY <1>3, <2>1, <2>2
<1>5. CASE Closer
  <2>1. received' = received /\ consumer' = consumer
    BY <1>5 DEF Closer, Close, KeepClosing, Interrupt, CloserVars
  <2>2. session'.done = session.done
    BY <1>1, <1>5 DEF Closer, Close, KeepClosing, Interrupt, BeginClose,
         ContinueClose, InterruptClose, ClearPending, CancelRunner, Sessions
  <2> QED
    BY <1>3, <2>1, <2>2
<1>6. CASE Pause \/ Answer \/ Abort
  BY <1>1, <1>3, <1>6 DEF Pause, Answer, Abort, Park, Resolve, CancelRunner,
                          Sessions
<1>7. CASE TakeOutput \/ TakePrompt
  <2>1. session.queue # <<>> /\ received' = received + 1 /\ sent' = sent
        /\ consumer = "draining" /\ consumer' # "ended"
        /\ session'.done = session.done
    BY <1>1, <1>7 DEF TakeOutput, TakePrompt, Take, ConsumerVars, Sessions
  <2>2. Head(session.queue) \notin {Failure, Sentinel}
    BY <1>7 DEF TakeOutput, TakePrompt, Output, Failure, Sentinel
  <2> QED
    BY <1>1, <2>1, <2>2, HeadIsNext DEF DoneIsEnd
<1>8. CASE TakeEnd
  <2>1. session.queue # <<>> /\ received' = received + 1 /\ sent' = sent
        /\ consumer' = "ended" /\ session'.done
        /\ Head(session.queue) \in {Failure, Sentinel}
    BY <1>1, <1>8 DEF TakeEnd, End, ConsumerVars, Sessions
  <2> QED
    BY <1>1, <2>1, HeadIsNext DEF DoneIsEnd
<1>9. CASE UNCHANGED vars
  BY <1>3, <1>9 DEF vars
<1> QED
  BY <1>4, <1>5, <1>6, <1>7, <1>8, <1>9 DEF Next, Consumer

\* Unless a cancel may land before the first step, a run ends in its own code.
LEMMA EndsByItself ==
  ASSUME TypeOK, [Next]_vars, OverIsSent, EarlyCancel = FALSE
  PROVE  /\ session'.runner = "created" => session'.closer = "no"
         /\ Alive(session) /\ ~Alive(session') => Return \/ Fail
<1>1. /\ session \in Sessions
      /\ session.runner = "created" => session.closer = "no"
  BY DEF TypeOK, OverIsSent
<1>2. CASE Begin \/ Register \/ Speak
  BY <1>1, <1>2 DEF Begin, Register, Speak, RunnerBegins, SetCanceller, Emit,
                    Put, Driving, Alive, Sessions
<1>3. CASE Return \/ Fail
  BY <1>1, <1>3 DEF Return, Fail, RunnerReturns, RunnerFails, Put, Sessions
<1>4. ASSUME NEW r \in Requests, AskFromHandler(r) \/ AskFromDrive(r)
      PROVE  session'.runner # "created" /\ Alive(session')
  BY <1>1, <1>4 DEF AskFromHandler, AskFromDrive, AskInline, Ask, Put, Driving,
                    Alive, Sessions
<1>5. CASE TakeOutput \/ TakePrompt \/ TakeEnd \/ Pause \/ Answer
  BY <1>1, <1>5 DEF TakeOutput, TakePrompt, TakeEnd, Pause, Answer, Take, End,
                    Park, Resolve, Alive, Sessions
<1>6. CASE Abort
  BY <1>1, <1>6 DEF Abort, CancelRunner, Alive, Sessions
<1>7. CASE Close
  BY <1>1, <1>7 DEF Close, BeginClose, ClearPending, CancelRunner, Alive,
                    Sessions
<1>8. CASE KeepClosing \/ Interrupt
  BY <1>1, <1>8 DEF KeepClosing, Interrupt, CloseGoesOn, ContinueClose,
                    InterruptClose, ClearPending, CancelRunner, Alive, Sessions
<1>9. CASE UNCHANGED vars
  BY <1>1, <1>9 DEF vars, Alive
<1> QED
  BY <1>2, <1>3, <1>4, <1>5, <1>6, <1>7, <1>8, <1>9
  DEF Next, Backend, Consumer, Closer

LEMMA OverStep ==
  ASSUME TypeOK, [Next]_vars, CloseIsClean, OverIsSent
  PROVE  OverIsSent'
<1> SUFFICES ASSUME EarlyCancel = FALSE
             PROVE  /\ session'.runner = "created" => session'.closer = "no"
                    /\ ~Alive(session') =>
                         sent' # <<>> /\ sent'[Len(sent')] = Sentinel
  BY SessionAssumption DEF OverIsSent
<1>1. Len(sent) \in Nat
  BY LenProperties DEF TypeOK
<1>2. session'.runner = "created" => session'.closer = "no"
  BY EndsByItself
<1>3. CASE ~Alive(session)
  BY <1>2, <1>3, DoneForGood DEF OverIsSent
<1>4. CASE Return
  <2>1. Says(Sentinel)
    BY <1>4 DEF Return, RunnerReturns, Put, Says, BackendVars, TypeOK, Sessions
  <2>2. Len(sent') = Len(sent) + 1 /\ sent'[Len(sent) + 1] = Sentinel
    BY <2>1, ItemTypes, SaysFacts
  <2>3. sent' # <<>>
    BY <1>1, <2>2
  <2> QED
    BY <1>1, <1>2, <2>2, <2>3
<1>5. CASE Fail
  <2>1. Dies
    BY <1>5 DEF Fail, RunnerFails, Put, Dies, BackendVars, TypeOK, Sessions
  <2>2. Len(sent') = Len(sent) + 2 /\ sent'[Len(sent) + 2] = Sentinel
    BY <2>1, DiesFacts
  <2>3. sent' # <<>>
    BY <1>1, <2>2
  <2> QED
    BY <1>1, <1>2, <2>2, <2>3
<1> QED
  BY <1>2, <1>3, <1>4, <1>5, EndsByItself

(***************************************************************************)
(* What every reachable state knows of the queue and of the end.           *)
(***************************************************************************)
EndInv == TypeOK /\ QueueIsRest /\ EndsAreLast /\ DoneIsEnd /\ OverIsSent /\ CloseIsClean

LEMMA EndInvariant == Spec => []EndInv
<1>1. Init => EndInv
  <2> SUFFICES ASSUME Init PROVE EndInv
    OBVIOUS
  <2>1. TypeOK
    BY DEF Init, TypeOK, NewSession, Sessions, Consumers, Closers
  <2>2. Len(sent) = 0 /\ sent = <<>> /\ received = 0 /\ session.queue = <<>>
    BY DEF Init, NewSession
  <2>3. QueueIsRest /\ EndsAreLast
    BY <2>2 DEF QueueIsRest, EndsAreLast
  <2>4. DoneIsEnd /\ OverIsSent /\ CloseIsClean
    BY <2>2 DEF Init, DoneIsEnd, OverIsSent, CloseIsClean, NewSession, Alive
  <2> QED
    BY <2>1, <2>3, <2>4 DEF EndInv
<1>2. EndInv /\ [Next]_vars => EndInv'
  BY TypeStep, QueueStep, EndsStep, DoneStep, OverStep, CleanStep DEF EndInv
<1> QED
  BY <1>1, <1>2, PTL DEF Spec

\* While a run cannot be cancelled before its first step, its consumer is told
\* of its end: the sentinel put by start's finally stays last on the queue
\* until drain takes it, whatever cancels, aborts or closes meanwhile.
THEOREM RunsEndInTheSentinel ==
  ASSUME EarlyCancel = FALSE
  PROVE  Spec => []SentinelReaches
<1>1. ASSUME EndInv PROVE SentinelReaches
  <2> SUFFICES ASSUME ~Alive(session), ~session.done
               PROVE  /\ session.queue # <<>>
                      /\ session.queue[Len(session.queue)] = Sentinel
    BY DEF SentinelReaches
  <2>1. /\ session.queue \in Seq(Items) /\ sent \in Seq(Items)
        /\ received \in Nat
    BY <1>1 DEF EndInv, TypeOK, Sessions
  <2>2. /\ Len(session.queue) \in Nat /\ Len(sent) \in Nat \ {0}
        /\ Len(session.queue) = 0 <=> session.queue = <<>>
    BY <1>1, <2>1, LenProperties, EmptySeq DEF EndInv, OverIsSent
  <2>3. sent[Len(sent)] = Sentinel
    BY <1>1 DEF EndInv, OverIsSent
  <2>4. received < Len(sent)
    BY <1>1, <2>1, <2>2, <2>3 DEF EndInv, DoneIsEnd, QueueIsRest
  <2> QED
    BY <1>1, <2>1, <2>2, <2>3, <2>4 DEF EndInv, QueueIsRest
<1> QED
  BY <1>1, EndInvariant, PTL

\* drain leaves no event behind: once it has raised or returned, the queue
\* holds nothing but the sentinel that follows an error.
THEOREM DrainLeavesNothing == Spec => []NothingLeftBehind
<1>1. ASSUME EndInv PROVE NothingLeftBehind
  <2> SUFFICES ASSUME session.done
               PROVE  session.queue \in {<<>>, <<Sentinel>>}
    BY DEF NothingLeftBehind
  <2>1. /\ session.queue \in Seq(Items) /\ sent \in Seq(Items)
        /\ received \in Nat
    BY <1>1 DEF EndInv, TypeOK, Sessions
  <2>2. /\ Len(session.queue) \in Nat /\ Len(sent) \in Nat
        /\ Len(session.queue) = 0 <=> session.queue = <<>>
    BY <2>1, LenProperties, EmptySeq
  <2>3. received \in 1..Len(sent) /\ sent[received] \in {Failure, Sentinel}
    BY <1>1, <2>1, <2>2 DEF EndInv, DoneIsEnd, QueueIsRest
  <2>4. CASE sent[received] = Sentinel
    BY <1>1, <2>1, <2>2, <2>3, <2>4 DEF EndInv, EndsAreLast, QueueIsRest
  <2>5. CASE sent[received] = Failure
    <3>1. received = Len(sent) - 1 /\ sent[received + 1] = Sentinel
      BY <1>1, <2>3, <2>5 DEF EndInv, EndsAreLast
    <3>2. Len(session.queue) = 1 /\ session.queue[1] = Sentinel
      BY <1>1, <2>1, <2>2, <2>3, <3>1 DEF EndInv, QueueIsRest
    <3> QED
      BY <2>1, <3>2, ItemTypes, SeqEqual
  <2> QED
    BY <2>3, <2>4, <2>5
<1> QED
  BY <1>1, EndInvariant, PTL

(***************************************************************************)
(* The prompts.                                                            *)
(***************************************************************************)
\* An item that is a prompt is the prompt of its request.
LEMMA PromptById ==
  /\ \A item \in Items : IsPrompt(item) => item.id \in Requests
                                           /\ item = Prompt(item.id)
  /\ \A r \in Requests : IsPrompt(Prompt(r)) /\ Prompt(r).id = r
  /\ ~IsPrompt(Output) /\ ~IsPrompt(Failure) /\ ~IsPrompt(Sentinel)
BY DEF Items, IsPrompt, Prompt, Output, Failure, Sentinel

\* What asking does.
LEMMA AskShape ==
  ASSUME TypeOK, NEW r \in Requests, AskFromHandler(r) \/ AskFromDrive(r)
  PROVE  /\ r \notin asked
         /\ asked' = asked \cup {r}
         /\ Says(Prompt(r))
         /\ session'.pending = session.pending \cup {r}
         /\ session'.waiting = session.waiting \cup {r}
         /\ session'.lastRequest = session.lastRequest
         /\ session'.closer = session.closer
         /\ UNCHANGED <<consumer, surfacing, received, decided>>
<1>1. CASE AskFromHandler(r)
  BY <1>1 DEF TypeOK, AskFromHandler, Ask, Put, Says, BackendVars, Sessions
<1>2. CASE AskFromDrive(r)
  BY <1>2 DEF TypeOK, AskFromDrive, AskInline, Ask, Put, Says, BackendVars,
              Sessions
<1> QED
  BY <1>1, <1>2

\* What the backend's other steps leave alone.
LEMMA BackendShape ==
  ASSUME TypeOK, Begin \/ Register \/ Speak \/ Return \/ Fail
  PROVE  /\ asked' = asked
         /\ session'.pending = session.pending
         /\ session'.waiting = session.waiting
         /\ session'.lastRequest = session.lastRequest
         /\ session'.closer = session.closer
         /\ UNCHANGED <<consumer, surfacing, received, decided>>
<1>1. session \in Sessions
  BY DEF TypeOK
<1>2. CASE Begin \/ Register
  BY <1>1, <1>2 DEF Begin, Register, RunnerBegins, SetCanceller, BackendVars,
                    Sessions
<1>3. CASE Speak \/ Return
  BY <1>1, <1>3 DEF Speak, Return, Emit, RunnerReturns, Put, BackendVars,
                    Sessions
<1>4. CASE Fail
  BY <1>1, <1>4 DEF Fail, RunnerFails, Put, BackendVars, Sessions
<1> QED
  BY <1>2, <1>3, <1>4

\* What the steps of a close leave alone.
LEMMA CloserShape ==
  ASSUME TypeOK, Closer
  PROVE  /\ session'.pending \in {session.pending, {}}
         /\ session'.waiting \subseteq session.waiting
         /\ session'.waiting = {} \/ session'.pending = session.pending
         /\ session'.lastRequest = session.lastRequest
         /\ session'.closer # "no"
         /\ UNCHANGED <<consumer, surfacing, asked, sent, received, decided>>
<1>1. session \in Sessions
  BY DEF TypeOK
<1>2. CASE Close
  BY <1>1, <1>2 DEF Close, BeginClose, ClearPending, CancelRunner, CloserVars,
                    Sessions
<1>3. CASE KeepClosing
  BY <1>1, <1>3 DEF KeepClosing, ContinueClose, ClearPending, CancelRunner,
                    CloserVars, Sessions
<1>4. CASE Interrupt
  BY <1>1, <1>4 DEF Interrupt, InterruptClose, ClearPending, CancelRunner,
                    CloserVars, Sessions
<1> QED
  BY <1>2, <1>3, <1>4 DEF Closer

\* No step but asking makes a request pending, or puts a prompt on the queue.
LEMMA OnlyAskingAsks ==
  ASSUME TypeOK, [Next]_vars,
         ~\E r \in Requests : AskFromHandler(r) \/ AskFromDrive(r)
  PROVE  /\ asked' = asked
         /\ session'.pending \subseteq session.pending
         /\ session'.waiting \subseteq session.waiting
         /\ session.waiting \subseteq session.pending
              => session'.waiting \subseteq session'.pending
         /\ \A i \in 1..Len(sent') :
              IsPrompt(sent'[i]) => i \in 1..Len(sent) /\ sent'[i] = sent[i]
<1>1. session \in Sessions /\ Len(sent) \in Nat
  BY LenProperties DEF TypeOK
<1>2. /\ asked' = asked
      /\ session'.pending \subseteq session.pending
      /\ session'.waiting \subseteq session.waiting
      /\ session.waiting \subseteq session.pending
           => session'.waiting \subseteq session'.pending
  <2>1. CASE Backend
    BY <2>1, BackendShape DEF Backend
  <2>2. CASE Closer
    BY <2>2, CloserShape
  <2>3. CASE TakeOutput \/ TakePrompt \/ TakeEnd \/ Pause
    BY <1>1, <2>3 DEF TakeOutput, TakePrompt, TakeEnd, Pause, Take, End, Park,
                      ConsumerVars, Sessions
  <2>4. CASE Answer \/ Abort
    <3>1. CASE Answer
      BY <1>1, <3>1 DEF Answer, Resolve, ConsumerVars, Sessions
    <3>2. CASE Abort
      BY <1>1, <3>2 DEF Abort, CancelRunner, ConsumerVars, Sessions
    <3> QED
      BY <2>4, <3>1, <3>2
  <2>5. CASE UNCHANGED vars
    BY <2>5 DEF vars
  <2> QED
    BY <2>1, <2>2, <2>3, <2>4, <2>5 DEF Next, Consumer
<1>3. ASSUME NEW i \in 1..Len(sent'), IsPrompt(sent'[i])
      PROVE  i \in 1..Len(sent) /\ sent'[i] = sent[i]
  <2>1. CASE Speak
    <3>1. Says(Output)
      BY <1>1, <2>1 DEF Speak, Emit, Put, Says, BackendVars, Sessions
    <3> QED
      BY <1>1, <1>3, <3>1, SaysFacts, ItemTypes, PromptById
  <2>2. CASE Return
    <3>1. Says(Sentinel)
      BY <1>1, <2>2 DEF Return, RunnerReturns, Put, Says, BackendVars, Sessions
    <3> QED
      BY <1>1, <1>3, <3>1, SaysFacts, ItemTypes, PromptById
  <2>3. CASE Fail
    <3>1. Dies
      BY <1>1, <2>3 DEF Fail, RunnerFails, Put, Dies, BackendVars, Sessions
    <3> QED
      BY <1>1, <1>3, <3>1, DiesFacts, PromptById
  <2>4. CASE sent' = sent
    BY <1>3, <2>4
  <2>5. CASE Begin \/ Register \/ Consumer \/ Closer \/ UNCHANGED vars
    BY <2>4, <2>5, CloserShape DEF Begin, Register, Consumer, TakeOutput,
       TakePrompt, TakeEnd, Pause, Answer, Abort, ConsumerVars, vars
  <2> QED
    BY <2>1, <2>2, <2>3, <2>5 DEF Next, Backend
<1> QED
  BY <1>2, <1>3

LEMMA AskedStep ==
  ASSUME TypeOK, [Next]_vars, AskedOnce
  PROVE  AskedOnce'
<1>1. Len(sent) \in Nat /\ sent \in Seq(Items)
  BY LenProperties DEF TypeOK
<1>2. /\ Len(sent) <= Len(sent')
      /\ \A i \in 1..Len(sent) : i \in 1..Len(sent') /\ sent'[i] = sent[i]
  BY <1>1, SentOnlyGrows
<1>3. ASSUME NEW r \in Requests, AskFromHandler(r) \/ AskFromDrive(r)
      PROVE  AskedOnce'
  <2>1. /\ r \notin asked /\ asked' = asked \cup {r}
        /\ session'.pending = session.pending \cup {r}
        /\ session'.waiting = session.waiting \cup {r}
    BY <1>3, AskShape
  <2>2. Len(sent') = Len(sent) + 1 /\ sent'[Len(sent) + 1] = Prompt(r)
    BY <1>3, AskShape, SaysFacts, ItemTypes
  <2>3. \A i \in 1..Len(sent') : IsPrompt(sent'[i]) => sent'[i].id \in asked'
    BY <1>1, <1>2, <2>1, <2>2, PromptById DEF AskedOnce
  <2>4. \A i \in 1..Len(sent) : IsPrompt(sent[i]) => sent[i] # Prompt(r)
    BY <2>1, PromptById DEF AskedOnce
  <2>5. ASSUME NEW i \in 1..Len(sent'), NEW j \in 1..Len(sent'),
               IsPrompt(sent'[i]), sent'[i] = sent'[j]
        PROVE  i = j
    <3>1. CASE i \in 1..Len(sent) /\ j \in 1..Len(sent)
      BY <1>2, <2>5, <3>1 DEF AskedOnce
    <3>2. CASE i = Len(sent) + 1 /\ j \in 1..Len(sent)
      BY <1>2, <2>2, <2>4, <2>5, <3>2, PromptById
    <3>3. CASE i \in 1..Len(sent) /\ j = Len(sent) + 1
      BY <1>2, <2>2, <2>4, <2>5, <3>3, PromptById
    <3> QED
      BY <1>1, <2>2, <3>1, <3>2, <3>3
  <2>6. \A q \in session'.waiting : \E i \in 1..Len(sent') : sent'[i] = Prompt(q)
    <3>1. Len(sent) + 1 \in 1..Len(sent')
      BY <1>1, <2>2
    <3> QED
      BY <1>2, <2>1, <2>2, <3>1 DEF AskedOnce
  <2> QED
    BY <2>1, <2>3, <2>5, <2>6 DEF AskedOnce
<1>4. CASE ~\E r \in Requests : AskFromHandler(r) \/ AskFromDrive(r)
  <2>1. /\ asked' = asked
        /\ session'.pending \subseteq session.pending
        /\ session'.waiting \subseteq session.waiting
        /\ session'.waiting \subseteq session'.pending
    BY <1>4, OnlyAskingAsks DEF AskedOnce
  <2>2. \A i \in 1..Len(sent') :
          IsPrompt(sent'[i]) => i \in 1..Len(sent) /\ sent'[i] = sent[i]
    BY <1>4, OnlyAskingAsks
  <2>3. \A i \in 1..Len(sent') : IsPrompt(sent'[i]) => sent'[i].id \in asked'
    BY <2>1, <2>2 DEF AskedOnce
  <2>4. ASSUME NEW i \in 1..Len(sent'), NEW j \in 1..Len(sent'),
               IsPrompt(sent'[i]), sent'[i] = sent'[j]
        PROVE  i = j
    BY <2>2, <2>4 DEF AskedOnce
  <2>5. \A q \in session'.waiting : \E i \in 1..Len(sent') : sent'[i] = Prompt(q)
    BY <1>2, <2>1 DEF AskedOnce
  <2> QED
    BY <2>1, <2>3, <2>4, <2>5 DEF AskedOnce
<1> QED
  BY <1>3, <1>4

\* The consumer's own steps, one lemma for each.
LEMMA TakePromptStep ==
  ASSUME TypeOK, QueueIsRest, PromptInHand, TakeOutput \/ TakePrompt \/ TakeEnd
  PROVE  PromptInHand'
<1>1. /\ session \in Sessions /\ sent \in Seq(Items) /\ received \in Nat
      /\ Len(sent) \in Nat
  BY LenProperties DEF TypeOK
<1>2. /\ session.queue # <<>> /\ consumer = "draining" /\ sent' = sent
      /\ received' = received + 1
      /\ session'.waiting = session.waiting
      /\ session'.pending = session.pending
      /\ session'.closer = session.closer
      /\ session'.lastRequest = session.lastRequest
  BY <1>1 DEF TakeOutput, TakePrompt, TakeEnd, Take, End, ConsumerVars, Sessions
<1>3. received + 1 \in 1..Len(sent) /\ sent[received + 1] = Head(session.queue)
  BY <1>2, HeadIsNext
<1>4. \/ ~IsPrompt(sent[received + 1]) /\ consumer' \in {"draining", "ended"}
         /\ surfacing' = NoRequest
      \/ consumer' = "surfacing" /\ surfacing' \in Requests
         /\ sent[received + 1] = Prompt(surfacing')
  <2>1. CASE TakeOutput \/ TakeEnd
    BY <1>2, <1>3, <2>1, PromptById DEF TakeOutput, TakeEnd, PromptInHand
  <2>2. CASE TakePrompt
    <3>1. Head(session.queue) \in Items /\ IsPrompt(Head(session.queue))
      BY <1>1, <1>3, <2>2 DEF TakePrompt, IsPrompt
    <3> QED
      BY <1>3, <2>2, <3>1, PromptById DEF TakePrompt
  <2> QED
    BY <2>1, <2>2
<1>5. \A i \in 1..received : ~(IsPrompt(sent[i]) /\ sent[i].id \in session.waiting)
  BY <1>2 DEF PromptInHand
<1>6. consumer' # "cancelled" =>
        \A i \in 1..received' :
          IsPrompt(sent'[i]) /\ sent'[i].id \in session'.waiting
            => i = received' /\ consumer' \in {"surfacing", "paused"}
  BY <1>1, <1>2, <1>4, <1>5
<1>7. session'.closer = "no" =>
        \A i \in 1..Len(sent') :
          /\ IsPrompt(sent'[i])
          /\ \/ i > received'
             \/ i = received' /\ consumer' \in {"surfacing", "paused"}
          => sent'[i].id \in session'.pending
  BY <1>1, <1>2 DEF PromptInHand
<1>8. consumer' # "paused" /\ received' >= 1
  BY <1>1, <1>2, <1>4
<1> QED
  BY <1>2, <1>4, <1>6, <1>7, <1>8 DEF PromptInHand

LEMMA PauseStep ==
  ASSUME TypeOK, PromptInHand, Pause
  PROVE  PromptInHand'
<1>1. session \in Sessions
  BY DEF TypeOK
<1>2. /\ consumer = "surfacing" /\ consumer' = "paused"
      /\ surfacing' = NoRequest /\ session'.lastRequest = surfacing
      /\ sent' = sent /\ received' = received
      /\ session'.waiting = session.waiting
      /\ session'.pending = session.pending
      /\ session'.closer = session.closer
  BY <1>1 DEF Pause, Park, ConsumerVars, Sessions
<1> QED
  BY <1>2 DEF PromptInHand

\* An answer settles the prompt in hand and no other: the requests are distinct.
LEMMA AnswerStep ==
  ASSUME TypeOK, QueueIsRest, AskedOnce, PromptInHand, Answer
  PROVE  PromptInHand'
<1>1. /\ session \in Sessions /\ sent \in Seq(Items) /\ received \in Nat
      /\ Len(sent) \in Nat /\ received <= Len(sent)
  BY LenProperties DEF TypeOK, QueueIsRest
<1> DEFINE last == session.lastRequest
<1>2. /\ consumer = "paused" /\ consumer' = "draining"
      /\ surfacing' = surfacing /\ sent' = sent /\ received' = received
      /\ session'.waiting = session.waiting \ {last}
      /\ session'.pending = session.pending \ {last}
      /\ session'.closer = session.closer
  BY <1>1 DEF Answer, Resolve, ConsumerVars, Sessions
<1>3. /\ received \in 1..Len(sent) /\ last \in Requests
      /\ sent[received] = Prompt(last)
  BY <1>1, <1>2 DEF PromptInHand
<1> HIDE DEF last
<1>4. ASSUME NEW i \in 1..received, IsPrompt(sent[i]),
             sent[i].id \in session'.waiting
      PROVE  FALSE
  <2>1. i = received
    BY <1>2, <1>4 DEF PromptInHand
  <2> QED
    BY <1>2, <1>3, <1>4, <2>1, PromptById
<1>5. ASSUME session.closer = "no", NEW i \in 1..Len(sent), IsPrompt(sent[i]),
             i > received
      PROVE  sent[i].id \in session'.pending
  <2>1. sent[i].id \in session.pending
    BY <1>5 DEF PromptInHand
  <2>2. sent[i] \in Items
    BY <1>1
  <2>3. sent[i] # sent[received]
    BY <1>1, <1>3, <1>5 DEF AskedOnce
  <2>4. sent[i].id # last
    BY <1>3, <1>5, <2>2, <2>3, PromptById
  <2> QED
    BY <1>2, <2>1, <2>4
<1> QED
  BY <1>2, <1>4, <1>5 DEF PromptInHand

\* A step that takes nothing and asks nothing, and settles at most.
LEMMA QuietStep ==
  ASSUME TypeOK, QueueIsRest, AskedOnce, PromptInHand,
         UNCHANGED <<received, surfacing, consumer>>,
         session'.lastRequest = session.lastRequest,
         session'.waiting \subseteq session.waiting,
         session'.closer = "no" => session.closer = "no"
                                   /\ session.pending \subseteq session'.pending,
         \A i \in 1..received : i \in 1..Len(sent') /\ sent'[i] = sent[i],
         \A i \in 1..Len(sent') :
           IsPrompt(sent'[i]) => i \in 1..Len(sent) /\ sent'[i] = sent[i]
  PROVE  PromptInHand'
<1>1. received \in Nat /\ \A i \in 1..received : i \in 1..Len(sent)
  BY LenProperties DEF TypeOK, QueueIsRest
<1>2. received >= 1 => received \in 1..received /\ sent'[received] = sent[received]
  BY <1>1
<1>3. consumer' # "cancelled" =>
        \A i \in 1..received' :
          IsPrompt(sent'[i]) /\ sent'[i].id \in session'.waiting
            => i = received' /\ consumer' \in {"surfacing", "paused"}
  BY DEF PromptInHand
<1>4. session'.closer = "no" =>
        \A i \in 1..Len(sent') :
          /\ IsPrompt(sent'[i])
          /\ \/ i > received'
             \/ i = received' /\ consumer' \in {"surfacing", "paused"}
          => sent'[i].id \in session'.pending
  BY DEF PromptInHand
<1> QED
  BY <1>2, <1>3, <1>4 DEF PromptInHand

LEMMA PromptStep ==
  ASSUME TypeOK, [Next]_vars, QueueIsRest, AskedOnce, PromptInHand
  PROVE  PromptInHand'
<1>1. /\ session \in Sessions /\ received \in Nat /\ received <= Len(sent)
      /\ Len(sent) \in Nat
  BY LenProperties DEF TypeOK, QueueIsRest
<1>2. \A i \in 1..received : /\ i \in 1..Len(sent) /\ i \in 1..Len(sent')
                             /\ sent'[i] = sent[i]
  BY <1>1, SentOnlyGrows
<1>3. ASSUME NEW r \in Requests, AskFromHandler(r) \/ AskFromDrive(r)
      PROVE  PromptInHand'
  <2>1. /\ r \notin asked
        /\ session'.pending = session.pending \cup {r}
        /\ session'.waiting = session.waiting \cup {r}
        /\ session'.lastRequest = session.lastRequest
        /\ session'.closer = session.closer
        /\ UNCHANGED <<consumer, surfacing, received>>
    BY <1>3, AskShape
  <2>2. /\ Len(sent') = Len(sent) + 1 /\ sent'[Len(sent) + 1] = Prompt(r)
        /\ \A i \in 1..Len(sent) : sent'[i] = sent[i]
    BY <1>3, AskShape, SaysFacts, ItemTypes
  <2>3. received >= 1 => sent'[received] = sent[received]
    BY <1>1, <1>2
  <2>4. \A i \in 1..received : IsPrompt(sent[i]) => sent[i].id # r
    BY <1>2, <2>1 DEF AskedOnce
  <2>5. consumer' # "cancelled" =>
          \A i \in 1..received' :
            IsPrompt(sent'[i]) /\ sent'[i].id \in session'.waiting
              => i = received' /\ consumer' \in {"surfacing", "paused"}
    BY <1>2, <2>1, <2>4 DEF PromptInHand
  <2>6. session'.closer = "no" =>
          \A i \in 1..Len(sent') :
            /\ IsPrompt(sent'[i])
            /\ \/ i > received'
               \/ i = received' /\ consumer' \in {"surfacing", "paused"}
            => sent'[i].id \in session'.pending
    BY <1>1, <2>1, <2>2, PromptById DEF PromptInHand
  <2> QED
    BY <2>1, <2>3, <2>5, <2>6 DEF PromptInHand
<1>4. CASE ~\E r \in Requests : AskFromHandler(r) \/ AskFromDrive(r)
  <2>1. \A i \in 1..Len(sent') :
          IsPrompt(sent'[i]) => i \in 1..Len(sent) /\ sent'[i] = sent[i]
    BY <1>4, OnlyAskingAsks
  <2>2. CASE Backend
    BY <1>2, <1>4, <2>1, <2>2, BackendShape, QuietStep DEF Backend
  <2>3. CASE Closer
    BY <1>2, <2>1, <2>3, CloserShape, QuietStep
  <2>4. CASE UNCHANGED vars
    BY <1>2, <2>1, <2>4, QuietStep DEF vars
  <2>5. CASE Abort
    <3>1. /\ consumer' = "cancelled" /\ surfacing' = NoRequest
          /\ sent' = sent /\ received' = received
          /\ session'.pending = session.pending
          /\ session'.closer = session.closer
      BY <1>1, <2>5 DEF Abort, CancelRunner, ConsumerVars, Sessions
    <3> QED
      BY <3>1 DEF PromptInHand
  <2> QED
    BY <2>2, <2>3, <2>4, <2>5, TakePromptStep, PauseStep, AnswerStep
    DEF Next, Consumer
<1> QED
  BY <1>3, <1>4

(***************************************************************************)
(* The inductive invariant, and what it gives.                             *)
(***************************************************************************)
IInv == EndInv /\ AskedOnce /\ PromptInHand

LEMMA IInvariant == Spec => []IInv
<1>1. Init => AskedOnce /\ PromptInHand
  <2> SUFFICES ASSUME Init PROVE AskedOnce /\ PromptInHand
    OBVIOUS
  <2>1. Len(sent) = 0 /\ received = 0
    BY DEF Init
  <2>2. AskedOnce
    BY <2>1 DEF Init, AskedOnce, NewSession
  <2>3. PromptInHand
    BY <2>1 DEF Init, PromptInHand, NewSession
  <2> QED
    BY <2>2, <2>3
<1>2. EndInv /\ AskedOnce /\ PromptInHand /\ [Next]_vars
        => (AskedOnce /\ PromptInHand)'
  BY AskedStep, PromptStep DEF EndInv
<1> QED
  BY <1>1, <1>2, EndInvariant, PTL DEF Spec, IInv

\* Nobody waits for an answer that cannot come: a request is on the queue of a
\* consumer that will get to it, or in the consumer's hands, or the one the
\* session is parked on, however many are asked at once (drain records
\* last_request_id when it surfaces a prompt, not when the prompt is made).
THEOREM NoPromptIsLost == Spec => []WaitersAreReachable
<1>1. ASSUME IInv PROVE WaitersAreReachable
  <2> SUFFICES ASSUME consumer # "cancelled", session.closer = "no",
                      NEW r \in session.waiting
               PROVE  \/ r = surfacing
                      \/ consumer = "paused" /\ r = session.lastRequest
                      \/ /\ \E i \in 1..Len(session.queue) :
                              session.queue[i] = Prompt(r)
                         /\ \/ consumer \in {"draining", "surfacing"}
                            \/ IsParked(session)
    BY DEF WaitersAreReachable
  <2>1. /\ session \in Sessions /\ sent \in Seq(Items) /\ received \in Nat
        /\ Len(sent) \in Nat /\ r \in Requests /\ consumer \in Consumers
    BY <1>1, LenProperties DEF IInv, EndInv, TypeOK, Sessions
  <2>2. PICK i \in 1..Len(sent) : sent[i] = Prompt(r)
    BY <1>1 DEF IInv, AskedOnce
  <2>3. IsPrompt(sent[i]) /\ sent[i].id = r
    BY <2>1, <2>2, PromptById
  <2>4. CASE i <= received
    <3>1. i = received /\ consumer \in {"surfacing", "paused"}
      BY <1>1, <2>1, <2>2, <2>3, <2>4 DEF IInv, PromptInHand
    <3> QED
      BY <1>1, <2>1, <2>2, <2>3, <3>1, PromptById DEF IInv, PromptInHand
  <2>5. CASE i > received
    <3>1. i - received \in 1..Len(session.queue)
      BY <1>1, <2>1, <2>2, <2>5 DEF IInv, EndInv, QueueIsRest
    <3>2. session.queue[i - received] = Prompt(r)
      BY <1>1, <2>1, <2>2, <3>1 DEF IInv, EndInv, QueueIsRest
    <3>3. CASE consumer = "paused"
      <4>1. received \in 1..Len(sent) /\ session.lastRequest \in Requests
            /\ sent[received] = Prompt(session.lastRequest)
        BY <1>1, <2>1, <3>3 DEF IInv, EndInv, QueueIsRest, PromptInHand
      <4>2. session.lastRequest \in session.pending
        BY <1>1, <3>3, <4>1, PromptById DEF IInv, PromptInHand
      <4> QED
        BY <3>1, <3>2, <4>1, <4>2, NoRequestAssumption DEF IsParked
    <3>4. consumer # "ended"
      <4> SUFFICES ASSUME consumer = "ended" PROVE FALSE
        OBVIOUS
      <4>1. received \in 1..Len(sent) /\ sent[received] \in {Failure, Sentinel}
        BY <1>1, <2>1, <2>2, <2>5 DEF IInv, EndInv, DoneIsEnd
      <4>2. i = Len(sent) /\ sent[i] = Sentinel
        BY <1>1, <2>1, <2>2, <2>5, <4>1 DEF IInv, EndInv, EndsAreLast
      <4> QED
        BY <2>3, <4>2, PromptById
    <3> QED
      BY <2>1, <3>1, <3>2, <3>3, <3>4 DEF Consumers
  <2> QED
    BY <2>1, <2>2, <2>4, <2>5
<1> QED
  BY <1>1, IInvariant, PTL

\* No decision settles a request its caller has not been shown.
THEOREM DecisionsAreForWhatWasShown == Spec => []OnlyShownIsDecided
<1>1. Init => OnlyShownIsDecided
  BY DEF Init, OnlyShownIsDecided
<1>2. ASSUME IInv, [Next]_vars, OnlyShownIsDecided PROVE OnlyShownIsDecided'
  <2>1. /\ received \in Nat /\ received' \in Nat /\ received <= received'
        /\ \A i \in 1..received : sent'[i] = sent[i]
    <3>1. TypeOK /\ received <= Len(sent) /\ received \in Nat
      BY <1>2 DEF IInv, EndInv, QueueIsRest, TypeOK
    <3>2. received' \in {received, received + 1}
      BY <1>2, <3>1, StepShapes DEF Says, Dies, Takes, Rests
    <3> QED
      BY <1>2, <3>1, <3>2, SentOnlyGrows
  <2>2. CASE decided' = decided
    BY <1>2, <2>1, <2>2 DEF OnlyShownIsDecided
  <2>3. CASE Answer
    <3>1. /\ decided' \subseteq decided \cup {session.lastRequest}
          /\ received' = received
      BY <2>3 DEF Answer
    <3>2. received >= 1 /\ sent[received] = Prompt(session.lastRequest)
      BY <1>2, <2>3 DEF IInv, PromptInHand, Answer
    <3>3. \E i \in 1..received' : sent'[i] = Prompt(session.lastRequest)
      BY <2>1, <3>1, <3>2
    <3> QED
      BY <1>2, <2>1, <3>1, <3>3 DEF OnlyShownIsDecided
  <2>4. decided' = decided \/ Answer
    BY <1>2 DEF Next, Backend, Consumer, Closer, Begin, Register, Speak,
       AskFromHandler, AskFromDrive, Return, Fail, TakeOutput, TakePrompt,
       Pause, TakeEnd, Abort, Close, KeepClosing, Interrupt, BackendVars,
       CloserVars, vars
  <2> QED
    BY <2>2, <2>3, <2>4
<1> QED
  BY <1>1, <1>2, IInvariant, PTL DEF Spec

\* After close() nothing of the run is left: its runner is done, its waiters
\* are woken, and no step brings either back.
THEOREM ClosedIsOver == Spec => []ClosedMeansOver
<1>1. IInv => ClosedMeansOver
  BY DEF IInv, EndInv, CloseIsClean, AskedOnce, ClosedMeansOver
<1> QED
  BY <1>1, IInvariant, PTL

(***************************************************************************)
(* The session keeps its promise (module Conversation).                    *)
(***************************************************************************)
LEMMA SameItems ==
  /\ Promise!Items = Items
  /\ Promise!Failure = Failure
  /\ Promise!Sentinel = Sentinel
BY DEF Promise!Items, Promise!Output, Promise!Prompt, Promise!Failure,
       Promise!Sentinel, Items, Output, Prompt, Failure, Sentinel

LEMMA PromiseStep ==
  ASSUME IInv, [Next]_vars
  PROVE  [Promise!Next]_<<sent, received, openPrompt>>
<1>1. /\ TypeOK /\ session \in Sessions /\ sent \in Seq(Items)
      /\ Len(sent) \in Nat /\ received \in Nat
  BY LenProperties DEF IInv, EndInv, TypeOK
<1>2. CASE Backend
  <2>1. /\ received' = received /\ consumer' = consumer
        /\ surfacing' = surfacing
        /\ session'.lastRequest = session.lastRequest
    BY <1>1, <1>2, AskShape, BackendShape DEF Backend
  <2>2. openPrompt' = openPrompt
    BY <2>1 DEF openPrompt
  <2>3. Alive(session) => ~Promise!Ended
    <3>1. Alive(session) /\ sent # <<>> => sent[Len(sent)] # Sentinel
      BY <1>1, EmptySeq DEF IInv, EndInv, EndsAreLast
    <3> QED
      BY <3>1, SameItems DEF Promise!Ended
  <2>4. CASE sent' = sent
    BY <2>1, <2>2, <2>4
  <2>5. ASSUME NEW item \in Items, Says(item), Alive(session)
        PROVE  Promise!Say
    BY <2>1, <2>2, <2>3, <2>5, SameItems DEF Says, Promise!Say
  <2>6. ASSUME Dies, Alive(session) PROVE Promise!Say
    BY <2>1, <2>2, <2>3, <2>6, SameItems DEF Dies, Promise!Say
  <2> QED
    BY <1>1, <2>4, <2>5, <2>6, WhoSends, ItemTypes
    DEF Rests, Takes, Promise!Next
<1>3. CASE TakeOutput \/ TakePrompt \/ TakeEnd
  <2>1. /\ session.queue # <<>> /\ consumer = "draining" /\ sent' = sent
        /\ received' = received + 1
    BY <1>3 DEF TakeOutput, TakePrompt, TakeEnd, ConsumerVars
  <2>2. /\ received + 1 \in 1..Len(sent)
        /\ sent[received + 1] = Head(session.queue)
    BY <1>1, <2>1, HeadIsNext DEF IInv, EndInv
  <2>3. openPrompt = NoRequest
    BY <2>1 DEF openPrompt
  <2>4. openPrompt' = Head(session.queue).id
    BY <1>3 DEF openPrompt, TakeOutput, TakePrompt, TakeEnd, Output, Failure,
                Sentinel
  <2> QED
    BY <1>1, <2>1, <2>2, <2>3, <2>4 DEF Promise!Next, Promise!Hear
<1>4. CASE Pause
  BY <1>1, <1>4 DEF Pause, Park, ConsumerVars, openPrompt, Sessions
<1>5. CASE Answer
  <2>1. openPrompt # NoRequest /\ openPrompt' = NoRequest
    BY <1>5 DEF Answer, IsParked, openPrompt
  <2> QED
    BY <1>5, <2>1 DEF Answer, ConsumerVars, Promise!Next, Promise!Settle
<1>6. CASE Abort
  <2>1. openPrompt' = NoRequest /\ sent' = sent /\ received' = received
    BY <1>6 DEF Abort, openPrompt, ConsumerVars
  <2> QED
    BY <2>1 DEF Promise!Next, Promise!Settle
<1>7. CASE Closer
  BY <1>1, <1>7, CloserShape DEF openPrompt
<1>8. CASE UNCHANGED vars
  BY <1>8 DEF vars, openPrompt
<1> QED
  BY <1>2, <1>3, <1>4, <1>5, <1>6, <1>7, <1>8 DEF Next, Consumer

\* The session implements Conversation: whatever the runner, the consumer and
\* the closer do, the caller hears the run's items in order and once each, and
\* nothing past a prompt that is not settled.
THEOREM SessionKeepsPromise == Spec => KeepsPromise
<1>1. Init => Promise!Init
  BY DEF Init, Promise!Init, openPrompt
<1> QED
  BY <1>1, PromiseStep, IInvariant, PTL DEF Spec, KeepsPromise, Promise!Spec

\* A close that is itself cancelled leaves no coroutine suspended in
\* request_permission (close's finally).
THEOREM AbandoningWakes == Spec => AbandonedWakes
<1>1. ASSUME TypeOK, [Next]_vars
      PROVE  [session'.closer = "abandoned" /\ session.closer # "abandoned"
                => session'.waiting = {}]_vars
  <2>1. session \in Sessions
    BY <1>1 DEF TypeOK
  <2>2. CASE Backend
    BY <2>1, <2>2, AskShape, BackendShape, <1>1 DEF Backend
  <2>3. CASE Consumer
    BY <2>1, <2>3 DEF Consumer, TakeOutput, TakePrompt, TakeEnd, Pause, Answer,
                      Abort, Take, End, Park, Resolve, CancelRunner, Sessions
  <2>4. CASE Closer
    <3>1. CASE Close
      BY <2>1, <3>1 DEF Close, BeginClose, ClearPending, CancelRunner, Sessions
    <3>2. CASE KeepClosing
      BY <2>1, <3>2 DEF KeepClosing, ContinueClose, ClearPending, CancelRunner,
                        Sessions
    <3>3. CASE Interrupt
      BY <2>1, <3>3 DEF Interrupt, InterruptClose, ClearPending, CancelRunner,
                        Sessions
    <3> QED
      BY <2>4, <3>1, <3>2, <3>3 DEF Closer
  <2> QED
    BY <1>1, <2>2, <2>3, <2>4 DEF Next
<1> QED
  BY <1>1, TypeCorrect, PTL DEF Spec, AbandonedWakes
=============================================================================
