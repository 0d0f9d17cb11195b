------------------------------- MODULE Session -------------------------------
(***************************************************************************)
(* One BackendSession with the three parties that share it:                *)
(*   - the backend, whose drive() runs in the background task and whose    *)
(*     callbacks may ask for permission from tasks of their own;           *)
(*   - the consumer, the executor's _pump, which drains the session,       *)
(*     publishes what it reads and answers the prompts it surfaced;        *)
(*   - the closer, tasks/cancel or an eviction, which runs close().        *)
(* Steps are the stretches between two suspension points of asyncio code.  *)
(***************************************************************************)
EXTENDS SessionState

CONSTANTS MaxOutput,      \* bound: outputs the run emits
          EarlyCancel     \* may a cancel land before the runner's first step?

ASSUME SessionAssumption == MaxOutput \in Nat /\ EarlyCancel \in BOOLEAN

VARIABLES session,      \* the BackendSession
          consumer,     \* where the consumer is
          surfacing,    \* the prompt drain has yielded and not yet recorded
          asked,        \* history: requests made so far
          sent,         \* history: every item put on the queue, in order
          received,     \* history: how many of them drain has taken
          decided       \* history: requests settled by the caller's decision

vars == <<session, consumer, surfacing, asked, sent, received, decided>>

Consumers == {"draining",    \* suspended in queue.get(), or about to take
              "surfacing",   \* publishing the prompt drain yielded
              "paused",      \* _pump returned; the task is input-required
              "ended",       \* drain returned or raised
              "cancelled"}   \* the task running _pump was cancelled

Init == /\ session = NewSession
        /\ consumer = "draining"
        /\ surfacing = NoRequest
        /\ asked = {}
        /\ sent = <<>>
        /\ received = 0
        /\ decided = {}
-----------------------------------------------------------------------------
(***************************************************************************)
(* The backend.                                                            *)
(***************************************************************************)
\* What the backend leaves alone.
BackendVars == <<consumer, surfacing, received, decided>>

\* The event loop gives the runner its first step.
Begin == /\ session.runner = "created"
         /\ session' = RunnerBegins(session)
         /\ UNCHANGED <<asked, sent, BackendVars>>

\* The backend registers how to ask the agent to stop (acp.py _run_turn).
Register == /\ session.runner = "running"
            /\ session.own = NoRequest
            /\ ~session.canceller
            /\ session' = SetCanceller(session)
            /\ UNCHANGED <<asked, sent, BackendVars>>

MayOutput == Len(SelectSeq(sent, LAMBDA item : item = Output)) < MaxOutput

\* An event, from drive() or from one of the agent's notifications.  A run
\* being cancelled may still flush some (acp.py drive's finally).
Speak == /\ Driving(session)
         /\ session.own = NoRequest
         /\ MayOutput
         /\ session' = Emit(session)
         /\ sent' = Append(sent, Output)
         /\ UNCHANGED <<asked, BackendVars>>

\* A permission request, made by a task of the backend's ...
AskFromHandler(r) == /\ Driving(session)
                     /\ session.own = NoRequest
                     /\ r \notin asked
                     /\ session' = Ask(session, r)
                     /\ asked' = asked \cup {r}
                     /\ sent' = Append(sent, Prompt(r))
                     /\ UNCHANGED BackendVars

\* ... or by drive() itself.
AskFromDrive(r) == /\ session.runner = "running"
                   /\ session.own = NoRequest
                   /\ r \notin asked
                   /\ session' = AskInline(session, r)
                   /\ asked' = asked \cup {r}
                   /\ sent' = Append(sent, Prompt(r))
                   /\ UNCHANGED BackendVars

\* drive() returns, or unwinds from a cancel.  Requests made by other tasks
\* may still be open.
Return == /\ Driving(session)
          /\ session.own = NoRequest
          /\ session' = RunnerReturns(session)
          /\ sent' = Append(sent, Sentinel)
          /\ UNCHANGED <<asked, BackendVars>>

\* drive() raises.
Fail == /\ Driving(session)
        /\ session.own = NoRequest
        /\ session' = RunnerFails(session)
        /\ sent' = Append(Append(sent, Failure), Sentinel)
        /\ UNCHANGED <<asked, BackendVars>>
-----------------------------------------------------------------------------
(***************************************************************************)
(* The consumer: drain() and what _pump does around it.                    *)
(***************************************************************************)
\* What the consumer leaves alone.
ConsumerVars == <<asked, sent>>

\* drain takes an ordinary event, yields it, and goes back to the queue.
TakeOutput == /\ consumer = "draining"
              /\ session.queue # <<>>
              /\ Head(session.queue) = Output
              /\ session' = Take(session)
              /\ received' = received + 1
              /\ UNCHANGED <<consumer, surfacing, decided, ConsumerVars>>

\* drain yields a prompt; _pump publishes it, which may suspend.
TakePrompt == /\ consumer = "draining"
              /\ session.queue # <<>>
              /\ Head(session.queue).kind = "request"
              /\ session' = Take(session)
              /\ surfacing' = Head(session.queue).id
              /\ consumer' = "surfacing"
              /\ received' = received + 1
              /\ UNCHANGED <<decided, ConsumerVars>>

\* Asked for its next item, drain records the request and returns.
Pause == /\ consumer = "surfacing"
         /\ session' = Park(session, surfacing)
         /\ surfacing' = NoRequest
         /\ consumer' = "paused"
         /\ UNCHANGED <<received, decided, ConsumerVars>>

\* The sentinel, or the error the run died of: drain is over.
TakeEnd == /\ consumer = "draining"
           /\ session.queue # <<>>
           /\ Head(session.queue) \in {Failure, Sentinel}
           /\ session' = End(session)
           /\ consumer' = "ended"
           /\ received' = received + 1
           /\ UNCHANGED <<surfacing, decided, ConsumerVars>>

\* The caller's answer, which settles what the session is parked on, and a
\* new drain.
Answer == /\ consumer = "paused"
          /\ IsParked(session)
          /\ session' = Resolve(session, session.lastRequest)
          /\ decided' = IF session.lastRequest \in session.waiting
                          THEN decided \cup {session.lastRequest}
                          ELSE decided
          /\ consumer' = "draining"
          /\ UNCHANGED <<surfacing, received, ConsumerVars>>

\* The task running _pump is cancelled: it aborts the session on its way out.
Abort == /\ consumer \in {"draining", "surfacing"}
         /\ session.runner # "created" \/ EarlyCancel
         /\ session' = CancelRunner(session)
         /\ consumer' = "cancelled"
         /\ surfacing' = NoRequest
         /\ UNCHANGED <<received, decided, ConsumerVars>>
-----------------------------------------------------------------------------
(***************************************************************************)
(* The closer.                                                             *)
(***************************************************************************)
\* What the closer leaves alone.
CloserVars == <<consumer, surfacing, asked, sent, received, decided>>

Close == /\ session.closer = "no"
         /\ session.runner # "created" \/ EarlyCancel
         /\ session' = BeginClose(session)
         /\ UNCHANGED CloserVars

\* slip: close() returns without awaiting the runner it cancelled
BugKeepClosing == /\ session.closer \in {"asking", "winding", "joining"}
                  /\ session' = IF session.closer = "joining"
                                  THEN [ClearPending(session) EXCEPT !.closer = "closed"]
                                  ELSE ContinueClose(session)
                  /\ UNCHANGED CloserVars

KeepClosing == /\ CloseGoesOn(session)
               /\ session' = ContinueClose(session)
               /\ UNCHANGED CloserVars

Interrupt == /\ session.closer \in {"asking", "winding", "joining"}
             /\ session' = InterruptClose(session)
             /\ UNCHANGED CloserVars
-----------------------------------------------------------------------------
Backend  == \/ Begin \/ Register \/ Speak \/ Return \/ Fail
            \/ \E r \in Requests : AskFromHandler(r) \/ AskFromDrive(r)
Consumer == TakeOutput \/ TakePrompt \/ Pause \/ TakeEnd \/ Answer \/ Abort
Closer   == Close \/ KeepClosing \/ Interrupt

Next == Backend \/ Consumer \/ Closer

Spec == Init /\ [][Next]_vars

(***************************************************************************)
(* Fairness: the event loop runs what is ready, both timeouts fire, a      *)
(* cancelled driver unwinds.  Nothing is assumed of the agent while it     *)
(* runs, nor of the caller who may answer or never come back.              *)
(***************************************************************************)
Fairness ==
  /\ WF_vars(Begin)
  /\ WF_vars(TakeOutput \/ TakePrompt \/ TakeEnd)
  /\ WF_vars(Pause)
  /\ WF_vars(KeepClosing)
  /\ WF_vars(session.runner = "cancelling" /\ (Return \/ Fail))

FairSpec == Spec /\ Fairness
-----------------------------------------------------------------------------
TypeOK == /\ session \in Sessions
          /\ consumer \in Consumers
          /\ surfacing \in Requests \cup {NoRequest}
          /\ asked \subseteq Requests
          /\ sent \in Seq(Items)
          /\ received \in Nat
          /\ decided \subseteq Requests

\* A run that is over has told its consumer, or will: until drain has seen the
\* end, the sentinel is the last thing on the queue, whatever way the run
\* ended (session.py start: "a pending cancellation cannot stop the sentinel
\* from reaching a blocked drain()").
SentinelReaches ==
  ~Alive(session) /\ ~session.done =>
    /\ session.queue # <<>>
    /\ session.queue[Len(session.queue)] = Sentinel

\* Nothing is put after the sentinel, so drain never leaves an event behind:
\* the only item that may be left is the sentinel behind an error.
NothingLeftBehind ==
  session.done => session.queue \in {<<>>, <<Sentinel>>}

\* Whoever waits in request_permission can still be answered: its prompt is
\* being published, or is the one the session is parked on, or is queued for a
\* consumer that will get to it.  Two asks at once must not lose one of them,
\* and an answer must not skip one.  A cancelled consumer or a close leaves
\* waiters behind on purpose, for the cancel or close's finally to wake.
WaitersAreReachable ==
  consumer # "cancelled" /\ session.closer = "no" =>
    \A r \in session.waiting :
      \/ r = surfacing
      \/ consumer = "paused" /\ r = session.lastRequest
      \/ /\ \E i \in 1..Len(session.queue) : session.queue[i] = Prompt(r)
         /\ consumer \in {"draining", "surfacing"} \/ IsParked(session)

\* A decision only ever settles a request whose prompt drain has yielded, and
\* so never one the caller was not shown.
OnlyShownIsDecided ==
  \A r \in decided : \E i \in 1..received : sent[i] = Prompt(r)

\* Once close() has returned the run is over and nobody is left suspended in
\* request_permission.
ClosedMeansOver ==
  session.closer = "closed" => ~Alive(session) /\ session.waiting = {}
                                       /\ session.pending = {}

\* A close that was itself cancelled still wakes every waiter (its finally).
AbandonedWakes == [][session'.closer = "abandoned" /\ session.closer # "abandoned"
                       => session'.waiting = {}]_vars

\* close() always returns, whatever the agent does with the request to stop.
CloseReturns == session.closer # "no" ~> session.closer \in {"closed", "abandoned"}

\* When the run is over, a consumer that is draining gets to the end of it, or
\* to a prompt it stops at.
DrainReturns ==
  consumer = "draining" /\ ~Alive(session) ~> consumer # "draining"

(***************************************************************************)
(* What the session promises its consumer (module Conversation).           *)
(***************************************************************************)
openPrompt == IF consumer = "surfacing" THEN surfacing
              ELSE IF consumer = "paused" THEN session.lastRequest
              ELSE NoRequest

Promise == INSTANCE Conversation WITH said  <- sent,
                                      heard <- received,
                                      open  <- openPrompt

KeepsPromise == Promise!Spec
-----------------------------------------------------------------------------
(***************************************************************************)
(* What the safety properties rest on (module SessionProofs): how the      *)
(* queue, the prompts on it and the requests that wait lie to each other.  *)
(***************************************************************************)
IsPrompt(item) == item.kind = "request"

\* The queue is what was sent and is not yet received.
QueueIsRest ==
  /\ received <= Len(sent)
  /\ Len(session.queue) = Len(sent) - received
  /\ \A i \in 1..Len(session.queue) : session.queue[i] = sent[received + i]

\* An error is followed by the sentinel, the sentinel by nothing, and both
\* come from a runner that is done.
EndsAreLast ==
  \A i \in 1..Len(sent) :
    /\ sent[i] = Sentinel => i = Len(sent) /\ ~Alive(session)
    /\ sent[i] = Failure  => /\ i = Len(sent) - 1 /\ ~Alive(session)
                             /\ sent[i + 1] = Sentinel

\* drain is over exactly when one of them was received.
DoneIsEnd ==
  /\ session.done <=> consumer = "ended"
  /\ session.done => received >= 1 /\ sent[received] \in {Failure, Sentinel}
  /\ ~session.done => \A i \in 1..received : sent[i] \notin {Failure, Sentinel}

\* A run whose first step came before any cancel ends in the sentinel.
OverIsSent ==
  ~EarlyCancel =>
    /\ session.runner = "created" => session.closer = "no"
    /\ ~Alive(session) => sent # <<>> /\ sent[Len(sent)] = Sentinel

\* A request is asked once, and waits only if it was asked.
AskedOnce ==
  /\ \A i \in 1..Len(sent) : IsPrompt(sent[i]) => sent[i].id \in asked
  /\ \A i, j \in 1..Len(sent) : IsPrompt(sent[i]) /\ sent[i] = sent[j] => i = j
  /\ \A r \in session.waiting : \E i \in 1..Len(sent) : sent[i] = Prompt(r)
  /\ session.waiting \subseteq session.pending
  /\ session.pending \subseteq asked

\* Only a runner under way awaits a request of its own; close() has returned
\* only when it is done and nothing is pending.
CloseIsClean ==
  /\ session.runner \in {"created", "finished"} => session.own = NoRequest
  /\ session.closer = "closed" => ~Alive(session) /\ session.pending = {}

\* The consumer is at the prompt it took last, which alone of those it has
\* taken may be undecided; that one and those to come can still be answered
\* until a close.
PromptInHand ==
  /\ consumer = "surfacing" => /\ received >= 1
                               /\ surfacing \in Requests
                               /\ sent[received] = Prompt(surfacing)
  /\ consumer # "surfacing" => surfacing = NoRequest
  /\ consumer = "paused" => /\ received >= 1
                            /\ session.lastRequest \in Requests
                            /\ sent[received] = Prompt(session.lastRequest)
  /\ consumer # "cancelled" =>
       \A i \in 1..received :
         IsPrompt(sent[i]) /\ sent[i].id \in session.waiting
           => i = received /\ consumer \in {"surfacing", "paused"}
  /\ session.closer = "no" =>
       \A i \in 1..Len(sent) :
         /\ IsPrompt(sent[i])
         /\ \/ i > received
            \/ i = received /\ consumer \in {"surfacing", "paused"}
         => sent[i].id \in session.pending
=============================================================================
