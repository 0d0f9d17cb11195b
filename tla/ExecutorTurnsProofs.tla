-------------------------- MODULE ExecutorTurnsProofs --------------------------
(***************************************************************************)
(* What the executor promises its callers, for every number of tasks,      *)
(* calls, runs and requests: theorems about Executor.                      *)
(*                                                                         *)
(* The argument goes through one inductive invariant, ExecutorInv.  Its    *)
(* parts, each proved from itself and the ones before it: runs (RunsInv),  *)
(* calls of one task (SerialInv), streams (StreamInv), sessions (SessInv), *)
(* pumps (PumpInv), calls at work and the entries of their runs (WorkInv), *)
(* requests settled (SettledInv), what callers were told (TasksInv), runs  *)
(* held (HeldInv).  A part mostly comes with an operator that says how any *)
(* step changes what the part is about (CallsGo, SessionsGo, TasksGo...),  *)
(* proved by going through the actions; the part itself is then proved     *)
(* without looking at them.                                                *)
(***************************************************************************)
EXTENDS ExecutorProofs

(***************************************************************************)
(* The invariant, part by part.  Runs: who started them, and which are in  *)
(* the table.                                                              *)
(***************************************************************************)
InterruptedInv ==
  \A c \in Cs : calls[c].interrupted => /\ calls[c].pc \in Unfinished
                                        /\ calls[c].task \in Cancels
                                        /\ tasks[calls[c].task].cancelled

\* Every run was started by a call, and has one task.
StartedInv ==
  /\ \A r \in Runs : \E c \in Cs : calls[c].run = r
  /\ \A c, d \in Cs : calls[c].run = calls[d].run /\ calls[c].run # None
                        => calls[c].task = calls[d].task

\* A run in the table is its task's, neither evicted nor being closed.
LiveInv ==
  \A t, r : Has(live, t, r) =>
    /\ r \notin evicted
    /\ sessions[r].closer = "no"
    /\ \A c \in Cs : calls[c].run = r => calls[c].task = t

RunsInv == InterruptedInv /\ StartedInv /\ LiveInv

\* In turn, a call begins when those before it are over.
SerialInv ==
  \A c, d \in Cs :
    /\ c < d /\ calls[c].task = calls[d].task /\ calls[c].task \in InTurn
    /\ calls[d].pc \in Unfinished
    => calls[c].pc \in Finished

\* A stream has one task.
Uses(t, s) == \/ streamOf[t] = s
              \/ \E c \in Cs : calls[c].task = t /\ calls[c].stream = s

StreamInv ==
  \A t, u \in Tasks : \A s \in 1..Len(streams) : Uses(t, s) /\ Uses(u, s) => t = u

\* No run is in the table for two tasks.
LEMMA LiveTask ==
  ASSUME BaseInv, RunsInv, NEW t, NEW u, NEW r, Has(live, t, r), Has(live, u, r)
  PROVE  t = u /\ r \in Runs
<1>1. r \in Runs
  BY DEF BaseInv, RangeInv, TablesInRange
<1>2. PICK c \in Cs : calls[c].run = r
  BY <1>1 DEF RunsInv, StartedInv
<1>3. calls[c].task = t /\ calls[c].task = u
  BY <1>2 DEF RunsInv, LiveInv
<1> QED
  BY <1>1, <1>3

\* In turn no two calls are at work.
LEMMA Alone ==
  ASSUME SerialInv, NEW c \in Cs, NEW d \in Cs, calls[c].task = calls[d].task,
         calls[c].task \in InTurn, calls[c].pc \in Unfinished, calls[d].pc \in Unfinished
  PROVE  c = d
<1>1. calls[c].pc \notin Finished /\ calls[d].pc \notin Finished
  BY DEF Unfinished, Finished
<1>2. ~(c < d) /\ ~(d < c)
  BY <1>1 DEF SerialInv
<1> QED
  BY <1>2 DEF Cs

\* A call whose turn it is finds none at work.
LEMMA TurnAlone ==
  ASSUME SerialInv, NEW c \in Cs, Turn(c), calls[c].task \in InTurn, calls[c].pc = "queued"
  PROVE  \A d \in Cs : calls[d].task = calls[c].task => calls[d].pc \notin Unfinished
<1> SUFFICES ASSUME NEW d \in Cs, calls[d].task = calls[c].task, calls[d].pc \in Unfinished
             PROVE  FALSE
  OBVIOUS
<1>1. calls[d].pc \notin Finished /\ calls[c].pc \notin Finished /\ c # d
  BY DEF Unfinished, Finished
<1>2. ~(c < d)
  BY <1>1 DEF SerialInv
<1>3. d \in 1..(c - 1)
  BY <1>1, <1>2 DEF Cs
<1> QED
  BY <1>1, <1>3 DEF Turn, InTurn

\* What a step that publishes a state on the queue of t does to the tasks.
LEMMA PublishSteps ==
  ASSUME BaseInv, NEW t \in Tasks, NEW state \in {"working", "failed", "completed"},
         TaskSteps(t, Published(tasks[t], state))
  PROVE  \A u \in Tasks : /\ tasks'[u].cancelled = tasks[u].cancelled
                          /\ tasks'[u].open = tasks[u].open
                          /\ tasks'[u].shown = tasks[u].shown
<1>1. tasks[t] \in TaskInfo /\ state \in States
  BY Facts, StatesAre
<1>2. /\ Published(tasks[t], state).shown = tasks[t].shown
      /\ Published(tasks[t], state).open = tasks[t].open
      /\ Published(tasks[t], state).cancelled = tasks[t].cancelled
  BY <1>1, PublishedIs
<1> QED
  BY <1>2 DEF TaskSteps

\* ... or a prompt leaves who is cancelled, and what is open, alone.
LEMMA AskSteps ==
  ASSUME BaseInv, NEW t \in Tasks, NEW q \in Requests \cup {NoRequest},
         TaskSteps(t, Asked(tasks[t], q))
  PROVE  \A u \in Tasks : /\ tasks'[u].cancelled = tasks[u].cancelled
                          /\ tasks'[u].open = tasks[u].open
                          /\ tasks'[u].endings = tasks[u].endings
<1>1. tasks[t] \in TaskInfo
  BY Facts
<1>2. /\ Asked(tasks[t], q).open = tasks[t].open
      /\ Asked(tasks[t], q).cancelled = tasks[t].cancelled
      /\ Asked(tasks[t], q).endings = tasks[t].endings
  BY <1>1, AskedIs
<1> QED
  BY <1>2 DEF TaskSteps

CancelledStays == \A t \in Tasks : tasks[t].cancelled => tasks'[t].cancelled

\* A cancelled task stays cancelled.
LEMMA CancelledStep ==
  ASSUME BaseInv, [Next]_vars
  PROVE  CancelledStays
<1>t. \A c \in Cs : calls[c].task \in Tasks
  BY Facts
<1>a. ASSUME tasks' = tasks PROVE CancelledStays
  BY <1>a DEF CancelledStays
<1>b. ASSUME NEW t \in Tasks, NEW state \in {"working", "failed", "completed"},
             TaskSteps(t, Published(tasks[t], state))
      PROVE  CancelledStays
  BY <1>b, PublishSteps DEF CancelledStays
<1>c. ASSUME NEW t \in Tasks, NEW q \in Requests \cup {NoRequest}, TaskSteps(t, Asked(tasks[t], q))
      PROVE  CancelledStays
  BY <1>c, AskSteps DEF CancelledStays
<1>d. ASSUME NEW t \in Tasks, TaskSteps(t, tasks'[t]), tasks'[t].cancelled = tasks[t].cancelled
      PROVE  CancelledStays
  BY <1>d DEF CancelledStays, TaskSteps
<1>1. ASSUME NEW t \in Tasks, Deliver(t) PROVE CancelledStays
  BY <1>1, DeliverDoes, <1>a
<1>2. ASSUME NEW t \in Tasks, Cancel(t) PROVE CancelledStays
  BY <1>2, CancelDoes DEF CancelledStays, TaskSteps
<1>3. ASSUME NEW c \in Cs, Execute(c) PROVE CancelledStays
  <2>1. CASE Greet(c) \/ GetLock(c) \/ Evict(c) \/ AwaitVictim(c) \/
     Admit(c) \/ Raise(c) \/ Accept(c) \/ PumpPrompt(c) \/ PumpEnd(c)
    BY <2>1, GreetDoes, GetLockDoes, EvictDoes, AwaitVictimDoes,
       AdmitDoes, RaiseDoes, AcceptDoes, PumpPromptDoes, PumpEndDoes, <1>a
  <2>2. CASE Acquire(c) \/ Settle(c) \/ PumpOutput(c) \/ PumpFailure(c) \/
     PumpEvicted(c) \/ Complete(c)
    BY <2>2, AcquireDoes, SettleDoes, PumpOutputDoes, PumpFailureDoes,
       PumpEvictedDoes, CompleteDoes, <1>b, <1>t
  <2>3. CASE Refuse(c)
    <3>1. TaskSteps(calls[c].task, Asked(tasks[calls[c].task], streams[streamOf[calls[c].task]].asked))
      BY <2>3, RefuseDoes
    <3>2. streams[streamOf[calls[c].task]].asked \in Requests \cup {NoRequest}
      BY <2>3, RefuseDoes, Facts
    <3> QED
      BY <1>c, <1>t, <3>1, <3>2
  <2>4. CASE PumpPause(c)
    <3>1. TaskSteps(calls[c].task, Asked(tasks[calls[c].task], streams[calls[c].stream].asked))
      BY <2>4, PumpPauseDoes
    <3>2. streams[calls[c].stream].asked \in Requests \cup {NoRequest}
      BY <2>4, PumpPauseDoes, Facts
    <3> QED
      BY <1>c, <1>t, <3>1, <3>2
  <2> QED
    BY <1>3, <2>1, <2>2, <2>3, <2>4 DEF Execute
<1>4. ASSUME NEW c \in Cs, Interrupt(c) PROVE CancelledStays
  <2>1. CASE SwallowCancel(c)
    BY <2>1, SwallowCancelDoes, <1>a
  <2>2. CASE InterruptPublishing(c) \/ InterruptWaiting(c)
    <3>1. QueueCloses(calls[c].task) /\ calls[c].task \in Tasks
      BY <2>2, <1>t, InterruptQuietDoes
    <3> QED
      BY <1>d, <3>1, QueueClosesIs
  <2>3. CASE InterruptEvicting(c)
    <3>1. /\ calls[c].task \in Tasks /\ tasks[calls[c].task] \in TaskInfo
          /\ TaskSteps(calls[c].task, [tasks[calls[c].task] EXCEPT !.open = FALSE])
      BY <2>3, <1>t, InterruptEvictingDoes, Facts
    <3> QED
      BY <3>1 DEF TaskSteps, CancelledStays, TaskInfo
  <2>4. CASE InterruptPump(c)
    BY <2>4, InterruptPumpDoes, <1>d, <1>t
  <2> QED
    BY <1>4, <2>1, <2>2, <2>3, <2>4 DEF Interrupt
<1>5. ASSUME NEW r \in Runs, Run(r) PROVE CancelledStays
  <2>1. CASE Begin(r) \/ Register(r) \/ Speak(r) \/ Return(r) \/ Fail(r)
    BY <2>1, RunnerDoes, <1>a
  <2>2. ASSUME NEW q \in Requests, AskPermission(r, q) PROVE CancelledStays
    BY <2>2, AskPermissionDoes, <1>a
  <2> QED
    BY <1>5, <2>1, <2>2 DEF Run
<1>6. ASSUME NEW r \in Runs, KeepClosing(r) PROVE CancelledStays
  BY <1>6, KeepClosingDoes, <1>a
<1>7. CASE UNCHANGED vars
  BY <1>7, <1>a DEF vars
<1> QED
  BY <1>1, <1>2, <1>3, <1>4, <1>5, <1>6, <1>7 DEF Next, Cs

\* Only calls at work on a cancelled task are interrupted.
LEMMA InterruptedStep ==
  ASSUME BaseInv, InterruptedInv, [Next]_vars
  PROVE  InterruptedInv'
<1>0. CancelledStays /\ \A c \in Cs : calls[c].task \in Tasks
  BY CancelledStep, Facts
<1>l. Len(calls) \in Nat
  BY Facts
<1>a. ASSUME NEW c \in Cs, NEW pc, NEW run, NEW stream, CallSteps(c, pc, run, stream),
             ~calls'[c].interrupted
      PROVE  InterruptedInv'
  BY <1>a, <1>0 DEF InterruptedInv, CallSteps, Cs, CancelledStays
<1>b. ASSUME calls' = calls PROVE InterruptedInv'
  BY <1>b, <1>0 DEF InterruptedInv, Cs, CancelledStays
<1>1. ASSUME NEW t \in Tasks, Deliver(t) PROVE InterruptedInv'
  <2> DEFINE n == Len(calls) + 1
  <2>1. /\ Len(calls') = n /\ calls'[n].interrupted = FALSE
        /\ \A d \in Cs : calls'[d] = calls[d]
    BY <1>1, DeliverDoes
  <2>2. \A d \in 1..Len(calls') : d \in Cs \/ d = n
    BY <1>l, <2>1 DEF Cs
  <2> HIDE DEF n
  <2>3. \A d \in 1..Len(calls') :
          calls'[d].interrupted => /\ calls'[d].pc \in Unfinished
                                   /\ calls'[d].task \in Cancels
                                   /\ tasks'[calls'[d].task].cancelled
    BY <1>0, <2>1, <2>2 DEF InterruptedInv, CancelledStays
  <2> QED
    BY <2>3 DEF InterruptedInv, Cs
<1>2. ASSUME NEW t \in Tasks, Cancel(t) PROVE InterruptedInv'
  <2>1. CallsOfCancelled(t) /\ t \in Cancels /\ tasks'[t].cancelled
    BY <1>2, CancelDoes
  <2>2. ASSUME NEW d \in Cs, calls'[d].interrupted
        PROVE  /\ calls'[d].pc \in Unfinished
               /\ calls'[d].task \in Cancels
               /\ tasks'[calls'[d].task].cancelled
    <3>1. CASE InProgress(d, t)
      BY <2>1, <3>1 DEF CallsOfCancelled, InProgress, Unfinished
    <3>2. CASE calls[d].interrupted
      BY <1>0, <2>1, <3>2 DEF CallsOfCancelled, InterruptedInv, Unfinished, CancelledStays
    <3> QED
      BY <2>1, <2>2, <3>1, <3>2 DEF CallsOfCancelled
  <2> QED
    BY <2>1, <2>2 DEF InterruptedInv, CallsOfCancelled, Cs
<1>3. ASSUME NEW c \in Cs, Execute(c) PROVE InterruptedInv'
  <2>1. CASE Greet(c) \/ GetLock(c) \/ Raise(c) \/ Refuse(c)
    BY <2>1, GreetDoes, GetLockDoes, RaiseDoes, RefuseDoes, <1>a
  <2>2. CASE PumpPrompt(c) \/ PumpPause(c) \/ PumpFailure(c) \/
     PumpEvicted(c) \/ PumpEnd(c) \/ Complete(c)
    BY <2>2, PumpPromptDoes, PumpPauseDoes, PumpFailureDoes,
       PumpEvictedDoes, PumpEndDoes, CompleteDoes, <1>a
  <2>3. CASE PumpOutput(c)
    BY <2>3, PumpOutputDoes, <1>b
  <2>4. CASE Acquire(c)
    <3>1. PICK pc : CallSteps(c, pc, calls[c].run, calls[c].stream)
      BY <2>4, AcquireDoes
    <3>2. ~calls'[c].interrupted
      BY <2>4, AcquireDoes
    <3> QED
      BY <1>a, <3>1, <3>2
  <2>5. CASE Evict(c)
    <3>1. PICK pc : CallSteps(c, pc, calls[c].run, calls[c].stream)
      BY <2>5, EvictDoes
    <3>2. ~calls'[c].interrupted
      BY <2>5, EvictDoes
    <3> QED
      BY <1>a, <3>1, <3>2
  <2>6. CASE AwaitVictim(c)
    <3>1. PICK pc : CallSteps(c, pc, calls[c].run, calls[c].stream)
      BY <2>6, AwaitVictimDoes
    <3>2. ~calls'[c].interrupted
      BY <2>6, AwaitVictimDoes
    <3> QED
      BY <1>a, <3>1, <3>2
  <2>7. CASE Admit(c)
    BY <2>7, AdmitDoes, <1>a
  <2>8. CASE Accept(c)
    <3>1. PICK r \in Runs : CallSteps(c, "answering", r, streamOf[calls[c].task])
      BY <2>8, AcceptDoes
    <3>2. ~calls'[c].interrupted
      BY <2>8, AcceptDoes
    <3> QED
      BY <1>a, <3>1, <3>2
  <2>9. CASE Settle(c)
    <3>1. ~calls'[c].interrupted
      BY <2>9, SettleDoes
    <3>2. \/ CallSteps(c, "draining", calls[c].run, StreamFor(calls[c].task))
          \/ CallSteps(c, "raised", calls[c].run, calls[c].stream)
      BY <2>9, SettleDoes
    <3> QED
      BY <1>a, <3>1, <3>2
  <2> QED
    BY <1>3, <2>1, <2>2, <2>3, <2>4, <2>5, <2>6, <2>7, <2>8, <2>9 DEF
       Execute
<1>4. ASSUME NEW c \in Cs, Interrupt(c) PROVE InterruptedInv'
  <2>1. CASE InterruptPublishing(c) \/ InterruptWaiting(c)
    BY <2>1, InterruptQuietDoes, <1>a
  <2>2. CASE InterruptEvicting(c) \/ SwallowCancel(c)
    BY <2>2, InterruptEvictingDoes, SwallowCancelDoes, <1>a
  <2>3. CASE InterruptPump(c)
    BY <2>3, InterruptPumpDoes, <1>a
  <2> QED
    BY <1>4, <2>1, <2>2, <2>3 DEF Interrupt
<1>5. ASSUME NEW r \in Runs, Run(r) PROVE InterruptedInv'
  <2>1. CASE Begin(r) \/ Register(r) \/ Speak(r) \/ Return(r) \/ Fail(r)
    BY <2>1, RunnerDoes, <1>b
  <2>2. ASSUME NEW q \in Requests, AskPermission(r, q) PROVE InterruptedInv'
    BY <2>2, AskPermissionDoes, <1>b
  <2> QED
    BY <1>5, <2>1, <2>2 DEF Run
<1>6. ASSUME NEW r \in Runs, KeepClosing(r) PROVE InterruptedInv'
  BY <1>6, KeepClosingDoes, <1>b
<1>7. CASE UNCHANGED vars
  BY <1>7, <1>b DEF vars
<1> QED
  BY <1>1, <1>2, <1>3, <1>4, <1>5, <1>6, <1>7 DEF Next, Cs

\* Calls keep what they are about; one that is over stays so, one begins in its
\* turn only.
CallsGoOn ==
  \A d \in Cs :
    /\ calls'[d].task = calls[d].task
    /\ calls'[d].message = calls[d].message
    /\ calls'[d].echo = calls[d].echo
    /\ calls[d].pc \in Finished => calls'[d].pc \in Finished
    /\ calls'[d].pc \in Unfinished
         => calls[d].pc \in Unfinished \/ (calls[d].pc = "queued" /\ Turn(d))

\* Every step moves the calls on that way.
LEMMA CallsGoOnStep ==
  ASSUME BaseInv, [Next]_vars
  PROVE  CallsGoOn
<1>a. ASSUME NEW c \in Cs, NEW pc, NEW run, NEW stream, CallSteps(c, pc, run, stream),
             calls[c].pc \in Finished => pc \in Finished,
             pc \in Unfinished => calls[c].pc \in Unfinished \/ (calls[c].pc = "queued" /\ Turn(c))
      PROVE  CallsGoOn
  BY <1>a DEF CallSteps, CallsGoOn
<1>b. ASSUME calls' = calls PROVE CallsGoOn
  BY <1>b DEF CallsGoOn
<1>1. ASSUME NEW t \in Tasks, Deliver(t) PROVE CallsGoOn
  <2>1. \A d \in Cs : calls'[d] = calls[d]
    BY <1>1, DeliverDoes
  <2> QED
    BY <2>1 DEF CallsGoOn
<1>2. ASSUME NEW t \in Tasks, Cancel(t) PROVE CallsGoOn
  <2>1. CallsOfCancelled(t)
    BY <1>2, CancelDoes
  <2> QED
    BY <2>1 DEF CallsOfCancelled, CallsGoOn, Unfinished, Finished
<1>3. ASSUME NEW c \in Cs, Execute(c) PROVE CallsGoOn
  <2>1. CASE Greet(c)
    <3>1. CallSteps(c, "greeting", calls[c].run, calls[c].stream) /\ calls[c].pc = "queued" /\ Turn(c)
      BY <2>1, GreetDoes
    <3> QED
      BY <1>a, <3>1 DEF Unfinished, Finished
  <2>2. CASE Acquire(c)
    <3>1. PICK pc \in {"waiting", "admitting", "evicting"} : CallSteps(c, pc, calls[c].run, calls[c].stream)
      BY <2>2, AcquireDoes
    <3>2. calls[c].pc = "greeting"
      BY <2>2, AcquireDoes
    <3> QED
      BY <1>a, <3>1, <3>2 DEF Unfinished, Finished
  <2>3. CASE GetLock(c)
    <3>1. CallSteps(c, "admitting", calls[c].run, calls[c].stream) /\ calls[c].pc = "waiting"
      BY <2>3, GetLockDoes
    <3> QED
      BY <1>a, <3>1 DEF Unfinished, Finished
  <2>4. CASE Evict(c)
    <3>1. PICK pc \in {"waiting", "admitting", "evicting"} : CallSteps(c, pc, calls[c].run, calls[c].stream)
      BY <2>4, EvictDoes
    <3>2. calls[c].pc = "admitting"
      BY <2>4, EvictDoes
    <3> QED
      BY <1>a, <3>1, <3>2 DEF Unfinished, Finished
  <2>5. CASE AwaitVictim(c)
    <3>1. PICK pc \in {"waiting", "admitting", "evicting"} : CallSteps(c, pc, calls[c].run, calls[c].stream)
      BY <2>5, AwaitVictimDoes
    <3>2. calls[c].pc = "evicting"
      BY <2>5, AwaitVictimDoes
    <3> QED
      BY <1>a, <3>1, <3>2 DEF Unfinished, Finished
  <2>6. CASE Admit(c)
    <3>1. CallSteps(c, "draining", Len(sessions) + 1, StreamFor(calls[c].task)) /\ calls[c].pc = "admitting"
      BY <2>6, AdmitDoes
    <3> QED
      BY <1>a, <3>1 DEF Unfinished, Finished
  <2>7. CASE Raise(c)
    <3>1. CallSteps(c, "raised", calls[c].run, calls[c].stream) /\ calls[c].pc = "queued"
      BY <2>7, RaiseDoes
    <3> QED
      BY <1>a, <3>1 DEF Unfinished, Finished
  <2>8. CASE Refuse(c)
    <3>1. CallSteps(c, "refused", calls[c].run, calls[c].stream) /\ calls[c].pc = "queued"
      BY <2>8, RefuseDoes
    <3> QED
      BY <1>a, <3>1 DEF Unfinished, Finished
  <2>9. CASE Accept(c)
    <3>1. PICK r \in Runs : CallSteps(c, "answering", r, streamOf[calls[c].task])
      BY <2>9, AcceptDoes
    <3>2. calls[c].pc = "queued" /\ Turn(c)
      BY <2>9, AcceptDoes
    <3> QED
      BY <1>a, <3>1, <3>2 DEF Unfinished, Finished
  <2>10. CASE Settle(c)
    <3>1. \/ CallSteps(c, "draining", calls[c].run, StreamFor(calls[c].task))
          \/ CallSteps(c, "raised", calls[c].run, calls[c].stream)
      BY <2>10, SettleDoes
    <3>2. calls[c].pc = "answering"
      BY <2>10, SettleDoes
    <3> QED
      BY <1>a, <3>1, <3>2 DEF Unfinished, Finished
  <2>11. CASE PumpOutput(c)
    BY <2>11, PumpOutputDoes, <1>b
  <2>12. CASE PumpPrompt(c)
    <3>1. CallSteps(c, "publishing", calls[c].run, calls[c].stream) /\ calls[c].pc = "draining"
      BY <2>12, PumpPromptDoes
    <3> QED
      BY <1>a, <3>1 DEF Unfinished, Finished
  <2>13. CASE PumpPause(c)
    <3>1. CallSteps(c, "paused", calls[c].run, calls[c].stream) /\ calls[c].pc = "publishing"
      BY <2>13, PumpPauseDoes
    <3> QED
      BY <1>a, <3>1 DEF Unfinished, Finished
  <2>14. CASE PumpFailure(c)
    <3>1. CallSteps(c, "failed", calls[c].run, calls[c].stream) /\ calls[c].pc = "draining"
      BY <2>14, PumpFailureDoes
    <3> QED
      BY <1>a, <3>1 DEF Unfinished, Finished
  <2>15. CASE PumpEvicted(c)
    <3>1. CallSteps(c, "evicted", calls[c].run, calls[c].stream) /\ calls[c].pc = "draining"
      BY <2>15, PumpEvictedDoes
    <3> QED
      BY <1>a, <3>1 DEF Unfinished, Finished
  <2>16. CASE PumpEnd(c)
    <3>1. CallSteps(c, "closing", calls[c].run, calls[c].stream) /\ calls[c].pc = "draining"
      BY <2>16, PumpEndDoes
    <3> QED
      BY <1>a, <3>1 DEF Unfinished, Finished
  <2>17. CASE Complete(c)
    <3>1. CallSteps(c, "completed", calls[c].run, calls[c].stream) /\ calls[c].pc = "closing"
      BY <2>17, CompleteDoes
    <3> QED
      BY <1>a, <3>1 DEF Unfinished, Finished
  <2> QED
    BY <1>3, <2>1, <2>2, <2>3, <2>4, <2>5, <2>6, <2>7, <2>8, <2>9, <2>10,
       <2>11, <2>12, <2>13, <2>14, <2>15, <2>16, <2>17 DEF Execute
<1>4. ASSUME NEW c \in Cs, Interrupt(c) PROVE CallsGoOn
  <2>1. CASE InterruptPublishing(c)
    <3>1. CallSteps(c, "dropped", calls[c].run, calls[c].stream)
      BY <2>1, InterruptQuietDoes
    <3> QED
      BY <1>a, <3>1 DEF Unfinished, Finished
  <2>2. CASE InterruptWaiting(c)
    <3>1. CallSteps(c, "dropped", calls[c].run, calls[c].stream)
      BY <2>2, InterruptQuietDoes
    <3> QED
      BY <1>a, <3>1 DEF Unfinished, Finished
  <2>3. CASE InterruptEvicting(c)
    <3>1. CallSteps(c, "dropped", calls[c].run, calls[c].stream)
      BY <2>3, InterruptEvictingDoes
    <3> QED
      BY <1>a, <3>1 DEF Unfinished, Finished
  <2>4. CASE SwallowCancel(c)
    <3>1. CallSteps(c, "evicting", calls[c].run, calls[c].stream) /\ calls[c].pc = "evicting"
      BY <2>4, SwallowCancelDoes
    <3> QED
      BY <1>a, <3>1 DEF Unfinished, Finished
  <2>5. CASE InterruptPump(c)
    <3>1. CallSteps(c, "dropped", calls[c].run, calls[c].stream)
      BY <2>5, InterruptPumpDoes
    <3> QED
      BY <1>a, <3>1 DEF Unfinished, Finished
  <2> QED
    BY <1>4, <2>1, <2>2, <2>3, <2>4, <2>5 DEF Interrupt
<1>5. ASSUME NEW r \in Runs, Run(r) PROVE CallsGoOn
  <2>1. CASE Begin(r) \/ Register(r) \/ Speak(r) \/ Return(r) \/ Fail(r)
    BY <2>1, RunnerDoes, <1>b
  <2>2. ASSUME NEW q \in Requests, AskPermission(r, q) PROVE CallsGoOn
    BY <2>2, AskPermissionDoes, <1>b
  <2> QED
    BY <1>5, <2>1, <2>2 DEF Run
<1>6. ASSUME NEW r \in Runs, KeepClosing(r) PROVE CallsGoOn
  BY <1>6, KeepClosingDoes, <1>b
<1>7. CASE UNCHANGED vars
  BY <1>7, <1>b DEF vars
<1> QED
  BY <1>1, <1>2, <1>3, <1>4, <1>5, <1>6, <1>7 DEF Next, Cs

\* The calls after a step: those before it, and one a message may have brought.
LEMMA CallsAfter ==
  ASSUME BaseInv, [Next]_vars, NEW d \in 1..Len(calls')
  PROVE  \/ d \in Cs
         \/ /\ d = Len(calls) + 1 /\ Len(calls') = d
            /\ calls'[d].pc = "queued" /\ calls'[d].run = None /\ calls'[d].stream = None
            /\ calls'[d].interrupted = FALSE
            /\ \/ calls'[d].message = d
               \/ \E e \in Cs : /\ calls'[d].message = calls[e].message
                                /\ calls'[d].echo = calls[e].echo
            /\ \A e \in Cs : calls'[e] = calls[e]
            /\ tasks[calls'[d].task].status \notin Final
            /\ UNCHANGED <<tasks, live, streamOf, sessions, streams, evicted, askedBy, settled>>
<1> DEFINE G == \/ d \in Cs
                \/ /\ d = Len(calls) + 1 /\ Len(calls') = d
                   /\ calls'[d].pc = "queued" /\ calls'[d].run = None /\ calls'[d].stream = None
                   /\ calls'[d].interrupted = FALSE
                   /\ \/ calls'[d].message = d
                      \/ \E e \in Cs : /\ calls'[d].message = calls[e].message
                                       /\ calls'[d].echo = calls[e].echo
                   /\ \A e \in Cs : calls'[e] = calls[e]
                   /\ tasks[calls'[d].task].status \notin Final
                   /\ UNCHANGED <<tasks, live, streamOf, sessions, streams, evicted, askedBy,
                                  settled>>
<1>l. Len(calls) \in Nat
  BY Facts
<1>a. ASSUME NEW c, NEW pc, NEW run, NEW stream, CallSteps(c, pc, run, stream) PROVE G
  BY <1>a DEF CallSteps, Cs
<1>b. ASSUME calls' = calls PROVE G
  BY <1>b DEF Cs
<1>c. ASSUME NEW t \in Tasks, Deliver(t) PROVE G
  <2> DEFINE n == Len(calls) + 1
  <2>1. /\ Len(calls') = n /\ calls'[n].pc = "queued" /\ calls'[n].run = None
        /\ calls'[n].stream = None /\ calls'[n].interrupted = FALSE
        /\ calls'[n].task = t /\ tasks[t].status \notin Final
        /\ \A e \in Cs : calls'[e] = calls[e]
        /\ UNCHANGED <<tasks, live, streamOf, sessions, streams, evicted, askedBy, settled>>
    BY <1>c, DeliverDoes
  <2>2. \/ calls'[n].message = n
        \/ \E e \in Cs : /\ calls'[n].message = calls[e].message
                         /\ calls'[n].echo = calls[e].echo
    BY <1>c, DeliverDoes
  <2>3. d \in Cs \/ d = n
    BY <1>l, <2>1 DEF Cs
  <2> HIDE DEF n
  <2>4. n = Len(calls) + 1
    BY DEF n
  <2> QED
    BY <2>1, <2>2, <2>3, <2>4
<1>d. ASSUME NEW t \in Tasks, Cancel(t) PROVE G
  <2>1. Len(calls') = Len(calls)
    BY <1>d, CancelDoes DEF CallsOfCancelled
  <2> QED
    BY <2>1 DEF Cs
<1> HIDE DEF G
<1> SUFFICES G
  BY DEF G
<1>1. ASSUME NEW t \in Tasks, Deliver(t) PROVE G
  BY <1>c, <1>1
<1>2. ASSUME NEW t \in Tasks, Cancel(t) PROVE G
  BY <1>d, <1>2
<1>3. ASSUME NEW c \in Cs, Execute(c) PROVE G
  <2>1. CASE Greet(c) \/ GetLock(c) \/ Raise(c) \/ Refuse(c) \/ Admit(c)
    BY <2>1, GreetDoes, GetLockDoes, RaiseDoes, RefuseDoes, AdmitDoes,
       <1>a
  <2>2. CASE PumpPrompt(c) \/ PumpPause(c) \/ PumpFailure(c) \/
     PumpEvicted(c) \/ PumpEnd(c) \/ Complete(c)
    BY <2>2, PumpPromptDoes, PumpPauseDoes, PumpFailureDoes,
       PumpEvictedDoes, PumpEndDoes, CompleteDoes, <1>a
  <2>3. CASE PumpOutput(c)
    BY <2>3, PumpOutputDoes, <1>b
  <2>4. CASE Acquire(c)
    <3>1. PICK pc : CallSteps(c, pc, calls[c].run, calls[c].stream)
      BY <2>4, AcquireDoes
    <3> QED
      BY <1>a, <3>1
  <2>5. CASE Evict(c)
    <3>1. PICK pc : CallSteps(c, pc, calls[c].run, calls[c].stream)
      BY <2>5, EvictDoes
    <3> QED
      BY <1>a, <3>1
  <2>6. CASE AwaitVictim(c)
    <3>1. PICK pc : CallSteps(c, pc, calls[c].run, calls[c].stream)
      BY <2>6, AwaitVictimDoes
    <3> QED
      BY <1>a, <3>1
  <2>7. CASE Accept(c)
    <3>1. PICK r \in Runs : CallSteps(c, "answering", r, streamOf[calls[c].task])
      BY <2>7, AcceptDoes
    <3> QED
      BY <1>a, <3>1
  <2>8. CASE Settle(c)
    <3>1. \/ CallSteps(c, "draining", calls[c].run, StreamFor(calls[c].task))
          \/ CallSteps(c, "raised", calls[c].run, calls[c].stream)
      BY <2>8, SettleDoes
    <3> QED
      BY <1>a, <3>1
  <2> QED
    BY <1>3, <2>1, <2>2, <2>3, <2>4, <2>5, <2>6, <2>7, <2>8 DEF Execute
<1>4. ASSUME NEW c \in Cs, Interrupt(c) PROVE G
  <2>1. CASE InterruptPublishing(c) \/ InterruptWaiting(c)
    BY <2>1, InterruptQuietDoes, <1>a
  <2>2. CASE InterruptEvicting(c) \/ SwallowCancel(c) \/ InterruptPump(c)
    BY <2>2, InterruptEvictingDoes, SwallowCancelDoes, InterruptPumpDoes,
       <1>a
  <2> QED
    BY <1>4, <2>1, <2>2 DEF Interrupt
<1>5. ASSUME NEW r \in Runs, Run(r) PROVE G
  <2>1. CASE Begin(r) \/ Register(r) \/ Speak(r) \/ Return(r) \/ Fail(r)
    BY <2>1, RunnerDoes, <1>b
  <2>2. ASSUME NEW q \in Requests, AskPermission(r, q) PROVE G
    BY <2>2, AskPermissionDoes, <1>b
  <2> QED
    BY <1>5, <2>1, <2>2 DEF Run
<1>6. ASSUME NEW r \in Runs, KeepClosing(r) PROVE G
  BY <1>6, KeepClosingDoes, <1>b
<1>7. CASE UNCHANGED vars
  BY <1>7, <1>b DEF vars
<1> QED
  BY <1>1, <1>2, <1>3, <1>4, <1>5, <1>6, <1>7 DEF Next, Cs

\* In turn, the calls of a task are at work one after the other.
LEMMA SerialStep ==
  ASSUME BaseInv, SerialInv, [Next]_vars
  PROVE  SerialInv'
<1> SUFFICES ASSUME NEW c \in 1..Len(calls'), NEW d \in 1..Len(calls'),
                    c < d, calls'[c].task = calls'[d].task, calls'[c].task \in InTurn,
                    calls'[d].pc \in Unfinished
             PROVE  calls'[c].pc \in Finished
  BY DEF SerialInv, Cs
<1>1. CallsGoOn
  BY CallsGoOnStep
<1>2. d \in Cs
  <2>1. CASE d = Len(calls) + 1 /\ calls'[d].pc = "queued"
    BY <2>1 DEF Unfinished
  <2> QED
    BY <2>1, CallsAfter
<1>3. c \in Cs
  BY <1>2, Facts DEF Cs
<1>4. c \in 1..(d - 1)
  BY <1>2, <1>3 DEF Cs
<1>5. calls[c].task = calls[d].task /\ calls[c].task \in InTurn
  BY <1>1, <1>2, <1>3 DEF CallsGoOn
<1>6. calls[c].pc \in Finished
  <2>1. CASE calls[d].pc \in Unfinished
    BY <1>2, <1>3, <1>5, <2>1 DEF SerialInv
  <2>2. CASE calls[d].pc = "queued" /\ Turn(d)
    BY <1>4, <1>5, <2>2 DEF Turn, InTurn
  <2> QED
    BY <1>1, <1>2, <2>1, <2>2 DEF CallsGoOn
<1> QED
  BY <1>1, <1>3, <1>6 DEF CallsGoOn

\* A call comes by its run when it starts one, or finds its task's in the table.
RunsGo ==
  /\ \A d \in Cs : \/ calls'[d].run = calls[d].run
                   \/ /\ calls[d].run = None
                      /\ \/ Has(live, calls[d].task, calls'[d].run)
                         \/ calls'[d].run = Len(sessions) + 1
  /\ \/ Len(sessions') = Len(sessions)
     \/ /\ Len(sessions') = Len(sessions) + 1
        /\ \E c \in Cs : /\ calls'[c].run = Len(sessions) + 1
                         /\ \A d \in Cs : d # c => calls'[d].run = calls[d].run

\* Every step gives runs to calls that way.
LEMMA RunsGoStep ==
  ASSUME BaseInv, [Next]_vars
  PROVE  RunsGo
<1>a. ASSUME NEW c \in Cs, NEW pc, NEW run, NEW stream, CallSteps(c, pc, run, stream),
             Len(sessions') = Len(sessions),
             run = calls[c].run \/ (calls[c].run = None /\ Has(live, calls[c].task, run))
      PROVE  RunsGo
  BY <1>a DEF CallSteps, RunsGo
<1>b. ASSUME calls' = calls, Len(sessions') = Len(sessions) PROVE RunsGo
  BY <1>b DEF RunsGo
<1>c. ASSUME NEW r \in Runs, Worked(r) \/ Stopped(r) PROVE Len(sessions') = Len(sessions)
  BY <1>c DEF Worked, Stopped, SessionSteps
<1>1. ASSUME NEW t \in Tasks, Deliver(t) PROVE RunsGo
  <2>1. sessions' = sessions /\ \A d \in Cs : calls'[d] = calls[d]
    BY <1>1, DeliverDoes
  <2> QED
    BY <2>1 DEF RunsGo
<1>2. ASSUME NEW t \in Tasks, Cancel(t) PROVE RunsGo
  <2>1. CallsOfCancelled(t)
    BY <1>2, CancelDoes
  <2>2. Len(sessions') = Len(sessions)
    BY <1>2, CancelDoes, <1>c
  <2> QED
    BY <2>1, <2>2 DEF CallsOfCancelled, RunsGo
<1>3. ASSUME NEW c \in Cs, Execute(c) PROVE RunsGo
  <2>1. CASE Greet(c) \/ GetLock(c) \/ Raise(c) \/ Refuse(c)
    BY <2>1, GreetDoes, GetLockDoes, RaiseDoes, RefuseDoes, <1>a
  <2>2. CASE PumpPrompt(c) \/ PumpFailure(c) \/ PumpEvicted(c) \/ PumpEnd(c)
     \/ Complete(c)
    BY <2>2, PumpPromptDoes, PumpFailureDoes, PumpEvictedDoes,
       PumpEndDoes, CompleteDoes, <1>a, <1>c
  <2>3. CASE PumpOutput(c)
    BY <2>3, PumpOutputDoes, <1>b, <1>c
  <2>4. CASE Acquire(c)
    <3>1. PICK pc : CallSteps(c, pc, calls[c].run, calls[c].stream)
      BY <2>4, AcquireDoes
    <3>2. Len(sessions') = Len(sessions)
      BY <2>4, AcquireDoes, <1>c
    <3> QED
      BY <1>a, <3>1, <3>2
  <2>5. CASE Evict(c)
    <3>1. PICK pc : CallSteps(c, pc, calls[c].run, calls[c].stream)
      BY <2>5, EvictDoes
    <3>2. Len(sessions') = Len(sessions)
      BY <2>5, EvictDoes, <1>c
    <3> QED
      BY <1>a, <3>1, <3>2
  <2>6. CASE AwaitVictim(c)
    <3>1. PICK pc : CallSteps(c, pc, calls[c].run, calls[c].stream)
      BY <2>6, AwaitVictimDoes
    <3>2. Len(sessions') = Len(sessions)
      BY <2>6, AwaitVictimDoes, <1>c
    <3> QED
      BY <1>a, <3>1, <3>2
  <2>7. CASE Admit(c)
    <3>1. /\ CallSteps(c, "draining", Len(sessions) + 1, StreamFor(calls[c].task))
          /\ calls[c].pc = "admitting" /\ Len(sessions') = Len(sessions) + 1
      BY <2>7, AdmitDoes
    <3>2. calls[c].run = None
      BY <3>1 DEF BaseInv, RangeInv, CallsInRange, Entering
    <3> QED
      BY <3>1, <3>2 DEF RunsGo, CallSteps
  <2>8. CASE Accept(c)
    <3>1. PICK r \in Runs : /\ CallSteps(c, "answering", r, streamOf[calls[c].task])
                            /\ Has(live, calls[c].task, r)
      BY <2>8, AcceptDoes
    <3>2. calls[c].pc = "queued" /\ sessions' = sessions
      BY <2>8, AcceptDoes
    <3>3. calls[c].run = None
      BY <3>2 DEF BaseInv, RangeInv, CallsInRange
    <3> QED
      BY <1>a, <3>1, <3>2, <3>3
  <2>9. CASE Settle(c)
    <3>1. \/ CallSteps(c, "draining", calls[c].run, StreamFor(calls[c].task))
          \/ CallSteps(c, "raised", calls[c].run, calls[c].stream)
      BY <2>9, SettleDoes
    <3>2. Len(sessions') = Len(sessions)
      BY <2>9, SettleDoes, <1>c
    <3> QED
      BY <1>a, <3>1, <3>2
  <2>10. CASE PumpPause(c)
    <3>1. CallSteps(c, "paused", calls[c].run, calls[c].stream)
      BY <2>10, PumpPauseDoes
    <3>2. Len(sessions') = Len(sessions)
      BY <2>10, PumpPauseDoes DEF SessionSteps
    <3> QED
      BY <1>a, <3>1, <3>2
  <2> QED
    BY <1>3, <2>1, <2>2, <2>3, <2>4, <2>5, <2>6, <2>7, <2>8, <2>9, <2>10
       DEF Execute
<1>4. ASSUME NEW c \in Cs, Interrupt(c) PROVE RunsGo
  <2>1. CASE InterruptPublishing(c) \/ InterruptWaiting(c)
    BY <2>1, InterruptQuietDoes, <1>a
  <2>2. CASE InterruptEvicting(c)
    <3>1. PICK pc : CallSteps(c, pc, calls[c].run, calls[c].stream)
      BY <2>2, InterruptEvictingDoes
    <3>2. Len(sessions') = Len(sessions)
      BY <2>2, InterruptEvictingDoes, <1>c
    <3> QED
      BY <1>a, <3>1, <3>2
  <2>3. CASE SwallowCancel(c)
    <3>1. PICK pc : CallSteps(c, pc, calls[c].run, calls[c].stream)
      BY <2>3, SwallowCancelDoes
    <3>2. Len(sessions') = Len(sessions)
      BY <2>3, SwallowCancelDoes, <1>c
    <3> QED
      BY <1>a, <3>1, <3>2
  <2>4. CASE InterruptPump(c)
    <3>1. PICK pc : CallSteps(c, pc, calls[c].run, calls[c].stream)
      BY <2>4, InterruptPumpDoes
    <3>2. Len(sessions') = Len(sessions)
      BY <2>4, InterruptPumpDoes, <1>c
    <3> QED
      BY <1>a, <3>1, <3>2
  <2> QED
    BY <1>4, <2>1, <2>2, <2>3, <2>4 DEF Interrupt
<1>5. ASSUME NEW r \in Runs, Run(r) PROVE RunsGo
  <2>1. CASE Begin(r) \/ Register(r) \/ Speak(r) \/ Return(r) \/ Fail(r)
    BY <2>1, RunnerDoes, <1>b, <1>c
  <2>2. ASSUME NEW q \in Requests, AskPermission(r, q) PROVE RunsGo
    <3>1. calls' = calls /\ Len(sessions') = Len(sessions)
      BY <2>2, AskPermissionDoes DEF SessionSteps
    <3> QED
      BY <1>b, <3>1
  <2> QED
    BY <1>5, <2>1, <2>2 DEF Run
<1>6. ASSUME NEW r \in Runs, KeepClosing(r) PROVE RunsGo
  BY <1>6, KeepClosingDoes, <1>b, <1>c
<1>7. CASE UNCHANGED vars
  BY <1>7, <1>b DEF vars
<1> QED
  BY <1>1, <1>2, <1>3, <1>4, <1>5, <1>6, <1>7 DEF Next, Cs

\* Every run has a call that started it, and one task.
LEMMA StartedStep ==
  ASSUME BaseInv, RunsInv, [Next]_vars
  PROVE  StartedInv'
<1>0. /\ RunsGo /\ StartedInv /\ CallsGoOn
      /\ Len(sessions) \in Nat /\ Len(calls) \in Nat /\ Len(calls') >= Len(calls)
      /\ Len(calls') \in Nat
  BY RunsGoStep, CallsGoOnStep, NothingIsLost, Facts DEF RunsInv, NoneLost
<1>1. ASSUME NEW r \in 1..Len(sessions')
      PROVE  \E c \in 1..Len(calls') : calls'[c].run = r
  <2>1. CASE r \in Runs
    <3>1. PICK c \in Cs : calls[c].run = r
      BY <1>0, <2>1 DEF StartedInv
    <3>2. calls'[c].run = r
      BY <1>0, <2>1, <3>1 DEF RunsGo, Runs, None
    <3> QED
      BY <1>0, <3>1, <3>2 DEF Cs
  <2>2. CASE r \notin Runs
    <3>1. r = Len(sessions) + 1 /\ Len(sessions') = Len(sessions) + 1
      BY <1>0, <2>2 DEF Runs, RunsGo
    <3>2. PICK c \in Cs : calls'[c].run = r
      BY <1>0, <3>1 DEF RunsGo
    <3> QED
      BY <1>0, <3>2 DEF Cs
  <2> QED
    BY <2>1, <2>2
<1>2. ASSUME NEW c \in 1..Len(calls'), NEW d \in 1..Len(calls'),
             calls'[c].run = calls'[d].run, calls'[c].run # None
      PROVE  calls'[c].task = calls'[d].task
  <2>1. c \in Cs /\ d \in Cs
    BY <1>2, CallsAfter
  <2>2. calls[c].task = calls'[c].task /\ calls[d].task = calls'[d].task
    BY <1>0, <2>1 DEF CallsGoOn
  <2>3. \A e \in Cs : calls[e].run \in 0..Len(sessions)
    BY DEF BaseInv, RangeInv, CallsInRange
  <2>4. CASE calls'[c].run = Len(sessions) + 1
    <3>1. ~Has(live, calls[c].task, Len(sessions) + 1) /\ ~Has(live, calls[d].task, Len(sessions) + 1)
      BY <1>0 DEF BaseInv, RangeInv, TablesInRange, Runs
    <3>2. Len(sessions') = Len(sessions) + 1
      <4>1. calls'[c].run \in 0..Len(sessions')
        BY BaseStep DEF BaseInv, RangeInv, CallsInRange, Cs
      <4> QED
        BY <1>0, <2>4, <4>1 DEF RunsGo
    <3>3. PICK e \in Cs : \A x \in Cs : x # e => calls'[x].run = calls[x].run
      BY <1>0, <3>2 DEF RunsGo
    <3>4. \A x \in Cs : calls'[x].run = Len(sessions) + 1 => x = e
      BY <1>0, <2>3, <3>3
    <3>5. c = e /\ d = e
      BY <1>2, <2>1, <2>4, <3>4
    <3> QED
      BY <3>5
  <2>5. CASE calls'[c].run # Len(sessions) + 1
    <3>1. ASSUME calls'[c].run = calls[c].run, calls'[d].run = calls[d].run
          PROVE  calls[c].task = calls[d].task
      BY <1>0, <1>2, <2>1, <3>1 DEF StartedInv
    <3>2. ASSUME Has(live, calls[c].task, calls'[c].run), Has(live, calls[d].task, calls'[d].run)
          PROVE  calls[c].task = calls[d].task
      BY <1>2, <3>2, LiveTask
    <3>3. ASSUME Has(live, calls[c].task, calls'[c].run), calls'[d].run = calls[d].run
          PROVE  calls[c].task = calls[d].task
      BY <1>2, <2>1, <3>3 DEF RunsInv, LiveInv
    <3>4. ASSUME Has(live, calls[d].task, calls'[d].run), calls'[c].run = calls[c].run
          PROVE  calls[c].task = calls[d].task
      BY <1>2, <2>1, <3>4 DEF RunsInv, LiveInv
    <3> QED
      BY <1>0, <1>2, <2>1, <2>2, <2>5, <3>1, <3>2, <3>3, <3>4 DEF RunsGo
  <2> QED
    BY <2>4, <2>5
<1> QED
  BY <1>1, <1>2 DEF StartedInv, Runs, Cs

\* What is in the table after a step was in it, goes on being pumped or parked as
\* before and keeps the requests nobody has answered; or has just been started.
SettlesIt(c, x) ==
  /\ Settle(c) /\ calls[c].run = x
  /\ sessions'[x].pending = sessions[x].pending \ {sessions[x].lastRequest}

Kept(u, x) == /\ Has(live, u, x) /\ x \in Runs
              /\ x \notin evicted'
              /\ sessions'[x].closer = sessions[x].closer
              /\ \/ sessions[x].pending \subseteq sessions'[x].pending
                 \/ \E c \in Cs : SettlesIt(c, x)

\* What is in the table after a step was kept there or was admitted.
LEMMA LiveAfter ==
  ASSUME BaseInv, RunsInv, [Next]_vars, NEW u, NEW x, Has(live', u, x)
  PROVE  \/ Kept(u, x)
         \/ /\ x = Len(sessions) + 1 /\ Len(sessions') = x
            /\ x \notin evicted' /\ sessions'[x] = NewSession
            /\ \E c \in Cs : calls'[c].run = x /\ calls[c].task = u /\ Admit(c)
<1> DEFINE G == \/ Kept(u, x)
                \/ /\ x = Len(sessions) + 1 /\ Len(sessions') = x
                   /\ x \notin evicted' /\ sessions'[x] = NewSession
                   /\ \E c \in Cs : calls'[c].run = x /\ calls[c].task = u /\ Admit(c)
<1>0. /\ LiveInv
      /\ \A t, r : Has(live, t, r) => r \in Runs /\ r \notin evicted
      /\ Len(sessions) \in Nat /\ evicted \subseteq Runs
  BY Facts DEF RunsInv, LiveInv, BaseInv, TypeInv, RangeInv, TablesInRange
<1>a. ASSUME live' = live, evicted' = evicted, sessions' = sessions PROVE G
  BY <1>0, <1>a DEF Kept
<1>b. ASSUME NEW r \in Runs, SessionSteps(r, sessions'[r]), Has(live, u, x), x \notin evicted',
             x = r => /\ sessions'[r].closer = sessions[r].closer
                      /\ \/ sessions[r].pending \subseteq sessions'[r].pending
                         \/ \E c \in Cs : SettlesIt(c, r)
      PROVE  G
  BY <1>0, <1>b DEF Kept, SessionSteps
<1>c. ASSUME NEW r \in Runs, Worked(r), live' = live, evicted' = evicted,
             \/ sessions[r].pending \subseteq sessions'[r].pending
             \/ \E c \in Cs : SettlesIt(c, r)
      PROVE  G
  BY <1>0, <1>b, <1>c DEF Worked
<1>d. ASSUME NEW r \in Runs, Worked(r) \/ Stopped(r), NEW t, LiveDrops(t), evicted' \in {evicted, evicted \cup {r}},
             \A v : Has(live, v, r) => v = t
      PROVE  G
  <2>1. Has(live, u, x) /\ u # t
    BY <1>d DEF LiveDrops
  <2>2. x # r /\ x \notin evicted
    BY <1>0, <1>d, <2>1
  <2> QED
    BY <1>b, <1>d, <2>1, <2>2 DEF Worked, Stopped
<1>e. ASSUME NEW r \in Runs, Stopped(r), sessions[r].closer # "no", live' = live, evicted' = evicted
      PROVE  G
  <2>1. x # r
    BY <1>0, <1>e DEF LiveInv
  <2> QED
    BY <1>0, <1>b, <1>e, <2>1 DEF Stopped
<1>g. ASSUME NEW c \in Cs, NEW v, calls[c].run \in Runs, Has(live, v, calls[c].run)
      PROVE  v = calls[c].task
  BY <1>0, <1>g DEF LiveInv
<1> HIDE DEF G
<1> SUFFICES G
  BY DEF G
<1>1. ASSUME NEW t \in Tasks, Deliver(t) PROVE G
  BY <1>1, DeliverDoes, <1>a
<1>2. ASSUME NEW t \in Tasks, Cancel(t) PROVE G
  <2>1. LiveDrops(t) /\ evicted' = evicted
    BY <1>2, CancelDoes
  <2>2. CASE sessions' = sessions
    <3>1. Has(live, u, x)
      BY <2>1 DEF LiveDrops
    <3> QED
      BY <1>0, <2>1, <2>2, <3>1 DEF G, Kept
  <2>3. ASSUME NEW r \in Runs, Has(live, t, r), Stopped(r)
        PROVE  G
    <3>1. \A v : Has(live, v, r) => v = t
      BY <2>3, LiveTask
    <3> QED
      BY <1>d, <2>1, <2>3, <3>1
  <2> QED
    BY <1>2, <2>2, <2>3, CancelDoes
<1>3. ASSUME NEW c \in Cs, Execute(c) PROVE G
  <2>1. CASE Greet(c) \/ Acquire(c) \/ GetLock(c) \/ Raise(c) \/ Refuse(c)
     \/ Accept(c)
    BY <2>1, GreetDoes, AcquireDoes, GetLockDoes, RaiseDoes, RefuseDoes,
       AcceptDoes, <1>a
  <2>2. CASE Evict(c)
    <3>1. PICK v \in Tasks, r \in Runs : /\ Has(live, v, r) /\ LiveDrops(v) /\ Stopped(r)
                                         /\ evicted' = evicted \cup {r}
      BY <2>2, EvictDoes
    <3>2. \A w : Has(live, w, r) => w = v
      BY <3>1, LiveTask
    <3> QED
      BY <1>d, <3>1, <3>2
  <2>3. CASE AwaitVictim(c)
    BY <2>3, AwaitVictimDoes, <1>e
  <2>4. CASE Admit(c)
    <3>1. /\ x # Len(sessions) + 1 => Has(live, u, x)
          /\ x = Len(sessions) + 1 => Has(live, u, x) \/ u = calls[c].task
          /\ evicted' = evicted /\ Len(sessions') = Len(sessions) + 1
          /\ sessions'[Len(sessions) + 1] = NewSession
          /\ \A r \in Runs : sessions'[r] = sessions[r]
      BY <2>4, AdmitDoes
    <3>2. calls'[c].run = Len(sessions) + 1
      BY <2>4, AdmitDoes DEF CallSteps
    <3>3. CASE Has(live, u, x)
      BY <1>0, <3>1, <3>3 DEF G, Kept
    <3>4. CASE x = Len(sessions) + 1 /\ u = calls[c].task
      BY <1>0, <2>4, <3>1, <3>2, <3>4 DEF G, Runs
    <3> QED
      BY <3>1, <3>3, <3>4
  <2>5. CASE Settle(c)
    <3>1. live' = live /\ evicted' = evicted /\ calls[c].run \in Runs
      BY <2>5, SettleDoes
    <3>2. \/ sessions' = sessions
          \/ /\ Worked(calls[c].run)
             /\ sessions'[calls[c].run].pending
                  = sessions[calls[c].run].pending \ {sessions[calls[c].run].lastRequest}
      BY <2>5, SettleDoes
    <3>3. ASSUME Worked(calls[c].run),
                 sessions'[calls[c].run].pending
                   = sessions[calls[c].run].pending \ {sessions[calls[c].run].lastRequest}
          PROVE  G
      BY <1>c, <2>5, <3>1, <3>3 DEF SettlesIt
    <3> QED
      BY <1>a, <3>1, <3>2, <3>3
  <2>6. CASE PumpOutput(c)
    BY <2>6, PumpOutputDoes, <1>c
  <2>7. CASE PumpPrompt(c)
    BY <2>7, PumpPromptDoes, <1>c
  <2>8. CASE PumpEnd(c)
    BY <2>8, PumpEndDoes, <1>c
  <2>9. CASE PumpEvicted(c)
    <3>1. /\ Worked(calls[c].run) /\ calls[c].run \in evicted
          /\ live' = live /\ evicted' = evicted /\ calls[c].run \in Runs
      BY <2>9, PumpEvictedDoes
    <3>2. x # calls[c].run /\ Has(live, u, x) /\ x \notin evicted'
      BY <1>0, <3>1
    <3> QED
      BY <1>b, <3>1, <3>2 DEF Worked
  <2>10. CASE PumpPause(c)
    <3> DEFINE r == calls[c].run
               q == streams[calls[c].stream].asked
    <3>1. /\ r \in Runs /\ calls[c].stream \in 1..Len(streams)
          /\ SessionSteps(r, Park(sessions[r], q)) /\ live' = live /\ evicted' = evicted
      BY <2>10, PumpPauseDoes
    <3>2. Park(sessions[r], q).closer = sessions[r].closer /\ Park(sessions[r], q).pending = sessions[r].pending
      BY <3>1, ParkIs, Facts
    <3> HIDE DEF r, q
    <3>3. sessions'[r] = Park(sessions[r], q)
      BY <3>1 DEF SessionSteps
    <3> QED
      BY <1>0, <1>b, <3>1, <3>2, <3>3
  <2>11. CASE PumpFailure(c)
    BY <2>11, PumpFailureDoes, <1>d, <1>g
  <2>12. CASE Complete(c)
    BY <2>12, CompleteDoes, <1>d, <1>g
  <2> QED
    BY <1>3, <2>1, <2>2, <2>3, <2>4, <2>5, <2>6, <2>7, <2>8, <2>9, <2>10,
       <2>11, <2>12 DEF Execute
<1>4. ASSUME NEW c \in Cs, Interrupt(c) PROVE G
  <2>1. CASE InterruptPublishing(c) \/ InterruptWaiting(c)
    BY <2>1, InterruptQuietDoes, <1>a
  <2>2. CASE InterruptEvicting(c) \/ SwallowCancel(c)
    BY <2>2, InterruptEvictingDoes, SwallowCancelDoes, <1>e
  <2>3. CASE InterruptPump(c)
    BY <2>3, InterruptPumpDoes, <1>d, <1>g
  <2> QED
    BY <1>4, <2>1, <2>2, <2>3 DEF Interrupt
<1>5. ASSUME NEW r \in Runs, Run(r) PROVE G
  <2>1. CASE Begin(r) \/ Register(r) \/ Speak(r) \/ Return(r) \/ Fail(r)
    BY <2>1, RunnerDoes, <1>c
  <2>2. ASSUME NEW q \in Requests, AskPermission(r, q) PROVE G
    <3>1. SessionSteps(r, Ask(sessions[r], q)) /\ live' = live /\ evicted' = evicted
      BY <2>2, AskPermissionDoes
    <3>2. /\ Ask(sessions[r], q).closer = sessions[r].closer
          /\ Ask(sessions[r], q).pending = sessions[r].pending \cup {q}
      BY AskIs, Facts
    <3>3. sessions'[r] = Ask(sessions[r], q)
      BY <3>1 DEF SessionSteps
    <3> QED
      BY <1>0, <1>b, <3>1, <3>2, <3>3
  <2> QED
    BY <1>5, <2>1, <2>2 DEF Run
<1>6. ASSUME NEW r \in Runs, KeepClosing(r) PROVE G
  BY <1>6, KeepClosingDoes, <1>e
<1>7. CASE UNCHANGED vars
  BY <1>7, <1>a DEF vars
<1> QED
  BY <1>1, <1>2, <1>3, <1>4, <1>5, <1>6, <1>7 DEF Next, Cs

\* The table holds no evicted run and none that is being closed.
LEMMA LiveStep ==
  ASSUME BaseInv, RunsInv, [Next]_vars
  PROVE  LiveInv'
<1> SUFFICES ASSUME NEW t, NEW r, Has(live', t, r)
             PROVE  /\ r \notin evicted'
                    /\ sessions'[r].closer = "no"
                    /\ \A c \in 1..Len(calls') : calls'[c].run = r => calls'[c].task = t
  BY DEF LiveInv, Cs
<1>0. /\ RunsGo /\ CallsGoOn /\ LiveInv /\ StartedInv'
      /\ \A c \in Cs : calls[c].run \in 0..Len(sessions)
  BY RunsGoStep, CallsGoOnStep, StartedStep
  DEF RunsInv, BaseInv, RangeInv, CallsInRange
<1>1. CASE Kept(t, r)
  <2>1. ASSUME NEW c \in 1..Len(calls'), calls'[c].run = r
        PROVE  calls'[c].task = t
    <3>1. r \in Runs /\ Has(live, t, r)
      BY <1>1 DEF Kept
    <3>2. c \in Cs
      <4>1. r # None
        BY <3>1 DEF Runs, None
      <4> QED
        BY <2>1, <4>1, CallsAfter
    <3>3. r # Len(sessions) + 1
      BY <3>1, Facts DEF Runs
    <3>4. CASE calls[c].run = r
      BY <1>0, <3>1, <3>2, <3>4 DEF LiveInv, CallsGoOn
    <3>5. CASE Has(live, calls[c].task, r)
      BY <1>0, <3>1, <3>2, <3>5, LiveTask DEF CallsGoOn
    <3> QED
      BY <1>0, <2>1, <3>2, <3>3, <3>4, <3>5 DEF RunsGo
  <2> QED
    BY <1>0, <1>1, <2>1 DEF Kept, LiveInv
<1>2. CASE /\ r = Len(sessions) + 1 /\ Len(sessions') = r
           /\ r \notin evicted' /\ sessions'[r] = NewSession
           /\ \E c \in Cs : calls'[c].run = r /\ calls[c].task = t /\ Admit(c)
  <2>1. PICK c \in Cs : calls'[c].run = r /\ calls[c].task = t
    BY <1>2
  <2>2. c \in 1..Len(calls') /\ calls'[c].task = t
    BY <1>0, <2>1, NothingIsLost, Facts DEF Cs, NoneLost, CallsGoOn
  <2>3. r # None
    BY <1>2, Facts DEF None
  <2>4. \A d \in 1..Len(calls') : calls'[d].run = r => calls'[d].task = t
    BY <1>0, <2>1, <2>2, <2>3 DEF StartedInv, Cs
  <2> QED
    BY <1>2, <2>4, NewSessionIs
<1> QED
  BY <1>1, <1>2, LiveAfter

\* The invariant of runs is inductive.
LEMMA RunsStep ==
  ASSUME BaseInv, RunsInv, [Next]_vars
  PROVE  RunsInv'
BY InterruptedStep, StartedStep, LiveStep DEF RunsInv

(***************************************************************************)
(* Streams.                                                                *)
(***************************************************************************)
UsesNow(t, s) == \/ streamOf'[t] = s
                 \/ \E c \in 1..Len(calls') : calls'[c].task = t /\ calls'[c].stream = s

\* A task comes by a stream in use only if it is its own.
UsesKept == \A t \in Tasks : \A s : s # None /\ UsesNow(t, s) => Uses(t, s)

UsesTaken(w) ==
  /\ Len(streams') <= Len(streams) + 1
  /\ \A t \in Tasks : \A s : s # None /\ UsesNow(t, s)
                                => Uses(t, s) \/ (t = w /\ s = Len(streams) + 1)

\* Every step uses streams that way.
LEMMA UsesGo ==
  ASSUME BaseInv, [Next]_vars
  PROVE  (UsesKept /\ Len(streams') = Len(streams)) \/ \E w \in Tasks : UsesTaken(w)
<1> DEFINE G == (UsesKept /\ Len(streams') = Len(streams)) \/ \E w \in Tasks : UsesTaken(w)
<1>t. \A c \in Cs : calls[c].task \in Tasks
  BY Facts
<1>u. /\ streamOf' = streamOf => \A t \in Tasks : streamOf'[t] \in {streamOf[t], None}
      /\ \A w \in Tasks : StreamOfSteps(w, None)
                            => \A t \in Tasks : streamOf'[t] \in {streamOf[t], None}
  BY DEF StreamOfSteps
<1>a. ASSUME NEW c \in Cs, NEW pc, NEW run, NEW stream, CallSteps(c, pc, run, stream),
             stream \in {calls[c].stream, streamOf[calls[c].task]},
             \A t \in Tasks : streamOf'[t] \in {streamOf[t], None},
             Len(streams') = Len(streams)
      PROVE  G
  BY <1>a DEF CallSteps, UsesKept, UsesNow, Uses, Cs
<1>b. ASSUME calls' = calls, \A t \in Tasks : streamOf'[t] \in {streamOf[t], None},
             Len(streams') = Len(streams)
      PROVE  G
  BY <1>b DEF UsesKept, UsesNow, Uses, Cs
<1>c. ASSUME NEW c \in Cs, NEW pc, NEW run, CallSteps(c, pc, run, StreamFor(calls[c].task)),
             HasStream(calls[c].task)
      PROVE  G
  <2> DEFINE w == calls[c].task
  <2>1. w \in Tasks /\ Len(streams) \in Nat
    BY Facts
  <2>2. StreamFor(w) = streamOf[w] \/ StreamFor(w) = Len(streams) + 1
    BY DEF StreamFor
  <2>3. StreamOfSteps(w, StreamFor(w)) /\ Len(streams') <= Len(streams) + 1
    BY <1>c, <2>1 DEF HasStream, StreamsGrow
  <2>4. UsesTaken(w)
    BY <1>c, <2>2, <2>3 DEF CallSteps, UsesTaken, UsesNow, Uses, Cs, StreamOfSteps
  <2> QED
    BY <2>1, <2>4
<1> HIDE DEF G
<1> SUFFICES G
  BY DEF G
<1>1. ASSUME NEW t \in Tasks, Deliver(t) PROVE G
  <2>1. streamOf' = streamOf /\ streams' = streams
    BY <1>1, DeliverDoes
  <2>2. \A c \in 1..Len(calls') : calls'[c].stream # None => c \in Cs /\ calls'[c] = calls[c]
    <3> DEFINE n == Len(calls) + 1
    <3>1. /\ Len(calls') = n /\ calls'[n].stream = None
          /\ \A d \in Cs : calls'[d] = calls[d]
      BY <1>1, DeliverDoes
    <3>2. \A d \in 1..Len(calls') : d \in Cs \/ d = n
      BY <3>1, Facts DEF Cs
    <3> QED
      BY <3>1, <3>2
  <2> QED
    BY <2>1, <2>2 DEF UsesKept, UsesNow, Uses, G
<1>2. ASSUME NEW t \in Tasks, Cancel(t) PROVE G
  <2>1. CallsOfCancelled(t) /\ StreamOfSteps(t, None) /\ streams' = streams
    BY <1>2, CancelDoes
  <2>2. \A u \in Tasks : streamOf'[u] \in {streamOf[u], None}
    BY <1>u, <2>1
  <2> QED
    BY <2>1, <2>2 DEF CallsOfCancelled, UsesKept, UsesNow, Uses, G, Cs
<1>3. ASSUME NEW c \in Cs, Execute(c) PROVE G
  <2>1. CASE Greet(c) \/ GetLock(c) \/ Raise(c) \/ Refuse(c)
    BY <2>1, GreetDoes, GetLockDoes, RaiseDoes, RefuseDoes, <1>a, <1>u,
       <1>t
  <2>2. CASE PumpPrompt(c) \/ PumpPause(c) \/ PumpEvicted(c) \/ PumpEnd(c)
    BY <2>2, PumpPromptDoes, PumpPauseDoes, PumpEvictedDoes, PumpEndDoes,
       <1>a, <1>u, <1>t
  <2>3. CASE PumpFailure(c) \/ Complete(c)
    BY <2>3, PumpFailureDoes, CompleteDoes, <1>a, <1>u, <1>t
  <2>4. CASE PumpOutput(c)
    BY <2>4, PumpOutputDoes, <1>b, <1>u
  <2>5. CASE Acquire(c)
    <3>1. PICK pc : CallSteps(c, pc, calls[c].run, calls[c].stream)
      BY <2>5, AcquireDoes
    <3>2. streamOf' = streamOf /\ streams' = streams
      BY <2>5, AcquireDoes
    <3> QED
      BY <1>a, <1>u, <3>1, <3>2
  <2>6. CASE AwaitVictim(c)
    <3>1. PICK pc : CallSteps(c, pc, calls[c].run, calls[c].stream)
      BY <2>6, AwaitVictimDoes
    <3>2. streamOf' = streamOf /\ streams' = streams
      BY <2>6, AwaitVictimDoes
    <3> QED
      BY <1>a, <1>u, <3>1, <3>2
  <2>7. CASE Evict(c)
    <3>1. PICK pc : CallSteps(c, pc, calls[c].run, calls[c].stream)
      BY <2>7, EvictDoes
    <3>2. streams' = streams /\ \E v \in Tasks : StreamOfSteps(v, None)
      BY <2>7, EvictDoes
    <3> QED
      BY <1>a, <1>u, <3>1, <3>2
  <2>8. CASE Admit(c)
    <3>1. /\ CallSteps(c, "draining", Len(sessions) + 1, StreamFor(calls[c].task))
          /\ HasStream(calls[c].task)
      BY <2>8, AdmitDoes
    <3> QED
      BY <1>c, <3>1
  <2>9. CASE Accept(c)
    <3>1. PICK r \in Runs : CallSteps(c, "answering", r, streamOf[calls[c].task])
      BY <2>9, AcceptDoes
    <3>2. streamOf' = streamOf /\ streams' = streams
      BY <2>9, AcceptDoes
    <3> QED
      BY <1>a, <1>u, <3>1, <3>2
  <2>10. CASE Settle(c)
    <3>1. \/ /\ CallSteps(c, "draining", calls[c].run, StreamFor(calls[c].task))
             /\ HasStream(calls[c].task)
          \/ /\ CallSteps(c, "raised", calls[c].run, calls[c].stream)
             /\ streamOf' = streamOf /\ streams' = streams
      BY <2>10, SettleDoes
    <3> QED
      BY <1>a, <1>c, <1>u, <3>1
  <2> QED
    BY <1>3, <2>1, <2>2, <2>3, <2>4, <2>5, <2>6, <2>7, <2>8, <2>9, <2>10
       DEF Execute
<1>4. ASSUME NEW c \in Cs, Interrupt(c) PROVE G
  <2>1. CASE InterruptPublishing(c) \/ InterruptWaiting(c)
    BY <2>1, InterruptQuietDoes, <1>a, <1>u, <1>t
  <2>2. CASE InterruptEvicting(c)
    BY <2>2, InterruptEvictingDoes, <1>a, <1>u, <1>t
  <2>3. CASE SwallowCancel(c)
    BY <2>3, SwallowCancelDoes, <1>a, <1>u, <1>t
  <2>4. CASE InterruptPump(c)
    BY <2>4, InterruptPumpDoes, <1>a, <1>u, <1>t
  <2> QED
    BY <1>4, <2>1, <2>2, <2>3, <2>4 DEF Interrupt
<1>5. ASSUME NEW r \in Runs, Run(r) PROVE G
  <2>1. CASE Begin(r) \/ Register(r) \/ Speak(r) \/ Return(r) \/ Fail(r)
    BY <2>1, RunnerDoes, <1>b, <1>u
  <2>2. ASSUME NEW q \in Requests, AskPermission(r, q) PROVE G
    BY <2>2, AskPermissionDoes, <1>b, <1>u
  <2> QED
    BY <1>5, <2>1, <2>2 DEF Run
<1>6. ASSUME NEW r \in Runs, KeepClosing(r) PROVE G
  BY <1>6, KeepClosingDoes, <1>b, <1>u
<1>7. CASE UNCHANGED vars
  BY <1>7, <1>b, <1>u DEF vars
<1> QED
  BY <1>1, <1>2, <1>3, <1>4, <1>5, <1>6, <1>7 DEF Next, Cs

\* No stream is used for two tasks.
LEMMA StreamStep ==
  ASSUME BaseInv, StreamInv, [Next]_vars
  PROVE  StreamInv'
<1> SUFFICES ASSUME NEW t \in Tasks, NEW u \in Tasks, NEW s \in 1..Len(streams'),
                    UsesNow(t, s), UsesNow(u, s)
             PROVE  t = u
  BY DEF StreamInv, Uses, UsesNow, Cs
<1>0. Len(streams) \in Nat /\ s # None
  BY Facts DEF None
<1>1. ASSUME NEW v \in Tasks, Uses(v, s) PROVE s \in 1..Len(streams)
  BY <1>0, <1>1 DEF Uses, BaseInv, RangeInv, CallsInRange, TablesInRange, None
<1>2. ASSUME Uses(t, s), Uses(u, s) PROVE t = u
  BY <1>1, <1>2 DEF StreamInv
<1>3. CASE UsesKept
  BY <1>0, <1>2, <1>3 DEF UsesKept
<1>4. ASSUME NEW w \in Tasks, UsesTaken(w) PROVE t = u
  <2>1. Uses(t, s) \/ (t = w /\ s = Len(streams) + 1)
    BY <1>0, <1>4 DEF UsesTaken
  <2>2. Uses(u, s) \/ (u = w /\ s = Len(streams) + 1)
    BY <1>0, <1>4 DEF UsesTaken
  <2>3. s = Len(streams) + 1 => ~Uses(t, s) /\ ~Uses(u, s)
    BY <1>0, <1>1
  <2> QED
    BY <1>2, <2>1, <2>2, <2>3
<1> QED
  BY <1>3, <1>4, UsesGo

(***************************************************************************)
(* Sessions: what was asked, queued and parked on.                         *)
(***************************************************************************)
\* What a step does to a session: it fades, or is asked of, or parked.
SessionsGo ==
  /\ \A r \in Runs :
       \/ sessions'[r] = sessions[r]
       \/ Fades(sessions[r], sessions'[r])
       \/ \E q \in Requests : AskPermission(r, q)
       \/ \E c \in Cs : PumpPause(c) /\ calls[c].run = r
  /\ \A r \in 1..Len(sessions') :
       r \in Runs \/ (r = Len(sessions) + 1 /\ sessions'[r] = NewSession)

\* Every step changes sessions that way.
LEMMA SessionsGoStep ==
  ASSUME BaseInv, [Next]_vars
  PROVE  SessionsGo
<1>a. ASSUME sessions' = sessions PROVE SessionsGo
  BY <1>a DEF SessionsGo, Runs
<1>b. ASSUME NEW r \in Runs, Worked(r) \/ Stopped(r) PROVE SessionsGo
  BY <1>b DEF SessionsGo, Runs, Worked, Stopped, SessionSteps
<1>1. ASSUME NEW t \in Tasks, Deliver(t) PROVE SessionsGo
  BY <1>1, DeliverDoes, <1>a
<1>2. ASSUME NEW t \in Tasks, Cancel(t) PROVE SessionsGo
  BY <1>2, CancelDoes, <1>a, <1>b
<1>3. ASSUME NEW c \in Cs, Execute(c) PROVE SessionsGo
  <2>1. CASE Greet(c) \/ Acquire(c) \/ GetLock(c) \/ Raise(c) \/ Refuse(c)
     \/ Accept(c)
    BY <2>1, GreetDoes, AcquireDoes, GetLockDoes, RaiseDoes, RefuseDoes,
       AcceptDoes, <1>a
  <2>2. CASE Evict(c) \/ AwaitVictim(c)
    BY <2>2, EvictDoes, AwaitVictimDoes, <1>b
  <2>3. CASE Settle(c)
    BY <2>3, SettleDoes, <1>a, <1>b
  <2>4. CASE PumpOutput(c) \/ PumpPrompt(c) \/ PumpFailure(c)
    BY <2>4, PumpOutputDoes, PumpPromptDoes, PumpFailureDoes, <1>b
  <2>5. CASE PumpEvicted(c) \/ PumpEnd(c) \/ Complete(c)
    BY <2>5, PumpEvictedDoes, PumpEndDoes, CompleteDoes, <1>b
  <2>6. CASE Admit(c)
    <3>1. /\ Len(sessions') = Len(sessions) + 1
          /\ sessions'[Len(sessions) + 1] = NewSession
          /\ \A x \in Runs : sessions'[x] = sessions[x]
      BY <2>6, AdmitDoes
    <3>2. \A x \in 1..Len(sessions') : x \in Runs \/ x = Len(sessions) + 1
      BY <3>1, Facts DEF Runs
    <3> QED
      BY <3>1, <3>2 DEF SessionsGo
  <2>7. CASE PumpPause(c)
    <3>1. /\ Len(sessions') = Len(sessions)
          /\ \A x \in Runs : x # calls[c].run => sessions'[x] = sessions[x]
      BY <2>7, PumpPauseDoes DEF SessionSteps
    <3> QED
      BY <2>7, <3>1 DEF SessionsGo, Runs
  <2> QED
    BY <1>3, <2>1, <2>2, <2>3, <2>4, <2>5, <2>6, <2>7 DEF Execute
<1>4. ASSUME NEW c \in Cs, Interrupt(c) PROVE SessionsGo
  <2>1. CASE InterruptPublishing(c) \/ InterruptWaiting(c)
    BY <2>1, InterruptQuietDoes, <1>a
  <2>2. CASE InterruptEvicting(c) \/ SwallowCancel(c)
    BY <2>2, InterruptEvictingDoes, SwallowCancelDoes, <1>b
  <2>3. CASE InterruptPump(c)
    BY <2>3, InterruptPumpDoes, <1>b
  <2> QED
    BY <1>4, <2>1, <2>2, <2>3 DEF Interrupt
<1>5. ASSUME NEW r \in Runs, Run(r) PROVE SessionsGo
  <2>1. CASE Begin(r) \/ Register(r) \/ Speak(r) \/ Return(r) \/ Fail(r)
    BY <2>1, RunnerDoes, <1>b
  <2>2. ASSUME NEW q \in Requests, AskPermission(r, q) PROVE SessionsGo
    <3>1. /\ Len(sessions') = Len(sessions)
          /\ \A x \in Runs : x # r => sessions'[x] = sessions[x]
      BY <2>2, AskPermissionDoes DEF SessionSteps
    <3> QED
      BY <2>2, <3>1 DEF SessionsGo, Runs
  <2> QED
    BY <1>5, <2>1, <2>2 DEF Run
<1>6. ASSUME NEW r \in Runs, KeepClosing(r) PROVE SessionsGo
  BY <1>6, KeepClosingDoes, <1>b
<1>7. CASE UNCHANGED vars
  BY <1>7, <1>a DEF vars
<1> QED
  BY <1>1, <1>2, <1>3, <1>4, <1>5, <1>6, <1>7 DEF Next, Cs

\* A request asked stays asked, by the same run; one is asked in AskPermission.
AskedByGo ==
  /\ \A q \in Requests : askedBy[q] # None => askedBy'[q] = askedBy[q]
  /\ \A r \in Runs : \A q \in Requests : AskPermission(r, q) => askedBy[q] = None /\ askedBy'[q] = r

\* Every step asks that way.
LEMMA AskedByGoStep ==
  ASSUME BaseInv, [Next]_vars
  PROVE  AskedByGo
<1>0. \A r \in Runs : \A q \in Requests : AskPermission(r, q) => askedBy[q] = None /\ askedBy'[q] = r
  BY AskPermissionDoes
<1>a. ASSUME askedBy' = askedBy PROVE AskedByGo
  BY <1>0, <1>a DEF AskedByGo
<1>1. ASSUME NEW t \in Tasks, Deliver(t) PROVE AskedByGo
  BY <1>1, DeliverDoes, <1>a
<1>2. ASSUME NEW t \in Tasks, Cancel(t) PROVE AskedByGo
  BY <1>2, CancelDoes, <1>a
<1>3. ASSUME NEW c \in Cs, Execute(c) PROVE AskedByGo
  <2>1. CASE Greet(c) \/ Acquire(c) \/ GetLock(c) \/ Evict(c) \/
     AwaitVictim(c) \/ Admit(c) \/ Raise(c) \/ Refuse(c) \/ Accept(c) \/
     Settle(c)
    BY <2>1, GreetDoes, AcquireDoes, GetLockDoes, EvictDoes,
       AwaitVictimDoes, AdmitDoes, RaiseDoes, RefuseDoes, AcceptDoes,
       SettleDoes, <1>a
  <2>2. CASE PumpOutput(c) \/ PumpPrompt(c) \/ PumpPause(c) \/
     PumpFailure(c) \/ PumpEvicted(c) \/ PumpEnd(c) \/ Complete(c)
    BY <2>2, PumpOutputDoes, PumpPromptDoes, PumpPauseDoes,
       PumpFailureDoes, PumpEvictedDoes, PumpEndDoes, CompleteDoes, <1>a
  <2> QED
    BY <1>3, <2>1, <2>2 DEF Execute
<1>4. ASSUME NEW c \in Cs, Interrupt(c) PROVE AskedByGo
  <2>1. CASE InterruptPublishing(c) \/ InterruptWaiting(c) \/
     InterruptEvicting(c) \/ SwallowCancel(c) \/ InterruptPump(c)
    BY <2>1, InterruptQuietDoes, InterruptEvictingDoes, SwallowCancelDoes,
       InterruptPumpDoes, <1>a
  <2> QED
    BY <1>4, <2>1 DEF Interrupt
<1>5. ASSUME NEW r \in Runs, Run(r) PROVE AskedByGo
  <2>1. CASE Begin(r) \/ Register(r) \/ Speak(r) \/ Return(r) \/ Fail(r)
    BY <2>1, RunnerDoes, <1>a
  <2>2. ASSUME NEW q \in Requests, AskPermission(r, q) PROVE AskedByGo
    <3>1. \A p \in Requests : p # q => askedBy'[p] = askedBy[p]
      BY <2>2, AskPermissionDoes
    <3> QED
      BY <1>0, <2>2, <3>1 DEF AskedByGo
  <2> QED
    BY <1>5, <2>1, <2>2 DEF Run
<1>6. ASSUME NEW r \in Runs, KeepClosing(r) PROVE AskedByGo
  BY <1>6, KeepClosingDoes, <1>a
<1>7. CASE UNCHANGED vars
  BY <1>7, <1>a DEF vars
<1> QED
  BY <1>1, <1>2, <1>3, <1>4, <1>5, <1>6, <1>7 DEF Next, Cs

\* A stream keeps what it asks, until a prompt is pumped into it.
AskedGo ==
  \A s \in 1..Len(streams') :
    \/ s \notin 1..Len(streams) /\ streams'[s].asked = NoRequest
    \/ s \in 1..Len(streams) /\ streams'[s].asked = streams[s].asked
    \/ \E c \in Cs : PumpPrompt(c) /\ calls[c].stream = s

\* Every step shows prompts that way.
LEMMA AskedGoStep ==
  ASSUME BaseInv, [Next]_vars
  PROVE  AskedGo
<1>a. ASSUME streams' = streams PROVE AskedGo
  BY <1>a DEF AskedGo
<1>b. ASSUME NEW t, HasStream(t) PROVE AskedGo
  <2>1. Len(streams) \in Nat
    BY Facts
  <2>2. \A s \in 1..Len(streams') : s \in 1..Len(streams) \/ s = Len(streams) + 1
    BY <1>b, <2>1 DEF HasStream, StreamsGrow
  <2> QED
    BY <1>b, <2>1, <2>2 DEF HasStream, StreamsGrow, AskedGo
<1>1. ASSUME NEW t \in Tasks, Deliver(t) PROVE AskedGo
  BY <1>1, DeliverDoes, <1>a
<1>2. ASSUME NEW t \in Tasks, Cancel(t) PROVE AskedGo
  BY <1>2, CancelDoes, <1>a
<1>3. ASSUME NEW c \in Cs, Execute(c) PROVE AskedGo
  <2>1. CASE Greet(c) \/ Acquire(c) \/ GetLock(c) \/ Evict(c) \/
     AwaitVictim(c) \/ Raise(c) \/ Refuse(c) \/ Accept(c)
    BY <2>1, GreetDoes, AcquireDoes, GetLockDoes, EvictDoes,
       AwaitVictimDoes, RaiseDoes, RefuseDoes, AcceptDoes, <1>a
  <2>2. CASE Admit(c)
    BY <2>2, AdmitDoes, <1>b
  <2>3. CASE Settle(c)
    <3>1. streams' = streams \/ HasStream(calls[c].task)
      BY <2>3, SettleDoes
    <3> QED
      BY <1>a, <1>b, <3>1
  <2>4. CASE PumpPrompt(c)
    <3>1. /\ Len(streams') = Len(streams)
          /\ \A x \in 1..Len(streams) : x # calls[c].stream => streams'[x] = streams[x]
      BY <2>4, PumpPromptDoes
    <3> QED
      BY <2>4, <3>1 DEF AskedGo
  <2>5. CASE PumpOutput(c) \/ PumpPause(c) \/ PumpFailure(c) \/
     PumpEvicted(c) \/ PumpEnd(c) \/ Complete(c)
    BY <2>5, PumpOutputDoes, PumpPauseDoes, PumpFailureDoes,
       PumpEvictedDoes, PumpEndDoes, CompleteDoes, <1>a
  <2> QED
    BY <1>3, <2>1, <2>2, <2>3, <2>4, <2>5 DEF Execute
<1>4. ASSUME NEW c \in Cs, Interrupt(c) PROVE AskedGo
  <2>1. CASE InterruptPublishing(c) \/ InterruptWaiting(c) \/
     InterruptEvicting(c) \/ SwallowCancel(c) \/ InterruptPump(c)
    BY <2>1, InterruptQuietDoes, InterruptEvictingDoes, SwallowCancelDoes,
       InterruptPumpDoes, <1>a
  <2> QED
    BY <1>4, <2>1 DEF Interrupt
<1>5. ASSUME NEW r \in Runs, Run(r) PROVE AskedGo
  <2>1. CASE Begin(r) \/ Register(r) \/ Speak(r) \/ Return(r) \/ Fail(r)
    BY <2>1, RunnerDoes, <1>a
  <2>2. ASSUME NEW q \in Requests, AskPermission(r, q) PROVE AskedGo
    BY <2>2, AskPermissionDoes, <1>a
  <2> QED
    BY <1>5, <2>1, <2>2 DEF Run
<1>6. ASSUME NEW r \in Runs, KeepClosing(r) PROVE AskedGo
  BY <1>6, KeepClosingDoes, <1>a
<1>7. CASE UNCHANGED vars
  BY <1>7, <1>a DEF vars
<1> QED
  BY <1>1, <1>2, <1>3, <1>4, <1>5, <1>6, <1>7 DEF Next, Cs

(***************************************************************************)
(* What is asked, queued, pending and recorded.                            *)
(***************************************************************************)
AskedInv ==
  /\ \A r \in Runs :
       /\ \A q \in sessions[r].pending : askedBy[q] = r
       /\ sessions[r].lastRequest # NoRequest => askedBy[sessions[r].lastRequest] # None
  /\ \A s \in 1..Len(streams) : streams[s].asked # NoRequest => askedBy[streams[s].asked] # None

\* A prompt that is queued was asked by the run, once, and is news: no session
\* has recorded it and no stream shows it.
Queued(r, q) == Prompted(sessions[r].queue, q)
QueueInv ==
  /\ \A r \in Runs : OnceEach(sessions[r].queue) /\ (Over(sessions[r].queue) => ~Alive(sessions[r]))
  /\ \A r \in Runs : \A q \in Requests : Queued(r, q) =>
       /\ askedBy[q] = r
       /\ \A x \in Runs : sessions[x].lastRequest # q
       /\ \A s \in 1..Len(streams) : streams[s].asked # q
       /\ \A t : Has(live, t, r) => q \in sessions[r].pending

ClosingInv == \A c \in Cs : calls[c].pc = "closing" => ~Alive(sessions[calls[c].run])

SessInv == AskedInv /\ QueueInv /\ ClosingInv

\* What PumpPause makes of the session.
LEMMA PauseSteps ==
  ASSUME BaseInv, NEW c \in Cs, PumpPause(c)
  PROVE  LET r == calls[c].run
             q == streams[calls[c].stream].asked
         IN  /\ r \in Runs /\ calls[c].stream \in 1..Len(streams)
             /\ q \in Requests \cup {NoRequest}
             /\ sessions'[r].lastRequest = q
             /\ sessions'[r].pending = sessions[r].pending
             /\ sessions'[r].queue = sessions[r].queue
             /\ sessions'[r].runner = sessions[r].runner
             /\ sessions'[r].closer = sessions[r].closer
             /\ askedBy' = askedBy
<1> DEFINE r == calls[c].run
           q == streams[calls[c].stream].asked
<1>1. /\ r \in Runs /\ calls[c].stream \in 1..Len(streams)
      /\ SessionSteps(r, Park(sessions[r], q)) /\ askedBy' = askedBy
  BY PumpPauseDoes
<1>2. sessions[r] \in Sessions /\ q \in Requests \cup {NoRequest}
  BY <1>1, Facts
<1> HIDE DEF r, q
<1>3. sessions'[r] = Park(sessions[r], q)
  BY <1>1 DEF SessionSteps
<1>4. /\ sessions'[r].lastRequest = q
      /\ sessions'[r].pending = sessions[r].pending
      /\ sessions'[r].queue = sessions[r].queue
      /\ sessions'[r].runner = sessions[r].runner
      /\ sessions'[r].closer = sessions[r].closer
  BY <1>2, <1>3, ParkIs
<1> QED
  BY <1>1, <1>2, <1>4 DEF r, q

\* What AskPermission makes of it.
LEMMA AskSession ==
  ASSUME BaseInv, NEW r \in Runs, NEW q \in Requests, AskPermission(r, q)
  PROVE  /\ sessions'[r].lastRequest = sessions[r].lastRequest
         /\ sessions'[r].pending = sessions[r].pending \cup {q}
         /\ sessions'[r].runner = sessions[r].runner
         /\ sessions'[r].closer = sessions[r].closer
         /\ \A p : Prompted(sessions'[r].queue, p) <=> Prompted(sessions[r].queue, p) \/ p = q
         /\ OnceEach(sessions[r].queue) /\ ~Prompted(sessions[r].queue, q)
              => OnceEach(sessions'[r].queue)
         /\ Over(sessions'[r].queue) <=> Over(sessions[r].queue)
         /\ \A x \in Runs : x # r => sessions'[x] = sessions[x]
         /\ Alive(sessions[r])
         /\ askedBy[q] = None /\ askedBy'[q] = r
<1>1. /\ SessionSteps(r, Ask(sessions[r], q)) /\ Alive(sessions[r])
      /\ askedBy[q] = None /\ askedBy'[q] = r
  BY AskPermissionDoes
<1>2. sessions[r] \in Sessions
  BY Facts
<1>3. sessions'[r] = Ask(sessions[r], q)
  BY <1>1 DEF SessionSteps
<1>4. \A x \in Runs : x # r => sessions'[x] = sessions[x]
  BY <1>1 DEF SessionSteps
<1> QED
  BY <1>1, <1>2, <1>3, <1>4, AskIs

\* A run that is over stays so.
LEMMA OverStays ==
  ASSUME BaseInv, [Next]_vars, NEW r \in Runs, ~Alive(sessions[r])
  PROVE  ~Alive(sessions'[r])
<1>1. CASE sessions'[r] = sessions[r]
  BY <1>1
<1>2. CASE Fades(sessions[r], sessions'[r])
  BY <1>2 DEF Fades
<1>3. ASSUME NEW q \in Requests, AskPermission(r, q) PROVE ~Alive(sessions'[r])
  BY <1>3, AskSession
<1>4. ASSUME NEW c \in Cs, PumpPause(c), calls[c].run = r PROVE ~Alive(sessions'[r])
  BY <1>4, PauseSteps DEF Alive
<1> QED
  BY <1>1, <1>2, <1>3, <1>4, SessionsGoStep DEF SessionsGo

\* What is pending, parked on or shown was asked.
LEMMA AskedStep ==
  ASSUME BaseInv, SessInv, [Next]_vars
  PROVE  AskedInv'
<1>0. /\ AskedInv /\ QueueInv /\ SessionsGo /\ AskedByGo /\ AskedGo
      /\ \A q \in Requests : askedBy[q] \in Nat
      /\ \A r \in Runs : r # None
      /\ None \notin Runs
  BY SessionsGoStep, AskedByGoStep, AskedGoStep DEF SessInv, BaseInv, TypeInv, Runs, None
<1>1. ASSUME NEW r \in 1..Len(sessions'), NEW q \in sessions'[r].pending
      PROVE  askedBy'[q] = r
  <2>1. CASE r = Len(sessions) + 1 /\ sessions'[r] = NewSession
    BY <1>1, <2>1, NewSessionIs
  <2>2. CASE r \in Runs
    <3>1. q \in sessions[r].pending => q \in Requests /\ askedBy[q] = r
      BY <1>0, <2>2, Facts DEF AskedInv
    <3>2. q \in sessions[r].pending => askedBy'[q] = r
      BY <1>0, <2>2, <3>1 DEF AskedByGo
    <3>3. CASE sessions'[r] = sessions[r] \/ Fades(sessions[r], sessions'[r])
      BY <1>1, <3>2, <3>3 DEF Fades
    <3>4. ASSUME NEW p \in Requests, AskPermission(r, p) PROVE askedBy'[q] = r
      BY <1>1, <2>2, <3>2, <3>4, AskSession
    <3>5. ASSUME NEW c \in Cs, PumpPause(c), calls[c].run = r PROVE askedBy'[q] = r
      BY <1>1, <3>2, <3>5, PauseSteps
    <3> QED
      BY <1>0, <2>2, <3>3, <3>4, <3>5 DEF SessionsGo
  <2> QED
    BY <1>0, <2>1, <2>2 DEF SessionsGo
<1>2. ASSUME NEW r \in 1..Len(sessions'), sessions'[r].lastRequest # NoRequest
      PROVE  askedBy'[sessions'[r].lastRequest] # None
  <2>1. CASE r = Len(sessions) + 1 /\ sessions'[r] = NewSession
    BY <1>2, <2>1, NewSessionIs
  <2>2. CASE r \in Runs
    <3>1. sessions[r].lastRequest # NoRequest
            => /\ sessions[r].lastRequest \in Requests
               /\ askedBy[sessions[r].lastRequest] # None
      BY <1>0, <2>2, Facts DEF AskedInv
    <3>2. sessions[r].lastRequest # NoRequest => askedBy'[sessions[r].lastRequest] # None
      BY <1>0, <3>1 DEF AskedByGo
    <3>3. CASE sessions'[r] = sessions[r] \/ Fades(sessions[r], sessions'[r])
      BY <1>2, <3>2, <3>3 DEF Fades
    <3>4. ASSUME NEW p \in Requests, AskPermission(r, p)
          PROVE  askedBy'[sessions'[r].lastRequest] # None
      BY <1>2, <2>2, <3>2, <3>4, AskSession
    <3>5. ASSUME NEW c \in Cs, PumpPause(c), calls[c].run = r
          PROVE  askedBy'[sessions'[r].lastRequest] # None
      <4>1. /\ sessions'[r].lastRequest = streams[calls[c].stream].asked
            /\ calls[c].stream \in 1..Len(streams) /\ askedBy' = askedBy
        BY <3>5, PauseSteps
      <4> QED
        BY <1>0, <1>2, <4>1 DEF AskedInv
    <3> QED
      BY <1>0, <2>2, <3>3, <3>4, <3>5 DEF SessionsGo
  <2> QED
    BY <1>0, <2>1, <2>2 DEF SessionsGo
<1>3. ASSUME NEW s \in 1..Len(streams'), streams'[s].asked # NoRequest
      PROVE  askedBy'[streams'[s].asked] # None
  <2>1. CASE s \in 1..Len(streams) /\ streams'[s].asked = streams[s].asked
    <3>1. streams[s].asked \in Requests /\ askedBy[streams[s].asked] # None
      BY <1>0, <1>3, <2>1, Facts DEF AskedInv
    <3> QED
      BY <1>0, <2>1, <3>1 DEF AskedByGo
  <2>2. ASSUME NEW c \in Cs, PumpPrompt(c), calls[c].stream = s
        PROVE  askedBy'[streams'[s].asked] # None
    <3> DEFINE r == calls[c].run
               q == Head(sessions[r].queue).id
    <3>1. /\ r \in Runs /\ q \in Requests /\ Prompted(sessions[r].queue, q)
          /\ streams'[s].asked = q
      BY <2>2, PumpPromptDoes
    <3> HIDE DEF r, q
    <3>2. askedBy[q] # None
      BY <1>0, <3>1 DEF QueueInv, Queued
    <3> QED
      BY <1>0, <3>1, <3>2 DEF AskedByGo
  <2> QED
    BY <1>0, <1>3, <2>1, <2>2 DEF AskedGo
<1> QED
  BY <1>1, <1>2, <1>3 DEF AskedInv, Runs

\* A queue holds each request once, and an end only of a run that is over.
LEMMA QueuesOver ==
  ASSUME BaseInv, SessInv, [Next]_vars, NEW r \in 1..Len(sessions')
  PROVE  OnceEach(sessions'[r].queue) /\ (Over(sessions'[r].queue) => ~Alive(sessions'[r]))
<1>0. QueueInv /\ SessionsGo
  BY SessionsGoStep DEF SessInv
<1>1. CASE r = Len(sessions) + 1 /\ sessions'[r] = NewSession
  BY <1>1, NewSessionIs
<1>2. CASE r \in Runs
  <2>1. /\ OnceEach(sessions[r].queue) /\ (Over(sessions[r].queue) => ~Alive(sessions[r]))
        /\ ~Alive(sessions[r]) => ~Alive(sessions'[r])
    BY <1>0, <1>2, OverStays DEF QueueInv
  <2>2. CASE sessions'[r] = sessions[r]
    BY <2>1, <2>2
  <2>3. CASE Fades(sessions[r], sessions'[r])
    BY <2>1, <2>3 DEF Fades
  <2>4. ASSUME NEW q \in Requests, AskPermission(r, q)
        PROVE  OnceEach(sessions'[r].queue) /\ (Over(sessions'[r].queue) => ~Alive(sessions'[r]))
    <3>1. ~Prompted(sessions[r].queue, q)
      <4>1. askedBy[q] = None /\ r # None
        BY <1>2, <2>4, AskSession DEF Runs, None
      <4> QED
        BY <1>0, <1>2, <4>1 DEF QueueInv, Queued
    <3> QED
      BY <1>2, <2>1, <2>4, <3>1, AskSession
  <2>5. ASSUME NEW c \in Cs, PumpPause(c), calls[c].run = r
        PROVE  OnceEach(sessions'[r].queue) /\ (Over(sessions'[r].queue) => ~Alive(sessions'[r]))
    BY <2>1, <2>5, PauseSteps
  <2> QED
    BY <1>0, <1>2, <2>2, <2>3, <2>4, <2>5 DEF SessionsGo
<1> QED
  BY <1>0, <1>1, <1>2 DEF SessionsGo

\* A prompt on a queue was there before, or is being asked.
LEMMA QueuedBefore ==
  ASSUME BaseInv, SessInv, [Next]_vars, NEW r \in 1..Len(sessions'), NEW q \in Requests,
         Prompted(sessions'[r].queue, q)
  PROVE  r \in Runs /\ (Queued(r, q) \/ AskPermission(r, q))
<1>0. SessionsGo
  BY SessionsGoStep
<1>1. CASE r = Len(sessions) + 1 /\ sessions'[r] = NewSession
  BY <1>1, NewSessionIs
<1>2. CASE r \in Runs
  <2>2. CASE sessions'[r] = sessions[r]
    BY <1>2, <2>2 DEF Queued
  <2>3. CASE Fades(sessions[r], sessions'[r])
    BY <1>2, <2>3 DEF Fades, Queued
  <2>4. ASSUME NEW p \in Requests, AskPermission(r, p)
        PROVE  Queued(r, q) \/ AskPermission(r, q)
    BY <1>2, <2>4, AskSession DEF Queued
  <2>5. ASSUME NEW c \in Cs, PumpPause(c), calls[c].run = r
        PROVE  Queued(r, q) \/ AskPermission(r, q)
    BY <2>5, PauseSteps DEF Queued
  <2> QED
    BY <1>0, <1>2, <2>2, <2>3, <2>4, <2>5 DEF SessionsGo
<1> QED
  BY <1>0, <1>1, <1>2 DEF SessionsGo

\* A prompt that is queued becomes what a session has recorded, or a stream
\* shows, only once it has left the queue.
LEMMA QueuedIsNews ==
  ASSUME BaseInv, SessInv, [Next]_vars, NEW r \in 1..Len(sessions'), NEW q \in Requests,
         Prompted(sessions'[r].queue, q)
  PROVE  /\ \A x \in 1..Len(sessions') : sessions'[x].lastRequest # q
         /\ \A s \in 1..Len(streams') : streams'[s].asked # q
<1>0. /\ AskedInv /\ QueueInv /\ SessionsGo /\ AskedGo
      /\ NoRequest \notin Requests
      /\ r \in Runs /\ (Queued(r, q) \/ AskPermission(r, q))
  BY SessionsGoStep, AskedGoStep, QueuedBefore, NoRequestAssumption DEF SessInv
<1>1. /\ \A x \in Runs : sessions[x].lastRequest # q
      /\ \A s \in 1..Len(streams) : streams[s].asked # q
  <2>1. CASE Queued(r, q)
    BY <1>0, <2>1 DEF QueueInv
  <2>2. CASE AskPermission(r, q)
    <3>1. askedBy[q] = None
      BY <1>0, <2>2, AskSession
    <3> QED
      BY <1>0, <3>1 DEF AskedInv
  <2> QED
    BY <1>0, <2>1, <2>2
<1>2. ASSUME NEW x \in 1..Len(sessions') PROVE sessions'[x].lastRequest # q
  <2>1. CASE x = Len(sessions) + 1 /\ sessions'[x] = NewSession
    BY <1>0, <2>1, NewSessionIs
  <2>2. CASE x \in Runs
    <3>1. CASE sessions'[x] = sessions[x] \/ Fades(sessions[x], sessions'[x])
      BY <1>1, <2>2, <3>1 DEF Fades
    <3>2. ASSUME NEW p \in Requests, AskPermission(x, p) PROVE sessions'[x].lastRequest # q
      BY <1>1, <2>2, <3>2, AskSession
    <3>3. ASSUME NEW c \in Cs, PumpPause(c), calls[c].run = x
          PROVE  sessions'[x].lastRequest # q
      BY <1>1, <3>3, PauseSteps
    <3> QED
      BY <1>0, <2>2, <3>1, <3>2, <3>3 DEF SessionsGo
  <2> QED
    BY <1>0, <2>1, <2>2 DEF SessionsGo
<1>3. ASSUME NEW s \in 1..Len(streams') PROVE streams'[s].asked # q
  <2>1. CASE streams'[s].asked = NoRequest
    BY <1>0, <2>1
  <2>2. CASE s \in 1..Len(streams) /\ streams'[s].asked = streams[s].asked
    BY <1>1, <2>2
  <2>3. ASSUME NEW c \in Cs, PumpPrompt(c), calls[c].stream = s
        PROVE  streams'[s].asked # q
    <3> DEFINE y == calls[c].run
               p == Head(sessions[y].queue).id
    <3>1. /\ y \in Runs /\ p \in Requests /\ Prompted(sessions[y].queue, p)
          /\ streams'[s].asked = p /\ askedBy' = askedBy
          /\ OnceEach(sessions[y].queue) => ~Prompted(sessions'[y].queue, p)
      BY <2>3, PumpPromptDoes
    <3> HIDE DEF y, p
    <3>2. SUFFICES ASSUME p = q PROVE FALSE
      BY <3>1
    <3>3. askedBy[q] = y /\ y # r /\ y # None
      BY <1>0, <3>1, <3>2 DEF QueueInv, Queued, Runs, None
    <3>4. CASE Queued(r, q)
      BY <1>0, <3>3, <3>4 DEF QueueInv
    <3>5. CASE AskPermission(r, q)
      BY <1>0, <3>3, <3>5, AskSession
    <3> QED
      BY <1>0, <3>4, <3>5
  <2> QED
    BY <1>0, <2>1, <2>2, <2>3 DEF AskedGo
<1> QED
  BY <1>2, <1>3

\* A request still queued was shown to nobody.
LEMMA QueueStep ==
  ASSUME BaseInv, RunsInv, SessInv, [Next]_vars
  PROVE  QueueInv'
<1>0. AskedInv /\ QueueInv /\ AskedByGo
  BY AskedByGoStep DEF SessInv
<1>1. ASSUME NEW r \in 1..Len(sessions'), NEW q \in Requests, Prompted(sessions'[r].queue, q)
      PROVE  /\ askedBy'[q] = r
             /\ \A t : Has(live', t, r) => q \in sessions'[r].pending
  <2>1. r \in Runs /\ (Queued(r, q) \/ AskPermission(r, q)) /\ r # None
    BY <1>1, QueuedBefore DEF Runs, None
  <2>2. CASE Queued(r, q)
    <3>1. askedBy'[q] = r
      BY <1>0, <2>1, <2>2 DEF QueueInv, AskedByGo
    <3>2. ASSUME NEW t, Has(live', t, r) PROVE q \in sessions'[r].pending
      <4>1. Kept(t, r)
        BY <2>1, <3>2, LiveAfter, Facts DEF Runs
      <4>2. q \in sessions[r].pending /\ sessions[r].lastRequest # q
        BY <1>0, <2>1, <2>2, <4>1 DEF QueueInv, Kept
      <4> QED
        BY <4>1, <4>2 DEF Kept, SettlesIt
    <3> QED
      BY <3>1, <3>2
  <2>3. CASE AskPermission(r, q)
    BY <2>1, <2>3, AskSession
  <2> QED
    BY <2>1, <2>2, <2>3
<1> QED
  BY <1>1, QueuesOver, QueuedIsNews DEF QueueInv, Queued, Runs

(***************************************************************************)
(* Who pumps a run.                                                        *)
(***************************************************************************)
\* A call comes to pump a run that it starts, or that was parked for it.
PumpsNow(c, r) == calls'[c].run = r /\ calls'[c].pc \in Pumping
PumpsGo ==
  \A c \in Cs : \A r : PumpsNow(c, r) =>
    \/ /\ Pumps(c, r)
       /\ calls'[c].pc # calls[c].pc => \/ calls'[c].pc = "publishing"
                                        \/ calls'[c].pc = "closing" /\ Over(sessions[r].queue)
    \/ /\ calls'[c].pc = "draining"
       /\ calls[c].pc \in {"admitting", "answering"}
       /\ \A d \in Cs : d # c => calls'[d] = calls[d]
       /\ \/ Admit(c) /\ r = Len(sessions) + 1
          \/ /\ Settle(c) /\ r \in Runs
             /\ IsParked(sessions[r]) /\ ~IsParked(sessions'[r])

\* Every step lets calls pump that way.
LEMMA PumpsGoStep ==
  ASSUME BaseInv, [Next]_vars
  PROVE  PumpsGo
<1>a. ASSUME NEW c \in Cs, NEW pc, NEW stream, CallSteps(c, pc, calls[c].run, stream),
             \/ pc \notin Pumping
             \/ /\ calls[c].pc = "draining"
                /\ pc = "publishing" \/ (pc = "closing" /\ Over(sessions[calls[c].run].queue))
      PROVE  PumpsGo
  BY <1>a DEF CallSteps, PumpsGo, PumpsNow, Pumps, Pumping
<1>b. ASSUME calls' = calls PROVE PumpsGo
  BY <1>b DEF PumpsGo, PumpsNow, Pumps, Pumping
<1>c. ASSUME NEW c \in Cs, Settle(c) PROVE PumpsGo
  <2> DEFINE r == calls[c].run
             q == sessions[r].lastRequest
  <2>1. calls[c].pc = "answering" /\ r \in Runs
    BY <1>c, SettleDoes
  <2>2. \/ /\ q \in sessions[r].pending /\ q \in Requests /\ Worked(r)
           /\ sessions'[r].pending = sessions[r].pending \ {q}
           /\ CallSteps(c, "draining", r, StreamFor(calls[c].task))
        \/ CallSteps(c, "raised", r, calls[c].stream)
    BY <1>c, SettleDoes
  <2> HIDE DEF r, q
  <2>3. CASE CallSteps(c, "raised", r, calls[c].stream)
    BY <1>a, <2>3 DEF Pumping, r
  <2>4. CASE /\ q \in sessions[r].pending /\ q \in Requests /\ Worked(r)
             /\ sessions'[r].pending = sessions[r].pending \ {q}
             /\ CallSteps(c, "draining", r, StreamFor(calls[c].task))
    <3>1. IsParked(sessions[r]) /\ ~IsParked(sessions'[r])
      BY <2>4, NoRequestAssumption DEF IsParked, Worked, Fades, q
    <3>2. \A d \in Cs : d # c => calls'[d] = calls[d]
      BY <2>4 DEF CallSteps
    <3>3. calls'[c].run = r /\ calls'[c].pc = "draining"
      BY <2>4 DEF CallSteps
    <3> QED
      BY <1>c, <2>1, <3>1, <3>2, <3>3 DEF PumpsGo, PumpsNow, Pumps, Pumping
  <2> QED
    BY <2>2, <2>3, <2>4
<1>1. ASSUME NEW t \in Tasks, Deliver(t) PROVE PumpsGo
  <2>1. \A d \in Cs : calls'[d] = calls[d]
    BY <1>1, DeliverDoes
  <2> QED
    BY <2>1 DEF PumpsGo, PumpsNow, Pumps, Pumping
<1>2. ASSUME NEW t \in Tasks, Cancel(t) PROVE PumpsGo
  <2>1. CallsOfCancelled(t)
    BY <1>2, CancelDoes
  <2> QED
    BY <2>1 DEF CallsOfCancelled, PumpsGo, PumpsNow, Pumps, Pumping
<1>3. ASSUME NEW c \in Cs, Execute(c) PROVE PumpsGo
  <2>1. CASE Greet(c)
    <3>1. CallSteps(c, "greeting", calls[c].run, calls[c].stream)
      BY <2>1, GreetDoes
    <3> QED
      BY <1>a, <3>1 DEF Pumping
  <2>2. CASE Acquire(c)
    <3>1. PICK pc \in {"waiting", "admitting", "evicting"} : CallSteps(c, pc, calls[c].run, calls[c].stream)
      BY <2>2, AcquireDoes
    <3> QED
      BY <1>a, <3>1 DEF Pumping
  <2>3. CASE GetLock(c)
    <3>1. CallSteps(c, "admitting", calls[c].run, calls[c].stream)
      BY <2>3, GetLockDoes
    <3> QED
      BY <1>a, <3>1 DEF Pumping
  <2>4. CASE Evict(c)
    <3>1. PICK pc \in {"waiting", "admitting", "evicting"} : CallSteps(c, pc, calls[c].run, calls[c].stream)
      BY <2>4, EvictDoes
    <3> QED
      BY <1>a, <3>1 DEF Pumping
  <2>5. CASE AwaitVictim(c)
    <3>1. PICK pc \in {"waiting", "admitting", "evicting"} : CallSteps(c, pc, calls[c].run, calls[c].stream)
      BY <2>5, AwaitVictimDoes
    <3> QED
      BY <1>a, <3>1 DEF Pumping
  <2>6. CASE Admit(c)
    <3>1. /\ CallSteps(c, "draining", Len(sessions) + 1, StreamFor(calls[c].task))
          /\ calls[c].pc = "admitting"
      BY <2>6, AdmitDoes
    <3> QED
      BY <2>6, <3>1 DEF CallSteps, PumpsGo, PumpsNow, Pumps, Pumping
  <2>7. CASE Raise(c)
    <3>1. CallSteps(c, "raised", calls[c].run, calls[c].stream)
      BY <2>7, RaiseDoes
    <3> QED
      BY <1>a, <3>1 DEF Pumping
  <2>8. CASE Refuse(c)
    <3>1. CallSteps(c, "refused", calls[c].run, calls[c].stream)
      BY <2>8, RefuseDoes
    <3> QED
      BY <1>a, <3>1 DEF Pumping
  <2>9. CASE Accept(c)
    <3>1. \E r \in Runs : CallSteps(c, "answering", r, streamOf[calls[c].task])
      BY <2>9, AcceptDoes
    <3> QED
      BY <3>1 DEF CallSteps, PumpsGo, PumpsNow, Pumps, Pumping
  <2>10. CASE Settle(c)
    BY <1>c, <2>10
  <2>11. CASE PumpOutput(c)
    BY <2>11, PumpOutputDoes, <1>b
  <2>12. CASE PumpPrompt(c)
    <3>1. CallSteps(c, "publishing", calls[c].run, calls[c].stream) /\ calls[c].pc = "draining"
      BY <2>12, PumpPromptDoes
    <3> QED
      BY <1>a, <3>1 DEF Pumping
  <2>13. CASE PumpPause(c)
    <3>1. CallSteps(c, "paused", calls[c].run, calls[c].stream)
      BY <2>13, PumpPauseDoes
    <3> QED
      BY <1>a, <3>1 DEF Pumping
  <2>14. CASE PumpFailure(c)
    <3>1. CallSteps(c, "failed", calls[c].run, calls[c].stream)
      BY <2>14, PumpFailureDoes
    <3> QED
      BY <1>a, <3>1 DEF Pumping
  <2>15. CASE PumpEvicted(c)
    <3>1. CallSteps(c, "evicted", calls[c].run, calls[c].stream)
      BY <2>15, PumpEvictedDoes
    <3> QED
      BY <1>a, <3>1 DEF Pumping
  <2>16. CASE PumpEnd(c)
    <3>1. CallSteps(c, "closing", calls[c].run, calls[c].stream)
          /\ calls[c].pc = "draining" /\ Over(sessions[calls[c].run].queue)
      BY <2>16, PumpEndDoes
    <3> QED
      BY <1>a, <3>1 DEF Pumping
  <2>17. CASE Complete(c)
    <3>1. CallSteps(c, "completed", calls[c].run, calls[c].stream)
      BY <2>17, CompleteDoes
    <3> QED
      BY <1>a, <3>1 DEF Pumping
  <2> QED
    BY <1>3, <2>1, <2>2, <2>3, <2>4, <2>5, <2>6, <2>7, <2>8, <2>9, <2>10,
       <2>11, <2>12, <2>13, <2>14, <2>15, <2>16, <2>17 DEF Execute
<1>4. ASSUME NEW c \in Cs, Interrupt(c) PROVE PumpsGo
  <2>1. CASE InterruptPublishing(c)
    <3>1. CallSteps(c, "dropped", calls[c].run, calls[c].stream)
      BY <2>1, InterruptQuietDoes
    <3> QED
      BY <1>a, <3>1 DEF Pumping
  <2>2. CASE InterruptWaiting(c)
    <3>1. CallSteps(c, "dropped", calls[c].run, calls[c].stream)
      BY <2>2, InterruptQuietDoes
    <3> QED
      BY <1>a, <3>1 DEF Pumping
  <2>3. CASE InterruptEvicting(c)
    <3>1. CallSteps(c, "dropped", calls[c].run, calls[c].stream)
      BY <2>3, InterruptEvictingDoes
    <3> QED
      BY <1>a, <3>1 DEF Pumping
  <2>4. CASE SwallowCancel(c)
    <3>1. CallSteps(c, "evicting", calls[c].run, calls[c].stream)
      BY <2>4, SwallowCancelDoes
    <3> QED
      BY <1>a, <3>1 DEF Pumping
  <2>5. CASE InterruptPump(c)
    <3>1. CallSteps(c, "dropped", calls[c].run, calls[c].stream)
      BY <2>5, InterruptPumpDoes
    <3> QED
      BY <1>a, <3>1 DEF Pumping
  <2> QED
    BY <1>4, <2>1, <2>2, <2>3, <2>4, <2>5 DEF Interrupt
<1>5. ASSUME NEW r \in Runs, Run(r) PROVE PumpsGo
  <2>1. CASE Begin(r) \/ Register(r) \/ Speak(r) \/ Return(r) \/ Fail(r)
    BY <2>1, RunnerDoes, <1>b
  <2>2. ASSUME NEW q \in Requests, AskPermission(r, q) PROVE PumpsGo
    BY <2>2, AskPermissionDoes, <1>b
  <2> QED
    BY <1>5, <2>1, <2>2 DEF Run
<1>6. ASSUME NEW r \in Runs, KeepClosing(r) PROVE PumpsGo
  BY <1>6, KeepClosingDoes, <1>b
<1>7. CASE UNCHANGED vars
  BY <1>7, <1>b DEF vars
<1> QED
  BY <1>1, <1>2, <1>3, <1>4, <1>5, <1>6, <1>7 DEF Next, Cs

\* No two calls pump a run, none one that is parked.
PumpInv == /\ \A c, d \in Cs : \A r \in Runs : Pumps(c, r) /\ Pumps(d, r) => c = d
           /\ \A c \in Cs : \A r \in Runs : Pumps(c, r) => ~IsParked(sessions[r])

\* Only the pause of its pump parks a session.
LEMMA ParkedBefore ==
  ASSUME BaseInv, SessInv, [Next]_vars, NEW r \in 1..Len(sessions'), IsParked(sessions'[r])
  PROVE  /\ r \in Runs
         /\ \/ /\ IsParked(sessions[r])
               /\ sessions'[r].lastRequest = sessions[r].lastRequest
            \/ \E c \in Cs : PumpPause(c) /\ calls[c].run = r
<1>0. AskedInv /\ SessionsGo
  BY SessionsGoStep DEF SessInv
<1>1. CASE r = Len(sessions) + 1 /\ sessions'[r] = NewSession
  BY <1>1, NewSessionIs DEF IsParked
<1>2. CASE r \in Runs
  <2>1. CASE sessions'[r] = sessions[r] \/ Fades(sessions[r], sessions'[r])
    BY <1>2, <2>1 DEF Fades, IsParked
  <2>2. ASSUME NEW q \in Requests, AskPermission(r, q)
        PROVE  IsParked(sessions[r]) /\ sessions'[r].lastRequest = sessions[r].lastRequest
    <3>1. /\ sessions'[r].lastRequest = sessions[r].lastRequest
          /\ sessions'[r].pending = sessions[r].pending \cup {q}
          /\ askedBy[q] = None
      BY <1>2, <2>2, AskSession
    <3>2. sessions[r].lastRequest # q
      BY <1>0, <1>2, <3>1, NoRequestAssumption DEF AskedInv
    <3> QED
      BY <3>1, <3>2 DEF IsParked
  <2> QED
    BY <1>0, <1>2, <2>1, <2>2 DEF SessionsGo
<1> QED
  BY <1>0, <1>1, <1>2 DEF SessionsGo

\* A run has one pump, and none while it is parked.
LEMMA PumpStep ==
  ASSUME BaseInv, SessInv, PumpInv, [Next]_vars
  PROVE  PumpInv'
<1>0. /\ PumpsGo
      /\ \A c \in Cs : \A r : Pumps(c, r) => r \in Runs
      /\ Len(sessions) \in Nat
  BY PumpsGoStep, Facts DEF Pumps, Attended, Pumping
<1>1. ASSUME NEW c \in 1..Len(calls'), NEW r, PumpsNow(c, r) PROVE c \in Cs
  BY <1>1, CallsAfter DEF PumpsNow, Pumping
<1>2. ASSUME NEW c \in Cs, NEW d \in Cs, NEW r, PumpsNow(c, r), PumpsNow(d, r), c # d
      PROVE  FALSE
  <2>1. CASE Pumps(c, r) /\ Pumps(d, r)
    BY <1>0, <1>2, <2>1 DEF PumpInv
  <2>2. ASSUME NEW x \in Cs, NEW y \in Cs, Pumps(x, r), x # y, PumpsNow(y, r), ~Pumps(y, r)
        PROVE  FALSE
    BY <1>0, <2>2 DEF PumpInv, PumpsGo, Runs
  <2>3. CASE ~Pumps(c, r) /\ ~Pumps(d, r)
    <3>1. calls[d].pc \in {"admitting", "answering"} /\ calls'[d] = calls[d]
      BY <1>0, <1>2, <2>3 DEF PumpsGo
    <3> QED
      BY <1>2, <3>1 DEF PumpsNow, Pumping
  <2> QED
    BY <1>2, <2>1, <2>2, <2>3
<1>3. ASSUME NEW c \in Cs, NEW r \in 1..Len(sessions'), PumpsNow(c, r), IsParked(sessions'[r])
      PROVE  FALSE
  <2>1. r \in Runs /\ (IsParked(sessions[r]) \/ \E d \in Cs : PumpPause(d) /\ calls[d].run = r)
    BY <1>3, ParkedBefore
  <2>2. r # Len(sessions) + 1
    BY <1>0, <2>1 DEF Runs
  <2>3. Pumps(c, r)
    BY <1>0, <1>3, <2>2 DEF PumpsGo
  <2>4. ~IsParked(sessions[r])
    BY <2>1, <2>3 DEF PumpInv
  <2>5. PICK d \in Cs : PumpPause(d) /\ calls[d].run = r
    BY <2>1, <2>4
  <2>6. calls[d].pc = "publishing" /\ calls'[d].pc = "paused"
    BY <2>5, PumpPauseDoes DEF CallSteps
  <2>7. d = c
    BY <2>1, <2>3, <2>5, <2>6 DEF PumpInv, Pumps
  <2> QED
    BY <1>3, <2>6, <2>7 DEF PumpsNow, Pumping
<1> QED
  BY <1>1, <1>2, <1>3 DEF PumpInv, Pumps, PumpsNow, Pumping, Cs, Runs

\* The last chunks are those of a run that is over.
LEMMA ClosingStep ==
  ASSUME BaseInv, SessInv, [Next]_vars
  PROVE  ClosingInv'
<1> SUFFICES ASSUME NEW c \in 1..Len(calls'), calls'[c].pc = "closing"
             PROVE  ~Alive(sessions'[calls'[c].run])
  BY DEF ClosingInv, Cs
<1> DEFINE r == calls'[c].run
<1>0. /\ PumpsGo /\ QueueInv /\ ClosingInv /\ c \in Cs
      /\ \A d \in Cs : \A x : Pumps(d, x) => x \in Runs
  BY PumpsGoStep, CallsAfter, Facts DEF SessInv, Pumps, Attended, Pumping
<1>1. PumpsNow(c, r)
  BY DEF PumpsNow, Pumping
<1>2. /\ Pumps(c, r)
      /\ calls[c].pc # "closing" => Over(sessions[r].queue)
  BY <1>0, <1>1 DEF PumpsGo
<1>3. ~Alive(sessions[r]) /\ r \in Runs
  BY <1>0, <1>2 DEF QueueInv, ClosingInv, Pumps
<1> QED
  BY <1>3, OverStays

\* The invariant of sessions is inductive.
LEMMA SessStep ==
  ASSUME BaseInv, RunsInv, SessInv, [Next]_vars
  PROVE  SessInv'
BY AskedStep, QueueStep, ClosingStep DEF SessInv

(***************************************************************************)
(* How calls come into each part of execute, and runs out of the table.    *)
(***************************************************************************)
\* How a call comes into each part of execute, and how it leaves _pump.
CallGoes(c) ==
  /\ calls'[c].pc \in Entering => calls[c].pc \in Entering \/ Greet(c)
  /\ calls'[c].interrupted => calls[c].interrupted \/ Cancel(calls[c].task)
  /\ calls'[c].pc \in Attended =>
       \/ /\ calls[c].pc \in Attended
          /\ calls'[c].run = calls[c].run
          /\ calls'[c].stream \in {calls[c].stream, StreamFor(calls[c].task)}
          /\ calls'[c].pc = "answering" => calls[c].pc = "answering"
          /\ calls'[c].pc = "publishing" => calls[c].pc = "publishing" \/ PumpPrompt(c)
       \/ Accept(c) \/ Admit(c)
  /\ calls[c].pc \in Pumping =>
       \/ calls'[c].pc \in Pumping /\ calls'[c].run = calls[c].run
       \/ PumpPause(c) \/ LiveDrops(calls[c].task)
       \/ calls[c].run \in evicted \/ calls[c].interrupted
CallsGo == \A c \in Cs : CallGoes(c)

\* Every step moves the calls that way.
LEMMA CallsGoStep ==
  ASSUME BaseInv, [Next]_vars
  PROVE  CallsGo
<1>a. ASSUME NEW c \in Cs, NEW pc, NEW stream, CallSteps(c, pc, calls[c].run, stream),
             stream \in {calls[c].stream, StreamFor(calls[c].task)},
             ~calls'[c].interrupted,
             pc \in Entering => calls[c].pc \in Entering \/ Greet(c),
             pc \in Attended => /\ calls[c].pc \in Attended /\ pc # "answering"
                                /\ pc = "publishing" => PumpPrompt(c),
             calls[c].pc \in Pumping =>
               \/ pc \in Pumping \/ PumpPause(c) \/ LiveDrops(calls[c].task)
               \/ calls[c].run \in evicted \/ calls[c].interrupted
      PROVE  CallsGo
  <2>1. CallGoes(c)
    BY <1>a DEF CallSteps, CallGoes
  <2>2. \A d \in Cs : d # c => CallGoes(d)
    BY <1>a DEF CallSteps, CallGoes, Attended, Pumping
  <2> QED
    BY <2>1, <2>2 DEF CallsGo
<1>b. ASSUME calls' = calls PROVE CallsGo
  BY <1>b DEF CallsGo, CallGoes, Attended, Pumping
<1>c. ASSUME NEW c \in Cs, Accept(c) \/ Admit(c), NEW pc, NEW run, NEW stream,
             CallSteps(c, pc, run, stream), ~calls'[c].interrupted, pc \in Attended,
             calls[c].pc \notin Pumping
      PROVE  CallsGo
  <2>1. CallGoes(c)
    BY <1>c DEF CallSteps, CallGoes, Entering, Attended, Pumping
  <2>2. \A d \in Cs : d # c => CallGoes(d)
    BY <1>c DEF CallSteps, CallGoes, Attended, Pumping
  <2> QED
    BY <2>1, <2>2 DEF CallsGo
<1>1. ASSUME NEW t \in Tasks, Deliver(t) PROVE CallsGo
  <2>1. \A d \in Cs : calls'[d] = calls[d]
    BY <1>1, DeliverDoes
  <2> QED
    BY <2>1 DEF CallsGo, CallGoes, Attended, Pumping
<1>2. ASSUME NEW t \in Tasks, Cancel(t) PROVE CallsGo
  <2>1. CallsOfCancelled(t)
    BY <1>2, CancelDoes
  <2>2. ASSUME NEW c \in Cs PROVE CallGoes(c)
    <3>1. /\ calls'[c].run = calls[c].run /\ calls'[c].stream = calls[c].stream
          /\ calls'[c].pc = calls[c].pc \/ (calls[c].pc = "queued" /\ calls'[c].pc = "dropped")
          /\ calls'[c].interrupted => calls[c].interrupted \/ calls[c].task = t
      BY <2>1 DEF CallsOfCancelled, InProgress
    <3> QED
      BY <1>2, <3>1 DEF CallGoes, Entering, Attended, Pumping
  <2> QED
    BY <2>2 DEF CallsGo
<1>3. ASSUME NEW c \in Cs, Execute(c) PROVE CallsGo
  <2>1. CASE Greet(c)
    <3>1. /\ CallSteps(c, "greeting", calls[c].run, calls[c].stream) /\ calls[c].pc = "queued"
          /\ ~calls'[c].interrupted
      BY <2>1, GreetDoes
    <3> QED
      BY <1>a, <2>1, <3>1 DEF Entering, Attended, Pumping
  <2>2. CASE Acquire(c)
    <3>1. PICK pc \in {"waiting", "admitting", "evicting"} : CallSteps(c, pc, calls[c].run, calls[c].stream)
      BY <2>2, AcquireDoes
    <3>2. calls[c].pc = "greeting" /\ ~calls'[c].interrupted
      BY <2>2, AcquireDoes
    <3> QED
      BY <1>a, <3>1, <3>2 DEF Entering, Attended, Pumping
  <2>3. CASE GetLock(c)
    <3>1. /\ CallSteps(c, "admitting", calls[c].run, calls[c].stream) /\ calls[c].pc = "waiting"
          /\ ~calls'[c].interrupted
      BY <2>3, GetLockDoes
    <3> QED
      BY <1>a, <2>3, <3>1 DEF Entering, Attended, Pumping
  <2>4. CASE Evict(c)
    <3>1. PICK pc \in {"waiting", "admitting", "evicting"} : CallSteps(c, pc, calls[c].run, calls[c].stream)
      BY <2>4, EvictDoes
    <3>2. calls[c].pc = "admitting" /\ ~calls'[c].interrupted
      BY <2>4, EvictDoes
    <3> QED
      BY <1>a, <3>1, <3>2 DEF Entering, Attended, Pumping
  <2>5. CASE AwaitVictim(c)
    <3>1. PICK pc \in {"waiting", "admitting", "evicting"} : CallSteps(c, pc, calls[c].run, calls[c].stream)
      BY <2>5, AwaitVictimDoes
    <3>2. calls[c].pc = "evicting" /\ ~calls'[c].interrupted
      BY <2>5, AwaitVictimDoes
    <3> QED
      BY <1>a, <3>1, <3>2 DEF Entering, Attended, Pumping
  <2>6. CASE Admit(c)
    <3>1. /\ CallSteps(c, "draining", Len(sessions) + 1, StreamFor(calls[c].task))
          /\ calls[c].pc = "admitting" /\ ~calls'[c].interrupted
      BY <2>6, AdmitDoes
    <3> QED
      BY <1>c, <2>6, <3>1 DEF Attended, Pumping
  <2>7. CASE Raise(c)
    <3>1. /\ CallSteps(c, "raised", calls[c].run, calls[c].stream) /\ calls[c].pc = "queued"
          /\ ~calls'[c].interrupted
      BY <2>7, RaiseDoes
    <3> QED
      BY <1>a, <2>7, <3>1 DEF Entering, Attended, Pumping
  <2>8. CASE Refuse(c)
    <3>1. /\ CallSteps(c, "refused", calls[c].run, calls[c].stream) /\ calls[c].pc = "queued"
          /\ ~calls'[c].interrupted
      BY <2>8, RefuseDoes
    <3> QED
      BY <1>a, <2>8, <3>1 DEF Entering, Attended, Pumping
  <2>9. CASE Accept(c)
    <3>1. PICK r \in Runs : CallSteps(c, "answering", r, streamOf[calls[c].task])
      BY <2>9, AcceptDoes
    <3>2. calls[c].pc = "queued" /\ ~calls'[c].interrupted
      BY <2>9, AcceptDoes
    <3> QED
      BY <1>c, <2>9, <3>1, <3>2 DEF Attended, Pumping
  <2>10. CASE Settle(c)
    <3>1. calls[c].pc = "answering" /\ ~calls'[c].interrupted
      BY <2>10, SettleDoes
    <3>2. \/ CallSteps(c, "draining", calls[c].run, StreamFor(calls[c].task))
          \/ CallSteps(c, "raised", calls[c].run, calls[c].stream)
      BY <2>10, SettleDoes
    <3> QED
      BY <1>a, <3>1, <3>2 DEF Entering, Attended, Pumping
  <2>11. CASE PumpOutput(c)
    BY <2>11, PumpOutputDoes, <1>b
  <2>12. CASE PumpPrompt(c)
    <3>1. /\ CallSteps(c, "publishing", calls[c].run, calls[c].stream) /\ calls[c].pc = "draining"
          /\ ~calls'[c].interrupted
      BY <2>12, PumpPromptDoes
    <3> QED
      BY <1>a, <2>12, <3>1 DEF Entering, Attended, Pumping
  <2>13. CASE PumpPause(c)
    <3>1. /\ CallSteps(c, "paused", calls[c].run, calls[c].stream) /\ calls[c].pc = "publishing"
          /\ ~calls'[c].interrupted
      BY <2>13, PumpPauseDoes
    <3> QED
      BY <1>a, <2>13, <3>1 DEF Entering, Attended, Pumping
  <2>14. CASE PumpFailure(c)
    <3>1. /\ CallSteps(c, "failed", calls[c].run, calls[c].stream) /\ calls[c].pc = "draining"
          /\ ~calls'[c].interrupted
          /\ LiveDrops(calls[c].task)
      BY <2>14, PumpFailureDoes
    <3> QED
      BY <1>a, <2>14, <3>1 DEF Entering, Attended, Pumping
  <2>15. CASE PumpEvicted(c)
    <3>1. /\ CallSteps(c, "evicted", calls[c].run, calls[c].stream) /\ calls[c].pc = "draining"
          /\ ~calls'[c].interrupted
          /\ calls[c].run \in evicted
      BY <2>15, PumpEvictedDoes
    <3> QED
      BY <1>a, <2>15, <3>1 DEF Entering, Attended, Pumping
  <2>16. CASE PumpEnd(c)
    <3>1. /\ CallSteps(c, "closing", calls[c].run, calls[c].stream) /\ calls[c].pc = "draining"
          /\ ~calls'[c].interrupted
      BY <2>16, PumpEndDoes
    <3> QED
      BY <1>a, <2>16, <3>1 DEF Entering, Attended, Pumping
  <2>17. CASE Complete(c)
    <3>1. /\ CallSteps(c, "completed", calls[c].run, calls[c].stream) /\ calls[c].pc = "closing"
          /\ ~calls'[c].interrupted
          /\ LiveDrops(calls[c].task)
      BY <2>17, CompleteDoes
    <3> QED
      BY <1>a, <2>17, <3>1 DEF Entering, Attended, Pumping
  <2> QED
    BY <1>3, <2>1, <2>2, <2>3, <2>4, <2>5, <2>6, <2>7, <2>8, <2>9, <2>10,
       <2>11, <2>12, <2>13, <2>14, <2>15, <2>16, <2>17 DEF Execute
<1>4. ASSUME NEW c \in Cs, Interrupt(c) PROVE CallsGo
  <2>1. CASE InterruptPublishing(c)
    <3>1. /\ CallSteps(c, "dropped", calls[c].run, calls[c].stream)
          /\ ~calls'[c].interrupted
          /\ calls[c].interrupted
      BY <2>1, InterruptQuietDoes
    <3> QED
      BY <1>a, <2>1, <3>1 DEF Entering, Attended, Pumping
  <2>2. CASE InterruptWaiting(c)
    <3>1. /\ CallSteps(c, "dropped", calls[c].run, calls[c].stream)
          /\ ~calls'[c].interrupted
          /\ calls[c].interrupted
      BY <2>2, InterruptQuietDoes
    <3> QED
      BY <1>a, <2>2, <3>1 DEF Entering, Attended, Pumping
  <2>3. CASE InterruptEvicting(c)
    <3>1. /\ CallSteps(c, "dropped", calls[c].run, calls[c].stream)
          /\ ~calls'[c].interrupted
          /\ calls[c].interrupted
      BY <2>3, InterruptEvictingDoes
    <3> QED
      BY <1>a, <2>3, <3>1 DEF Entering, Attended, Pumping
  <2>4. CASE SwallowCancel(c)
    <3>1. /\ CallSteps(c, "evicting", calls[c].run, calls[c].stream) /\ calls[c].pc = "evicting"
          /\ ~calls'[c].interrupted
      BY <2>4, SwallowCancelDoes
    <3> QED
      BY <1>a, <2>4, <3>1 DEF Entering, Attended, Pumping
  <2>5. CASE InterruptPump(c)
    <3>1. /\ CallSteps(c, "dropped", calls[c].run, calls[c].stream)
          /\ ~calls'[c].interrupted
          /\ calls[c].interrupted
      BY <2>5, InterruptPumpDoes
    <3> QED
      BY <1>a, <2>5, <3>1 DEF Entering, Attended, Pumping
  <2> QED
    BY <1>4, <2>1, <2>2, <2>3, <2>4, <2>5 DEF Interrupt
<1>5. ASSUME NEW r \in Runs, Run(r) PROVE CallsGo
  <2>1. CASE Begin(r) \/ Register(r) \/ Speak(r) \/ Return(r) \/ Fail(r)
    BY <2>1, RunnerDoes, <1>b
  <2>2. ASSUME NEW q \in Requests, AskPermission(r, q) PROVE CallsGo
    BY <2>2, AskPermissionDoes, <1>b
  <2> QED
    BY <1>5, <2>1, <2>2 DEF Run
<1>6. ASSUME NEW r \in Runs, KeepClosing(r) PROVE CallsGo
  BY <1>6, KeepClosingDoes, <1>b
<1>7. CASE UNCHANGED vars
  BY <1>7, <1>b DEF vars
<1> QED
  BY <1>1, <1>2, <1>3, <1>4, <1>5, <1>6, <1>7 DEF Next, Cs

\* What takes a run out of the table: its eviction, the cancel of its task, or
\* a call of its task that ends or starts another run.
Goner(c, t) == /\ calls[c].task = t /\ calls[c].pc \in Unfinished
               /\ calls'[c].pc \in Finished \/ Admit(c)
LiveGoes(t, r) == \/ Has(live', t, r)
                  \/ r \in evicted'
                  \/ tasks'[t].cancelled
                  \/ \E c \in Cs : Goner(c, t)

\* A run stays in the table unless one of these takes it out.
LEMMA LiveStays ==
  ASSUME BaseInv, [Next]_vars, NEW u, NEW x, Has(live, u, x)
  PROVE  LiveGoes(u, x)
<1>a. ASSUME live' = live PROVE LiveGoes(u, x)
  BY <1>a DEF LiveGoes
<1>b. ASSUME NEW c \in Cs, LiveDrops(calls[c].task), calls[c].pc \in Unfinished, calls'[c].pc \in Finished
      PROVE  LiveGoes(u, x)
  BY <1>b DEF LiveGoes, LiveDrops, Goner
<1>1. ASSUME NEW t \in Tasks, Deliver(t) PROVE LiveGoes(u, x)
  BY <1>1, DeliverDoes, <1>a
<1>2. ASSUME NEW t \in Tasks, Cancel(t) PROVE LiveGoes(u, x)
  <2>1. LiveDrops(t) /\ tasks'[t].cancelled
    BY <1>2, CancelDoes
  <2> QED
    BY <2>1 DEF LiveGoes, LiveDrops
<1>3. ASSUME NEW c \in Cs, Execute(c) PROVE LiveGoes(u, x)
  <2>1. CASE Greet(c) \/ Acquire(c) \/ GetLock(c) \/ AwaitVictim(c) \/
     Raise(c) \/ Refuse(c) \/ Accept(c) \/ Settle(c)
    BY <2>1, GreetDoes, AcquireDoes, GetLockDoes, AwaitVictimDoes,
       RaiseDoes, RefuseDoes, AcceptDoes, SettleDoes, <1>a
  <2>2. CASE PumpOutput(c) \/ PumpPrompt(c) \/ PumpPause(c) \/
     PumpEvicted(c) \/ PumpEnd(c)
    BY <2>2, PumpOutputDoes, PumpPromptDoes, PumpPauseDoes,
       PumpEvictedDoes, PumpEndDoes, <1>a
  <2>3. CASE PumpFailure(c)
    <3>1. LiveDrops(calls[c].task) /\ CallSteps(c, "failed", calls[c].run, calls[c].stream) /\ calls[c].pc = "draining"
      BY <2>3, PumpFailureDoes
    <3>2. calls[c].pc \in Unfinished /\ calls'[c].pc \in Finished
      BY <3>1 DEF CallSteps, Unfinished, Finished
    <3> QED
      BY <1>b, <3>1, <3>2
  <2>4. CASE Complete(c)
    <3>1. LiveDrops(calls[c].task) /\ CallSteps(c, "completed", calls[c].run, calls[c].stream) /\ calls[c].pc = "closing"
      BY <2>4, CompleteDoes
    <3>2. calls[c].pc \in Unfinished /\ calls'[c].pc \in Finished
      BY <3>1 DEF CallSteps, Unfinished, Finished
    <3> QED
      BY <1>b, <3>1, <3>2
  <2>5. CASE Evict(c)
    <3>1. PICK v \in Tasks, r \in Runs : Has(live, v, r) /\ LiveDrops(v) /\ evicted' = evicted \cup {r}
      BY <2>5, EvictDoes
    <3>2. u = v => x = r
      BY <3>1, KeyedHas DEF BaseInv, TypeInv
    <3> QED
      BY <3>1, <3>2 DEF LiveGoes, LiveDrops
  <2>6. CASE Admit(c)
    <3>1. Has(live', u, x) \/ u = calls[c].task
      BY <2>6, AdmitDoes
    <3>2. calls[c].pc \in Unfinished
      BY <2>6, AdmitDoes DEF Unfinished
    <3> QED
      BY <2>6, <3>1, <3>2 DEF LiveGoes, Goner
  <2> QED
    BY <1>3, <2>1, <2>2, <2>3, <2>4, <2>5, <2>6 DEF Execute
<1>4. ASSUME NEW c \in Cs, Interrupt(c) PROVE LiveGoes(u, x)
  <2>1. CASE InterruptPublishing(c) \/ InterruptWaiting(c) \/
     InterruptEvicting(c) \/ SwallowCancel(c)
    BY <2>1, InterruptQuietDoes, InterruptEvictingDoes, SwallowCancelDoes,
       <1>a
  <2>2. CASE InterruptPump(c)
    <3>1. LiveDrops(calls[c].task) /\ CallSteps(c, "dropped", calls[c].run, calls[c].stream) /\ calls[c].pc \in {"draining", "publishing"}
      BY <2>2, InterruptPumpDoes
    <3>2. calls[c].pc \in Unfinished /\ calls'[c].pc \in Finished
      BY <3>1 DEF CallSteps, Unfinished, Finished
    <3> QED
      BY <1>b, <3>1, <3>2
  <2> QED
    BY <1>4, <2>1, <2>2 DEF Interrupt
<1>5. ASSUME NEW r \in Runs, Run(r) PROVE LiveGoes(u, x)
  <2>1. CASE Begin(r) \/ Register(r) \/ Speak(r) \/ Return(r) \/ Fail(r)
    BY <2>1, RunnerDoes, <1>a
  <2>2. ASSUME NEW q \in Requests, AskPermission(r, q) PROVE LiveGoes(u, x)
    BY <2>2, AskPermissionDoes, <1>a
  <2> QED
    BY <1>5, <2>1, <2>2 DEF Run
<1>6. ASSUME NEW r \in Runs, KeepClosing(r) PROVE LiveGoes(u, x)
  BY <1>6, KeepClosingDoes, <1>a
<1>7. CASE UNCHANGED vars
  BY <1>7, <1>a DEF vars
<1> QED
  BY <1>1, <1>2, <1>3, <1>4, <1>5, <1>6, <1>7 DEF Next, Cs

\* A task's stream changes as it gets one or as it leaves the table.
StreamOfGoes(t) == \/ streamOf'[t] = streamOf[t]
                   \/ \A r : ~Has(live', t, r)
                   \/ \E c \in Cs : HasStream(t) /\ calls[c].task = t

\* A task's stream stays while the task is in the table.
LEMMA StreamOfGo ==
  ASSUME BaseInv, [Next]_vars, NEW u \in Tasks
  PROVE  StreamOfGoes(u)
<1>a. ASSUME streamOf' = streamOf PROVE StreamOfGoes(u)
  BY <1>a DEF StreamOfGoes
<1>b. ASSUME NEW t, LiveDrops(t), StreamOfSteps(t, None) PROVE StreamOfGoes(u)
  BY <1>b DEF StreamOfGoes, LiveDrops, StreamOfSteps
<1>c. ASSUME NEW c \in Cs, HasStream(calls[c].task) PROVE StreamOfGoes(u)
  BY <1>c DEF StreamOfGoes, HasStream, StreamOfSteps
<1>1. ASSUME NEW t \in Tasks, Deliver(t) PROVE StreamOfGoes(u)
  BY <1>1, DeliverDoes, <1>a
<1>2. ASSUME NEW t \in Tasks, Cancel(t) PROVE StreamOfGoes(u)
  BY <1>2, CancelDoes, <1>b
<1>3. ASSUME NEW c \in Cs, Execute(c) PROVE StreamOfGoes(u)
  <2>1. CASE Greet(c) \/ Acquire(c) \/ GetLock(c) \/ AwaitVictim(c) \/
     Raise(c) \/ Refuse(c) \/ Accept(c)
    BY <2>1, GreetDoes, AcquireDoes, GetLockDoes, AwaitVictimDoes,
       RaiseDoes, RefuseDoes, AcceptDoes, <1>a
  <2>2. CASE PumpOutput(c) \/ PumpPrompt(c) \/ PumpPause(c) \/
     PumpEvicted(c) \/ PumpEnd(c)
    BY <2>2, PumpOutputDoes, PumpPromptDoes, PumpPauseDoes,
       PumpEvictedDoes, PumpEndDoes, <1>a
  <2>3. CASE PumpFailure(c) \/ Complete(c)
    BY <2>3, PumpFailureDoes, CompleteDoes, <1>b
  <2>4. CASE Evict(c)
    BY <2>4, EvictDoes, <1>b
  <2>5. CASE Admit(c)
    BY <2>5, AdmitDoes, <1>c
  <2>6. CASE Settle(c)
    <3>1. streamOf' = streamOf \/ HasStream(calls[c].task)
      BY <2>6, SettleDoes
    <3> QED
      BY <1>a, <1>c, <3>1
  <2> QED
    BY <1>3, <2>1, <2>2, <2>3, <2>4, <2>5, <2>6 DEF Execute
<1>4. ASSUME NEW c \in Cs, Interrupt(c) PROVE StreamOfGoes(u)
  <2>1. CASE InterruptPublishing(c) \/ InterruptWaiting(c) \/
     InterruptEvicting(c) \/ SwallowCancel(c)
    BY <2>1, InterruptQuietDoes, InterruptEvictingDoes, SwallowCancelDoes,
       <1>a
  <2>2. CASE InterruptPump(c)
    BY <2>2, InterruptPumpDoes, <1>b
  <2> QED
    BY <1>4, <2>1, <2>2 DEF Interrupt
<1>5. ASSUME NEW r \in Runs, Run(r) PROVE StreamOfGoes(u)
  <2>1. CASE Begin(r) \/ Register(r) \/ Speak(r) \/ Return(r) \/ Fail(r)
    BY <2>1, RunnerDoes, <1>a
  <2>2. ASSUME NEW q \in Requests, AskPermission(r, q) PROVE StreamOfGoes(u)
    BY <2>2, AskPermissionDoes, <1>a
  <2> QED
    BY <1>5, <2>1, <2>2 DEF Run
<1>6. ASSUME NEW r \in Runs, KeepClosing(r) PROVE StreamOfGoes(u)
  BY <1>6, KeepClosingDoes, <1>a
<1>7. CASE UNCHANGED vars
  BY <1>7, <1>a DEF vars
<1> QED
  BY <1>1, <1>2, <1>3, <1>4, <1>5, <1>6, <1>7 DEF Next, Cs

\* An evicted run stays evicted.
LEMMA EvictedGrows ==
  ASSUME BaseInv, [Next]_vars
  PROVE  evicted \subseteq evicted'
<1>a. ASSUME evicted' = evicted PROVE evicted \subseteq evicted'
  BY <1>a
<1>1. ASSUME NEW t \in Tasks, Deliver(t) PROVE evicted \subseteq evicted'
  BY <1>1, DeliverDoes, <1>a
<1>2. ASSUME NEW t \in Tasks, Cancel(t) PROVE evicted \subseteq evicted'
  BY <1>2, CancelDoes, <1>a
<1>3. ASSUME NEW c \in Cs, Execute(c) PROVE evicted \subseteq evicted'
  <2>1. CASE Greet(c) \/ Acquire(c) \/ GetLock(c) \/ AwaitVictim(c) \/
     Admit(c) \/ Raise(c) \/ Refuse(c) \/ Accept(c) \/ Settle(c)
    BY <2>1, GreetDoes, AcquireDoes, GetLockDoes, AwaitVictimDoes,
       AdmitDoes, RaiseDoes, RefuseDoes, AcceptDoes, SettleDoes, <1>a
  <2>2. CASE PumpOutput(c) \/ PumpPrompt(c) \/ PumpPause(c) \/
     PumpFailure(c) \/ PumpEvicted(c) \/ PumpEnd(c) \/ Complete(c)
    BY <2>2, PumpOutputDoes, PumpPromptDoes, PumpPauseDoes,
       PumpFailureDoes, PumpEvictedDoes, PumpEndDoes, CompleteDoes, <1>a
  <2>3. CASE Evict(c)
    BY <2>3, EvictDoes
  <2> QED
    BY <1>3, <2>1, <2>2, <2>3 DEF Execute
<1>4. ASSUME NEW c \in Cs, Interrupt(c) PROVE evicted \subseteq evicted'
  <2>1. CASE InterruptPublishing(c) \/ InterruptWaiting(c) \/
     InterruptEvicting(c) \/ SwallowCancel(c) \/ InterruptPump(c)
    BY <2>1, InterruptQuietDoes, InterruptEvictingDoes, SwallowCancelDoes,
       InterruptPumpDoes, <1>a
  <2> QED
    BY <1>4, <2>1 DEF Interrupt
<1>5. ASSUME NEW r \in Runs, Run(r) PROVE evicted \subseteq evicted'
  <2>1. CASE Begin(r) \/ Register(r) \/ Speak(r) \/ Return(r) \/ Fail(r)
    BY <2>1, RunnerDoes, <1>a
  <2>2. ASSUME NEW q \in Requests, AskPermission(r, q) PROVE evicted \subseteq evicted'
    BY <2>2, AskPermissionDoes, <1>a
  <2> QED
    BY <1>5, <2>1, <2>2 DEF Run
<1>6. ASSUME NEW r \in Runs, KeepClosing(r) PROVE evicted \subseteq evicted'
  BY <1>6, KeepClosingDoes, <1>a
<1>7. CASE UNCHANGED vars
  BY <1>7, <1>a DEF vars
<1> QED
  BY <1>1, <1>2, <1>3, <1>4, <1>5, <1>6, <1>7 DEF Next, Cs

(***************************************************************************)
(* The call at work on a task, and the entry of its run.                   *)
(***************************************************************************)
\* A call that has not got a run yet, or is to be cancelled, has nothing in the
\* table; one that has got one shares it, and its stream, with the table.
EnteringInv ==
  \A c \in Cs : calls[c].task \in InTurn /\ (calls[c].pc \in Entering \/ calls[c].interrupted)
    => \A r : ~Has(live, calls[c].task, r)

AttendingInv ==
  \A c \in Cs : calls[c].task \in InTurn /\ calls[c].pc \in Attended =>
    /\ \A r : Has(live, calls[c].task, r) =>
         /\ calls[c].run = r
         /\ calls[c].stream = streamOf[calls[c].task]
         /\ calls[c].pc = "answering" => IsParked(sessions[r])
         /\ calls[c].pc = "publishing" => streams[calls[c].stream].asked \in sessions[r].pending
    /\ ~tasks[calls[c].task].cancelled
         => calls[c].run \in evicted \/ Has(live, calls[c].task, calls[c].run)

\* A run in the table is parked on what its task's stream shows, or pumped.
ParkedInv ==
  \A t, r : Has(live, t, r) =>
    /\ streamOf[t] # None
    /\ t \in InTurn =>
         /\ IsParked(sessions[r]) => streams[streamOf[t]].asked = sessions[r].lastRequest
         /\ IsParked(sessions[r]) \/ \E c \in Cs : Pumps(c, r)

Ground == BaseInv /\ RunsInv /\ SerialInv /\ StreamInv /\ SessInv /\ PumpInv

WorkInv == EnteringInv /\ AttendingInv /\ ParkedInv

\* The call that changes is the only one at work on its task.
LEMMA AdmitAlone ==
  ASSUME Ground, NEW c \in Cs, NEW d \in Cs, Admit(d), calls[d].task = calls[c].task,
         calls[c].task \in InTurn, calls'[c].pc \in Unfinished, c # d
  PROVE  FALSE
<1>1. calls[d].pc \in Unfinished /\ calls'[c] = calls[c]
  BY AdmitDoes DEF Ground, CallSteps, Unfinished
<1> QED
  BY <1>1, Alone DEF Ground

\* A call that has no run yet has no entry.
LEMMA EnteringStep ==
  ASSUME Ground, WorkInv, [Next]_vars
  PROVE  EnteringInv'
<1> SUFFICES ASSUME NEW c \in 1..Len(calls'), calls'[c].task \in InTurn,
                    calls'[c].pc \in Entering \/ calls'[c].interrupted,
                    NEW r, Has(live', calls'[c].task, r)
             PROVE  FALSE
  BY DEF EnteringInv, Cs
<1>0. BaseInv /\ RunsInv /\ CallsGo /\ CallsGoOn /\ EnteringInv
  BY CallsGoStep, CallsGoOnStep DEF Ground, WorkInv
<1>1. c \in Cs
  BY <1>0, CallsAfter DEF Entering
<1> DEFINE t == calls[c].task
<1>2. calls'[c].task = t /\ t \in InTurn
  BY <1>0, <1>1 DEF CallsGoOn
<1>3. CASE Kept(t, r)
  <2>1. Has(live, t, r)
    BY <1>3 DEF Kept
  <2>2. calls[c].pc \notin Entering /\ ~calls[c].interrupted
    BY <1>0, <1>1, <1>2, <2>1 DEF EnteringInv
  <2>3. CASE Greet(c)
    BY <1>0, <1>1, <2>1, <2>3, GreetDoes
  <2>4. CASE Cancel(t)
    <3>1. t \in Tasks
      BY <1>0, <1>1, Facts
    <3>2. LiveDrops(t)
      BY <1>0, <2>4, <3>1, CancelDoes
    <3> QED
      BY <1>2, <3>2 DEF LiveDrops
  <2> QED
    BY <1>0, <1>1, <2>2, <2>3, <2>4 DEF CallsGo, CallGoes
<1>4. ASSUME NEW d \in Cs, Admit(d), calls[d].task = t
      PROVE  FALSE
  <2>1. calls'[d].pc = "draining" /\ ~calls'[d].interrupted
    BY <1>0, <1>4, AdmitDoes DEF CallSteps
  <2>2. c # d
    BY <2>1 DEF Entering
  <2>3. calls'[c].pc \in Unfinished
    <3>1. CASE calls'[c].pc \in Entering
      BY <3>1 DEF Entering, Unfinished
    <3>2. CASE calls'[c].interrupted
      BY <1>0, <1>1, <3>2, InterruptedStep, NothingIsLost, Facts
      DEF RunsInv, InterruptedInv, NoneLost, Cs
    <3> QED
      BY <3>1, <3>2
  <2> QED
    BY <1>1, <1>2, <1>4, <2>2, <2>3, AdmitAlone
<1> QED
  BY <1>0, <1>2, <1>3, <1>4, LiveAfter

\* The stream of a task that stays in the table does not change.
LEMMA StreamOfKept ==
  ASSUME Ground, WorkInv, [Next]_vars, NEW t, NEW r, Has(live, t, r), Has(live', t, r)
  PROVE  /\ t \in Tasks /\ streamOf[t] \in 1..Len(streams)
         /\ StreamFor(t) = streamOf[t]
         /\ streamOf'[t] = streamOf[t]
<1>1. t \in Tasks /\ streamOf[t] # None /\ streamOf[t] \in 0..Len(streams)
  BY DEF Ground, BaseInv, RangeInv, TablesInRange, WorkInv, ParkedInv
<1>2. StreamFor(t) = streamOf[t]
  BY <1>1 DEF StreamFor
<1>3. streamOf[t] \in 1..Len(streams)
  BY <1>1 DEF None
<1>4. streamOf'[t] = streamOf[t]
  BY <1>1, <1>2, StreamOfGo DEF StreamOfGoes, HasStream, StreamOfSteps, Ground
<1> QED
  BY <1>1, <1>2, <1>3, <1>4

\* What a stream in use shows changes only as its own task's call pumps a prompt.
LEMMA AskedKept ==
  ASSUME Ground, [Next]_vars, NEW t \in Tasks, NEW s \in 1..Len(streams), Uses(t, s)
  PROVE  \/ streams'[s].asked = streams[s].asked
         \/ \E c \in Cs : PumpPrompt(c) /\ calls[c].task = t /\ calls[c].stream = s
<1>1. s \in 1..Len(streams') /\ AskedGo
  BY NothingIsLost, AskedGoStep, Facts DEF Ground, NoneLost
<1>2. ASSUME NEW c \in Cs, PumpPrompt(c), calls[c].stream = s
      PROVE  calls[c].task = t
  <2>1. calls[c].task \in Tasks /\ Uses(calls[c].task, s)
    BY <1>2, Facts DEF Uses, Ground
  <2> QED
    BY <2>1 DEF Ground, StreamInv
<1> QED
  BY <1>1, <1>2 DEF AskedGo

\* A call at work on a run that stays in the table keeps its run and its stream.
LEMMA AttendingKept ==
  ASSUME Ground, WorkInv, [Next]_vars,
         NEW c \in Cs, calls[c].task \in InTurn, calls'[c].pc \in Attended,
         NEW r, Kept(calls[c].task, r), Has(live', calls[c].task, r)
  PROVE  /\ calls'[c].run = r
         /\ calls'[c].stream = streamOf'[calls[c].task]
<1> DEFINE t == calls[c].task
<1>0. /\ BaseInv /\ CallsGo /\ AttendingInv
      /\ Has(live, t, r) /\ r \in Runs
  BY CallsGoStep DEF Ground, WorkInv, Kept
<1>1. StreamFor(t) = streamOf[t] /\ streamOf'[t] = streamOf[t]
  BY <1>0, StreamOfKept
<1>2. CASE /\ calls[c].pc \in Attended
           /\ calls'[c].run = calls[c].run
           /\ calls'[c].stream \in {calls[c].stream, StreamFor(t)}
  <2>1. calls[c].run = r /\ calls[c].stream = streamOf[t]
    BY <1>0, <1>2 DEF AttendingInv
  <2> QED
    BY <1>1, <1>2, <2>1
<1>3. CASE Accept(c)
  <2>1. PICK x \in Runs : Has(live, t, x) /\ CallSteps(c, "answering", x, streamOf[t])
    BY <1>0, <1>3, AcceptDoes
  <2>2. x = r
    BY <1>0, <2>1, KeyedHas DEF BaseInv, TypeInv
  <2> QED
    BY <1>1, <2>1, <2>2 DEF CallSteps
<1>4. CASE Admit(c)
  <2>1. Has(live', t, r) => r = Len(sessions) + 1
    BY <1>0, <1>4, AdmitDoes
  <2> QED
    BY <1>0, <2>1, Facts DEF Runs
<1> QED
  BY <1>0, <1>2, <1>3, <1>4 DEF CallsGo, CallGoes

\* Of a run that stays in the table, a call being answered leaves it parked.
LEMMA AnsweringKept ==
  ASSUME Ground, WorkInv, [Next]_vars,
         NEW c \in Cs, calls[c].task \in InTurn, calls'[c].pc = "answering",
         NEW r, Kept(calls[c].task, r), Has(live', calls[c].task, r)
  PROVE  IsParked(sessions'[r])
<1> DEFINE t == calls[c].task
<1>0. /\ BaseInv /\ CallsGo /\ AttendingInv /\ SessionsGo /\ SerialInv
      /\ Has(live, t, r) /\ r \in Runs
      /\ \A d \in Cs : calls[d].run = r => calls[d].task = t
  BY CallsGoStep, SessionsGoStep DEF Ground, WorkInv, Kept, RunsInv, LiveInv
<1>1. CASE calls[c].pc = "answering"
  <2>1. IsParked(sessions[r]) /\ calls[c].pc \in Unfinished
    BY <1>0, <1>1 DEF AttendingInv, Attended, Unfinished
  <2>2. ASSUME NEW d \in Cs, calls[d].run = r, calls[d].pc \in Unfinished PROVE d = c
    BY <1>0, <2>1, <2>2, Alone
  <2>3. ASSUME NEW d \in Cs, SettlesIt(d, r) PROVE FALSE
    <3>1. calls[d].run = r /\ calls[d].pc \in Unfinished
      BY <1>0, <2>3, SettleDoes DEF SettlesIt, Unfinished
    <3>2. d = c
      BY <2>2, <3>1
    <3>3. calls'[d].pc \in {"draining", "raised"}
      BY <1>0, <2>3, SettleDoes DEF SettlesIt, CallSteps
    <3> QED
      BY <3>2, <3>3
  <2>4. sessions[r].pending \subseteq sessions'[r].pending
    BY <2>3 DEF Kept
  <2>5. sessions'[r].lastRequest = sessions[r].lastRequest
    <3>1. CASE sessions'[r] = sessions[r] \/ Fades(sessions[r], sessions'[r])
      BY <3>1 DEF Fades
    <3>2. ASSUME NEW q \in Requests, AskPermission(r, q)
          PROVE  sessions'[r].lastRequest = sessions[r].lastRequest
      BY <1>0, <3>2, AskSession
    <3>3. ASSUME NEW d \in Cs, PumpPause(d), calls[d].run = r PROVE FALSE
      <4>1. calls[d].pc = "publishing"
        BY <1>0, <3>3, PumpPauseDoes
      <4> QED
        BY <1>1, <2>2, <3>3, <4>1 DEF Unfinished
    <3> QED
      BY <1>0, <3>1, <3>2, <3>3 DEF SessionsGo
  <2> QED
    BY <2>1, <2>4, <2>5 DEF IsParked
<1>2. CASE Accept(c)
  <2>1. PICK x \in Runs : Has(live, t, x) /\ IsParked(sessions[x])
    BY <1>0, <1>2, AcceptDoes
  <2>2. x = r
    BY <1>0, <2>1, KeyedHas DEF BaseInv, TypeInv
  <2>3. sessions' = sessions
    BY <1>0, <1>2, AcceptDoes
  <2> QED
    BY <2>1, <2>2, <2>3
<1>3. CASE Admit(c)
  BY <1>0, <1>3, AdmitDoes DEF CallSteps
<1> QED
  BY <1>0, <1>1, <1>2, <1>3 DEF CallsGo, CallGoes, Attended

\* ... and one being published leaves the prompt pending.
LEMMA PublishingKept ==
  ASSUME Ground, WorkInv, [Next]_vars,
         NEW c \in Cs, calls[c].task \in InTurn, calls'[c].pc = "publishing",
         NEW r, Kept(calls[c].task, r), Has(live', calls[c].task, r)
  PROVE  streams'[calls'[c].stream].asked \in sessions'[r].pending
<1> DEFINE t == calls[c].task
           s == streamOf[t]
<1>0. /\ BaseInv /\ CallsGo /\ AttendingInv /\ SerialInv /\ QueueInv
      /\ Has(live, t, r) /\ r \in Runs
      /\ t \in Tasks
      /\ \A d \in Cs : calls[d].run = r => calls[d].task = t
  BY CallsGoStep, Facts DEF Ground, WorkInv, Kept, RunsInv, LiveInv, SessInv
<1>1. calls'[c].stream = s /\ s \in 1..Len(streams)
  <2>1. calls'[c].stream = streamOf'[t]
    BY AttendingKept DEF Attended, Pumping
  <2> QED
    BY <1>0, <2>1, StreamOfKept
<1>2. CASE calls[c].pc = "publishing"
  <2>1. streams[s].asked \in sessions[r].pending /\ calls[c].pc \in Unfinished
    BY <1>0, <1>2 DEF AttendingInv, Attended, Pumping, Unfinished
  <2>2. ASSUME NEW d \in Cs, calls[d].task = t, calls[d].pc \in Unfinished PROVE d = c
    BY <1>0, <2>1, <2>2, Alone
  <2>3. sessions[r].pending \subseteq sessions'[r].pending
    <3>1. ASSUME NEW d \in Cs, SettlesIt(d, r) PROVE FALSE
      <4>1. calls[d].run = r /\ calls[d].pc = "answering"
        BY <1>0, <3>1, SettleDoes DEF SettlesIt
      <4> QED
        BY <1>0, <1>2, <2>2, <4>1 DEF Unfinished
    <3> QED
      BY <3>1 DEF Kept
  <2>4. streams'[s].asked = streams[s].asked
    <3>1. ASSUME NEW d \in Cs, PumpPrompt(d), calls[d].task = t PROVE FALSE
      <4>1. calls[d].pc = "draining"
        BY <1>0, <3>1, PumpPromptDoes
      <4> QED
        BY <1>2, <2>2, <3>1, <4>1 DEF Unfinished
    <3>2. Uses(t, s)
      BY DEF Uses
    <3> HIDE DEF s, t
    <3> QED
      BY <1>0, <1>1, <3>1, <3>2, AskedKept
  <2> QED
    BY <1>1, <2>1, <2>3, <2>4
<1>3. CASE PumpPrompt(c)
  <2> DEFINE q == Head(sessions[r].queue).id
  <2>1. calls[c].pc = "draining"
    BY <1>0, <1>3, PumpPromptDoes
  <2>2. calls[c].run = r /\ calls[c].stream = s
    BY <1>0, <2>1 DEF AttendingInv, Attended, Pumping
  <2>3. /\ q \in Requests /\ Prompted(sessions[r].queue, q)
        /\ streams'[s].asked = q
        /\ sessions'[r].pending = sessions[r].pending
    BY <1>0, <1>3, <2>2, PumpPromptDoes
  <2> HIDE DEF q, s
  <2>4. q \in sessions[r].pending
    BY <1>0, <2>3 DEF QueueInv, Queued
  <2> QED
    BY <1>1, <2>3, <2>4
<1>4. CASE Accept(c)
  <2>1. \E x \in Runs : CallSteps(c, "answering", x, s)
    BY <1>0, <1>4, AcceptDoes
  <2> QED
    BY <2>1 DEF CallSteps
<1>5. CASE Admit(c)
  BY <1>0, <1>5, AdmitDoes DEF CallSteps
<1> QED
  BY <1>0, <1>2, <1>3, <1>4, <1>5 DEF CallsGo, CallGoes, Attended, Pumping

\* A call at work whose task has not been cancelled has its run in the table, or
\* the run was evicted.
LEMMA AttendedIsHeld ==
  ASSUME Ground, WorkInv, [Next]_vars,
         NEW c \in Cs, calls[c].task \in InTurn, calls'[c].pc \in Attended,
         ~tasks'[calls[c].task].cancelled
  PROVE  calls'[c].run \in evicted' \/ Has(live', calls[c].task, calls'[c].run)
<1> DEFINE t == calls[c].task
<1>0. /\ BaseInv /\ CallsGo /\ AttendingInv /\ SerialInv /\ CancelledStays /\ CallsGoOn
      /\ t \in Tasks /\ ~tasks[t].cancelled
      /\ calls'[c].pc \notin Finished
      /\ evicted \subseteq evicted'
  <2>1. CancelledStays /\ CallsGoOn /\ CallsGo
    BY CancelledStep, CallsGoOnStep, CallsGoStep DEF Ground
  <2>2. evicted \subseteq evicted'
    BY EvictedGrows DEF Ground
  <2> QED
    BY <2>1, <2>2, Facts DEF Ground, WorkInv, CancelledStays, Attended, Pumping, Finished
<1>1. ASSUME NEW r, Has(live, t, r), calls[c].pc \in Unfinished, ~Admit(c)
      PROVE  r \in evicted' \/ Has(live', t, r)
  <2>1. ASSUME NEW d \in Cs, Goner(d, t) PROVE FALSE
    <3>1. d = c
      BY <1>0, <1>1, <2>1, Alone DEF Goner
    <3> QED
      BY <1>0, <1>1, <2>1, <3>1 DEF Goner
  <2>2. LiveGoes(t, r)
    BY <1>0, <1>1, LiveStays
  <2> QED
    BY <2>1, <2>2 DEF LiveGoes
<1>2. CASE Accept(c)
  <2>1. PICK x \in Runs : Has(live, t, x) /\ CallSteps(c, "answering", x, streamOf[t])
    BY <1>0, <1>2, AcceptDoes
  <2>2. live' = live
    BY <1>0, <1>2, AcceptDoes
  <2> QED
    BY <2>1, <2>2 DEF CallSteps
<1>3. CASE Admit(c)
  BY <1>0, <1>3, AdmitDoes DEF CallSteps
<1>4. CASE ~Admit(c) /\ calls[c].pc \in Attended /\ calls'[c].run = calls[c].run
  <2>1. calls[c].run \in evicted \/ Has(live, t, calls[c].run)
    BY <1>0, <1>4 DEF AttendingInv
  <2>2. calls[c].pc \in Unfinished
    BY <1>4 DEF Attended, Pumping, Unfinished
  <2> QED
    BY <1>0, <1>1, <1>4, <2>1, <2>2
<1> QED
  BY <1>0, <1>2, <1>3, <1>4 DEF CallsGo, CallGoes

\* A call at work shares its run and its stream with the table.
LEMMA AttendingStep ==
  ASSUME Ground, WorkInv, [Next]_vars
  PROVE  AttendingInv'
<1> SUFFICES ASSUME NEW c \in 1..Len(calls'), calls'[c].task \in InTurn, calls'[c].pc \in Attended
             PROVE  /\ \A r : Has(live', calls'[c].task, r) =>
                         /\ calls'[c].run = r
                         /\ calls'[c].stream = streamOf'[calls'[c].task]
                         /\ calls'[c].pc = "answering" => IsParked(sessions'[r])
                         /\ calls'[c].pc = "publishing"
                              => streams'[calls'[c].stream].asked \in sessions'[r].pending
                    /\ ~tasks'[calls'[c].task].cancelled
                         => \/ calls'[c].run \in evicted'
                            \/ Has(live', calls'[c].task, calls'[c].run)
  BY DEF AttendingInv, Cs
<1> DEFINE t == calls[c].task
<1>0. BaseInv /\ RunsInv /\ CallsGoOn
  BY CallsGoOnStep DEF Ground
<1>1. c \in Cs
  BY <1>0, CallsAfter DEF Attended, Pumping
<1>2. calls'[c].task = t /\ t \in InTurn
  BY <1>0, <1>1 DEF CallsGoOn
<1>3. ASSUME NEW r, Has(live', t, r)
      PROVE  /\ calls'[c].run = r
             /\ calls'[c].stream = streamOf'[t]
             /\ calls'[c].pc = "answering" => IsParked(sessions'[r])
             /\ calls'[c].pc = "publishing"
                  => streams'[calls'[c].stream].asked \in sessions'[r].pending
  <2>1. CASE Kept(t, r)
    BY <1>1, <1>2, <1>3, <2>1, AttendingKept, AnsweringKept, PublishingKept
  <2>2. ASSUME NEW d \in Cs, Admit(d), calls[d].task = t, r = Len(sessions) + 1
        PROVE  /\ calls'[c].run = r
               /\ calls'[c].stream = streamOf'[t]
               /\ calls'[c].pc = "draining"
    <3>1. d = c
      <4>1. calls'[c].pc \in Unfinished
        BY DEF Attended, Pumping, Unfinished
      <4> QED
        BY <1>1, <1>2, <2>2, <4>1, AdmitAlone
    <3>2. CallSteps(d, "draining", r, StreamFor(t)) /\ HasStream(t)
      BY <1>0, <2>2, AdmitDoes
    <3> QED
      BY <3>1, <3>2 DEF CallSteps, HasStream, StreamOfSteps
  <2> QED
    BY <1>0, <1>3, <2>1, <2>2, LiveAfter
<1> QED
  BY <1>1, <1>2, <1>3, AttendedIsHeld

\* The pump of a run that stays in the table goes on, or parks it.
LEMMA PumpKept ==
  ASSUME Ground, WorkInv, [Next]_vars,
         NEW c \in Cs, NEW t \in InTurn, NEW r, Pumps(c, r), Kept(t, r), Has(live', t, r)
  PROVE  IsParked(sessions'[r]) \/ \E d \in 1..Len(calls') : calls'[d].run = r /\ calls'[d].pc \in Pumping
<1>0. /\ BaseInv /\ CallsGo /\ EnteringInv /\ AttendingInv /\ LiveInv
      /\ Has(live, t, r) /\ r \in Runs
      /\ calls[c].task = t /\ calls[c].run = r /\ calls[c].pc \in Pumping
      /\ c \in 1..Len(calls')
  BY CallsGoStep, NothingIsLost, Facts
  DEF Ground, WorkInv, Kept, RunsInv, LiveInv, Pumps, Pumping, NoneLost, Cs
<1>1. CASE calls'[c].pc \in Pumping /\ calls'[c].run = calls[c].run
  BY <1>0, <1>1
<1>2. CASE PumpPause(c)
  <2> DEFINE q == streams[calls[c].stream].asked
  <2>1. calls[c].pc = "publishing"
    BY <1>0, <1>2, PumpPauseDoes
  <2>2. q \in sessions[r].pending /\ q \in Requests
    BY <1>0, <2>1, Facts DEF AttendingInv, Attended
  <2>3. sessions'[r].lastRequest = q /\ sessions'[r].pending = sessions[r].pending
    BY <1>0, <1>2, PauseSteps
  <2> HIDE DEF q
  <2> QED
    BY <2>2, <2>3, NoRequestAssumption DEF IsParked
<1>3. CASE LiveDrops(t)
  BY <1>3 DEF LiveDrops
<1>4. CASE r \in evicted
  BY <1>0, <1>4 DEF LiveInv
<1>5. CASE calls[c].interrupted
  BY <1>0, <1>5 DEF EnteringInv
<1> QED
  BY <1>0, <1>1, <1>2, <1>3, <1>4, <1>5 DEF CallsGo, CallGoes

\* A parked run stays parked until the call that answers it pumps it.
LEMMA ParkedKept ==
  ASSUME Ground, WorkInv, [Next]_vars,
         NEW t \in InTurn, NEW r, IsParked(sessions[r]), Kept(t, r), Has(live', t, r)
  PROVE  IsParked(sessions'[r]) \/ \E d \in 1..Len(calls') : calls'[d].run = r /\ calls'[d].pc \in Pumping
<1>0. /\ BaseInv /\ SessionsGo /\ PumpInv /\ r \in Runs
      /\ Len(calls') >= Len(calls) /\ Len(calls') \in Nat /\ Len(calls) \in Nat
  BY SessionsGoStep, NothingIsLost, Facts DEF Ground, Kept, NoneLost
<1>1. ASSUME NEW c \in Cs, SettlesIt(c, r)
      PROVE  calls'[c].run = r /\ calls'[c].pc \in Pumping /\ c \in 1..Len(calls')
  <2>1. sessions[r].lastRequest \in sessions[r].pending /\ calls[c].run = r
    BY <1>1 DEF IsParked, SettlesIt
  <2>2. CallSteps(c, "draining", r, StreamFor(calls[c].task))
    BY <1>0, <1>1, <2>1, SettleDoes DEF SettlesIt
  <2> QED
    BY <1>0, <2>2 DEF CallSteps, Pumping, Cs
<1>2. CASE sessions[r].pending \subseteq sessions'[r].pending
  <2>1. sessions'[r].lastRequest = sessions[r].lastRequest
    <3>1. CASE sessions'[r] = sessions[r] \/ Fades(sessions[r], sessions'[r])
      BY <3>1 DEF Fades
    <3>2. ASSUME NEW q \in Requests, AskPermission(r, q)
          PROVE  sessions'[r].lastRequest = sessions[r].lastRequest
      BY <1>0, <3>2, AskSession
    <3>3. ASSUME NEW d \in Cs, PumpPause(d), calls[d].run = r PROVE FALSE
      <4>1. calls[d].pc = "publishing"
        BY <1>0, <3>3, PumpPauseDoes
      <4>2. Pumps(d, r)
        BY <3>3, <4>1 DEF Pumps
      <4> QED
        BY <1>0, <4>2 DEF PumpInv
    <3> QED
      BY <1>0, <3>1, <3>2, <3>3 DEF SessionsGo
  <2> QED
    BY <1>2, <2>1 DEF IsParked
<1> QED
  BY <1>1, <1>2 DEF Kept

\* A session that is parked is parked on what its task's stream shows.
LEMMA ShownKept ==
  ASSUME Ground, WorkInv, [Next]_vars,
         NEW t \in InTurn, NEW r, Kept(t, r), Has(live', t, r), IsParked(sessions'[r])
  PROVE  streams'[streamOf'[t]].asked = sessions'[r].lastRequest
<1> DEFINE s == streamOf[t]
<1>0. /\ BaseInv /\ SessInv /\ AttendingInv /\ ParkedInv /\ PumpInv
      /\ Has(live, t, r) /\ r \in Runs
      /\ \A d \in Cs : calls[d].run = r => calls[d].task = t
      /\ r \in 1..Len(sessions')
  BY NothingIsLost, Facts DEF Ground, WorkInv, Kept, RunsInv, LiveInv, NoneLost, Runs
<1>1. streamOf'[t] = s /\ s \in 1..Len(streams) /\ t \in Tasks
  BY <1>0, StreamOfKept
<1>2. CASE IsParked(sessions[r]) /\ sessions'[r].lastRequest = sessions[r].lastRequest
  <2>1. streams[s].asked = sessions[r].lastRequest
    BY <1>0, <1>2 DEF ParkedInv
  <2>2. ASSUME NEW c \in Cs, PumpPrompt(c), calls[c].task = t PROVE FALSE
    <3>1. calls[c].pc = "draining"
      BY <1>0, <2>2, PumpPromptDoes
    <3>2. calls[c].run = r
      BY <1>0, <2>2, <3>1 DEF AttendingInv, Attended, Pumping
    <3>3. Pumps(c, r)
      BY <3>1, <3>2 DEF Pumps
    <3> QED
      BY <1>0, <1>2, <3>3 DEF PumpInv
  <2>3. Uses(t, s)
    BY DEF Uses
  <2> HIDE DEF s
  <2>4. streams'[s].asked = streams[s].asked
    BY <1>1, <2>2, <2>3, AskedKept
  <2> QED
    BY <1>1, <1>2, <2>1, <2>4
<1>3. ASSUME NEW c \in Cs, PumpPause(c), calls[c].run = r
      PROVE  streams'[s].asked = sessions'[r].lastRequest
  <2>1. calls[c].pc = "publishing" /\ streams' = streams
    BY <1>0, <1>3, PumpPauseDoes
  <2>2. calls[c].task = t
    BY <1>0, <1>3
  <2>3. calls[c].stream = s
    BY <1>0, <2>1, <2>2 DEF AttendingInv, Attended, Pumping
  <2>4. sessions'[r].lastRequest = streams[calls[c].stream].asked
    BY <1>0, <1>3, PauseSteps
  <2> QED
    BY <2>1, <2>3, <2>4
<1> QED
  BY <1>0, <1>1, <1>2, <1>3, ParkedBefore

\* A run in the table is parked on what is shown, or pumped.
LEMMA ParkedStep ==
  ASSUME Ground, WorkInv, [Next]_vars
  PROVE  ParkedInv'
<1> SUFFICES ASSUME NEW t, NEW r, Has(live', t, r)
             PROVE  /\ streamOf'[t] # None
                    /\ t \in InTurn =>
                         /\ IsParked(sessions'[r]) => streams'[streamOf'[t]].asked = sessions'[r].lastRequest
                         /\ IsParked(sessions'[r])
                              \/ \E c \in 1..Len(calls') : calls'[c].run = r /\ calls'[c].pc \in Pumping
  BY DEF ParkedInv, Pumps, Pumping, Cs
<1>0. BaseInv /\ RunsInv /\ ParkedInv
  BY DEF Ground, WorkInv
<1>1. CASE Kept(t, r)
  <2>1. Has(live, t, r)
    BY <1>1 DEF Kept
  <2>2. streamOf'[t] # None
    BY <2>1, StreamOfKept DEF None
  <2>3. t \in InTurn => IsParked(sessions[r]) \/ \E c \in Cs : Pumps(c, r)
    BY <1>0, <2>1 DEF ParkedInv
  <2> QED
    BY <1>1, <2>2, <2>3, PumpKept, ParkedKept, ShownKept
<1>2. ASSUME NEW c \in Cs, Admit(c), calls[c].task = t, r = Len(sessions) + 1,
             sessions'[r] = NewSession
      PROVE  /\ streamOf'[t] # None /\ ~IsParked(sessions'[r])
             /\ \E d \in 1..Len(calls') : calls'[d].run = r /\ calls'[d].pc \in Pumping
  <2>1. CallSteps(c, "draining", r, StreamFor(t)) /\ HasStream(t)
    BY <1>0, <1>2, AdmitDoes
  <2>2. streamOf'[t] # None
    BY <2>1 DEF HasStream, StreamOfSteps, None
  <2>3. ~IsParked(sessions'[r])
    BY <1>2, NewSessionIs DEF IsParked
  <2>4. c \in 1..Len(calls') /\ calls'[c].run = r /\ calls'[c].pc \in Pumping
    BY <2>1 DEF CallSteps, Pumping, Cs
  <2> QED
    BY <2>2, <2>3, <2>4
<1> QED
  BY <1>0, <1>1, <1>2, LiveAfter

\* The invariant of the calls at work is inductive.
LEMMA WorkStep ==
  ASSUME Ground, WorkInv, [Next]_vars
  PROVE  WorkInv'
BY EnteringStep, AttendingStep, ParkedStep DEF WorkInv

(***************************************************************************)
(* Requests settled.                                                       *)
(***************************************************************************)
\* A request is settled by the call that answers it.
SettlesRequest(c, q) ==
  /\ Settle(c) /\ settled'[q] = c
  /\ calls[c].pc = "answering" /\ calls[c].run \in Runs
  /\ q = sessions[calls[c].run].lastRequest /\ q \in sessions[calls[c].run].pending
  /\ calls[c].stream # None => calls[c].message \in streams'[calls[c].stream].answered
  /\ calls'[c].pc = "draining" /\ \A d \in Cs : d # c => calls'[d] = calls[d]
SettledGo == \A q \in Requests : \/ settled'[q] = settled[q]
                                 \/ \E c \in Cs : SettlesRequest(c, q)

\* Every step settles that way.
LEMMA SettledGoStep ==
  ASSUME BaseInv, [Next]_vars
  PROVE  SettledGo
<1>a. ASSUME settled' = settled PROVE SettledGo
  BY <1>a DEF SettledGo
<1>b. ASSUME NEW c \in Cs, Settle(c) PROVE SettledGo
  <2> DEFINE q == sessions[calls[c].run].lastRequest
  <2>1. calls[c].pc = "answering" /\ calls[c].run \in Runs
    BY <1>b, SettleDoes
  <2>2. \/ /\ q \in sessions[calls[c].run].pending /\ settled'[q] = c
           /\ \A p \in Requests : p # q => settled'[p] = settled[p]
           /\ calls[c].stream # None => calls[c].message \in streams'[calls[c].stream].answered
           /\ CallSteps(c, "draining", calls[c].run, StreamFor(calls[c].task))
        \/ settled' = settled
    BY <1>b, SettleDoes
  <2> HIDE DEF q
  <2>3. CASE /\ q \in sessions[calls[c].run].pending /\ settled'[q] = c
             /\ \A p \in Requests : p # q => settled'[p] = settled[p]
             /\ calls[c].stream # None => calls[c].message \in streams'[calls[c].stream].answered
             /\ CallSteps(c, "draining", calls[c].run, StreamFor(calls[c].task))
    <3>1. SettlesRequest(c, q)
      BY <1>b, <2>1, <2>3 DEF SettlesRequest, CallSteps, q
    <3> QED
      BY <2>3, <3>1 DEF SettledGo
  <2> QED
    BY <1>a, <2>2, <2>3
<1>1. ASSUME NEW t \in Tasks, Deliver(t) PROVE SettledGo
  BY <1>1, DeliverDoes, <1>a
<1>2. ASSUME NEW t \in Tasks, Cancel(t) PROVE SettledGo
  BY <1>2, CancelDoes, <1>a
<1>3. ASSUME NEW c \in Cs, Execute(c) PROVE SettledGo
  <2>1. CASE Greet(c) \/ Acquire(c) \/ GetLock(c) \/ Evict(c) \/
     AwaitVictim(c) \/ Admit(c) \/ Raise(c) \/ Refuse(c) \/ Accept(c)
    BY <2>1, GreetDoes, AcquireDoes, GetLockDoes, EvictDoes,
       AwaitVictimDoes, AdmitDoes, RaiseDoes, RefuseDoes, AcceptDoes, <1>a
  <2>2. CASE PumpOutput(c) \/ PumpPrompt(c) \/ PumpPause(c) \/
     PumpFailure(c) \/ PumpEvicted(c) \/ PumpEnd(c) \/ Complete(c)
    BY <2>2, PumpOutputDoes, PumpPromptDoes, PumpPauseDoes,
       PumpFailureDoes, PumpEvictedDoes, PumpEndDoes, CompleteDoes, <1>a
  <2>3. CASE Settle(c)
    BY <1>b, <2>3
  <2> QED
    BY <1>3, <2>1, <2>2, <2>3 DEF Execute
<1>4. ASSUME NEW c \in Cs, Interrupt(c) PROVE SettledGo
  <2>1. CASE InterruptPublishing(c) \/ InterruptWaiting(c) \/
     InterruptEvicting(c) \/ SwallowCancel(c) \/ InterruptPump(c)
    BY <2>1, InterruptQuietDoes, InterruptEvictingDoes, SwallowCancelDoes,
       InterruptPumpDoes, <1>a
  <2> QED
    BY <1>4, <2>1 DEF Interrupt
<1>5. ASSUME NEW r \in Runs, Run(r) PROVE SettledGo
  <2>1. CASE Begin(r) \/ Register(r) \/ Speak(r) \/ Return(r) \/ Fail(r)
    BY <2>1, RunnerDoes, <1>a
  <2>2. ASSUME NEW q \in Requests, AskPermission(r, q) PROVE SettledGo
    BY <2>2, AskPermissionDoes, <1>a
  <2> QED
    BY <1>5, <2>1, <2>2 DEF Run
<1>6. ASSUME NEW r \in Runs, KeepClosing(r) PROVE SettledGo
  BY <1>6, KeepClosingDoes, <1>a
<1>7. CASE UNCHANGED vars
  BY <1>7, <1>a DEF vars
<1> QED
  BY <1>1, <1>2, <1>3, <1>4, <1>5, <1>6, <1>7 DEF Next, Cs

AnsweredGrow == \A s \in 1..Len(streams) : streams[s].answered \subseteq streams'[s].answered

\* A message on record stays on it.
LEMMA AnsweredGrowStep ==
  ASSUME BaseInv, [Next]_vars
  PROVE  AnsweredGrow
<1>a. ASSUME streams' = streams PROVE AnsweredGrow
  BY <1>a DEF AnsweredGrow
<1>b. ASSUME NEW t, HasStream(t) PROVE AnsweredGrow
  BY <1>b DEF HasStream, StreamsGrow, AnsweredGrow
<1>1. ASSUME NEW t \in Tasks, Deliver(t) PROVE AnsweredGrow
  BY <1>1, DeliverDoes, <1>a
<1>2. ASSUME NEW t \in Tasks, Cancel(t) PROVE AnsweredGrow
  BY <1>2, CancelDoes, <1>a
<1>3. ASSUME NEW c \in Cs, Execute(c) PROVE AnsweredGrow
  <2>1. CASE Greet(c) \/ Acquire(c) \/ GetLock(c) \/ Evict(c) \/
     AwaitVictim(c) \/ Raise(c) \/ Refuse(c) \/ Accept(c)
    BY <2>1, GreetDoes, AcquireDoes, GetLockDoes, EvictDoes,
       AwaitVictimDoes, RaiseDoes, RefuseDoes, AcceptDoes, <1>a
  <2>2. CASE Admit(c)
    BY <2>2, AdmitDoes, <1>b
  <2>3. CASE Settle(c)
    <3>1. streams' = streams \/ HasStream(calls[c].task)
      BY <2>3, SettleDoes
    <3> QED
      BY <1>a, <1>b, <3>1
  <2>4. CASE PumpPrompt(c)
    <3>1. /\ streams'[calls[c].stream].answered = streams[calls[c].stream].answered
          /\ \A x \in 1..Len(streams) : x # calls[c].stream => streams'[x] = streams[x]
      BY <2>4, PumpPromptDoes
    <3> QED
      BY <3>1 DEF AnsweredGrow
  <2>5. CASE PumpOutput(c) \/ PumpPause(c) \/ PumpFailure(c) \/
     PumpEvicted(c) \/ PumpEnd(c) \/ Complete(c)
    BY <2>5, PumpOutputDoes, PumpPauseDoes, PumpFailureDoes,
       PumpEvictedDoes, PumpEndDoes, CompleteDoes, <1>a
  <2> QED
    BY <1>3, <2>1, <2>2, <2>3, <2>4, <2>5 DEF Execute
<1>4. ASSUME NEW c \in Cs, Interrupt(c) PROVE AnsweredGrow
  <2>1. CASE InterruptPublishing(c) \/ InterruptWaiting(c) \/
     InterruptEvicting(c) \/ SwallowCancel(c) \/ InterruptPump(c)
    BY <2>1, InterruptQuietDoes, InterruptEvictingDoes, SwallowCancelDoes,
       InterruptPumpDoes, <1>a
  <2> QED
    BY <1>4, <2>1 DEF Interrupt
<1>5. ASSUME NEW r \in Runs, Run(r) PROVE AnsweredGrow
  <2>1. CASE Begin(r) \/ Register(r) \/ Speak(r) \/ Return(r) \/ Fail(r)
    BY <2>1, RunnerDoes, <1>a
  <2>2. ASSUME NEW q \in Requests, AskPermission(r, q) PROVE AnsweredGrow
    BY <2>2, AskPermissionDoes, <1>a
  <2> QED
    BY <1>5, <2>1, <2>2 DEF Run
<1>6. ASSUME NEW r \in Runs, KeepClosing(r) PROVE AnsweredGrow
  BY <1>6, KeepClosingDoes, <1>a
<1>7. CASE UNCHANGED vars
  BY <1>7, <1>a DEF vars
<1> QED
  BY <1>1, <1>2, <1>3, <1>4, <1>5, <1>6, <1>7 DEF Next, Cs

\* A message carries one echo, however often it arrives.
EchoInv == \A c, d \in Cs : calls[c].message = calls[d].message => calls[c].echo = calls[d].echo

\* An answer that is accepted is to the prompt it names.
AnsweringInv ==
  \A c \in Cs : /\ calls[c].task \in InTurn /\ calls[c].pc = "answering"
                /\ calls[c].echo # NoRequest
                => sessions[calls[c].run].lastRequest = calls[c].echo

\* What settled a request was addressed to it, or else it is on record while its
\* run lasts, and no second copy of it has been accepted.
SettlerInv ==
  \A q \in Requests : \A c \in Cs : settled[q] = c =>
    /\ calls[c].run # None /\ askedBy[q] = calls[c].run
    /\ calls[c].task \in InTurn =>
         IF calls[c].echo # NoRequest THEN calls[c].echo = q
         ELSE /\ Has(live, calls[c].task, calls[c].run)
                   => calls[c].message \in streams[streamOf[calls[c].task]].answered
              /\ \A d \in Cs : calls[d].pc = "answering" /\ calls[d].run = calls[c].run
                                 => calls[d].message # calls[c].message

OnceInv ==
  \A p, q \in Requests : \A c, d \in Cs :
    /\ settled[p] = c /\ settled[q] = d
    /\ askedBy[p] = askedBy[q] /\ calls[c].task \in InTurn
    /\ calls[c].message = calls[d].message
    => p = q

SettledInv == EchoInv /\ AnsweringInv /\ SettlerInv /\ OnceInv

\* The copies of a message carry the same id.
LEMMA EchoStep ==
  ASSUME BaseInv, EchoInv, [Next]_vars
  PROVE  EchoInv'
<1> SUFFICES ASSUME NEW c \in 1..Len(calls'), NEW d \in 1..Len(calls'),
                    calls'[c].message = calls'[d].message
             PROVE  calls'[c].echo = calls'[d].echo
  BY DEF EchoInv, Cs
<1>0. /\ CallsGoOn
      /\ \A e \in Cs : calls[e].message <= e /\ calls[e].message \in Nat
      /\ Len(calls) \in Nat
  BY CallsGoOnStep, Facts DEF BaseInv, RangeInv, CallsInRange
<1>1. ASSUME NEW x \in Cs, NEW y \in 1..Len(calls'), y \notin Cs,
             calls'[x].message = calls'[y].message
      PROVE  calls'[x].echo = calls'[y].echo
  <2>1. calls'[x].message = calls[x].message /\ calls'[x].echo = calls[x].echo
    BY <1>0, <1>1 DEF CallsGoOn
  <2>2. /\ y = Len(calls) + 1
        /\ \/ calls'[y].message = y
           \/ \E e \in Cs : /\ calls'[y].message = calls[e].message
                            /\ calls'[y].echo = calls[e].echo
    BY <1>1, CallsAfter
  <2>3. calls'[y].message # y
    BY <1>0, <1>1, <2>1, <2>2 DEF Cs
  <2>4. PICK e \in Cs : calls'[y].message = calls[e].message /\ calls'[y].echo = calls[e].echo
    BY <2>2, <2>3
  <2> QED
    BY <1>1, <2>1, <2>4 DEF EchoInv
<1>2. CASE c \in Cs /\ d \in Cs
  BY <1>0, <1>2 DEF CallsGoOn, EchoInv
<1>3. CASE c \notin Cs /\ d \notin Cs
  BY <1>3, CallsAfter
<1> QED
  BY <1>1, <1>2, <1>3

\* The prompt a live session is parked on is the one an answer is held to.
LEMMA AcceptedIs ==
  ASSUME Ground, WorkInv, NEW c \in Cs, Accept(c), calls[c].task \in InTurn
  PROVE  /\ calls'[c].run \in Runs /\ Has(live, calls[c].task, calls'[c].run)
         /\ IF calls[c].echo # NoRequest
              THEN calls[c].echo = sessions[calls'[c].run].lastRequest
              ELSE calls[c].message \notin streams[streamOf[calls[c].task]].answered
         /\ sessions' = sessions /\ settled' = settled
<1> DEFINE t == calls[c].task
           s == streamOf[t]
<1>0. BaseInv /\ ParkedInv
  BY DEF Ground, WorkInv
<1>1. PICK r \in Runs : Has(live, t, r) /\ IsParked(sessions[r]) /\ CallSteps(c, "answering", r, s)
  BY <1>0, AcceptDoes
<1>2. calls'[c].run = r
  BY <1>1 DEF CallSteps
<1>3. /\ s = None \/ ~AnswersSomethingElse(c, s)
      /\ sessions' = sessions /\ settled' = settled
  BY <1>0, AcceptDoes
<1>4. s # None /\ streams[s].asked = sessions[r].lastRequest
  BY <1>0, <1>1 DEF ParkedInv
<1>5. streams[s].asked # NoRequest
  BY <1>1, <1>4 DEF IsParked
<1> QED
  BY <1>1, <1>2, <1>3, <1>4, <1>5 DEF AnswersSomethingElse

\* An answer with an id is applied to the request it names.
LEMMA AnsweringStep ==
  ASSUME Ground, WorkInv, SettledInv, [Next]_vars
  PROVE  AnsweringInv'
<1> SUFFICES ASSUME NEW c \in 1..Len(calls'), calls'[c].task \in InTurn,
                    calls'[c].pc = "answering", calls'[c].echo # NoRequest
             PROVE  sessions'[calls'[c].run].lastRequest = calls'[c].echo
  BY DEF AnsweringInv, Cs
<1>0. /\ BaseInv /\ SessionsGo /\ CallsGo /\ CallsGoOn /\ AnsweringInv /\ StartedInv /\ SerialInv
  BY SessionsGoStep, CallsGoStep, CallsGoOnStep DEF Ground, SettledInv, RunsInv
<1>1. c \in Cs
  BY <1>0, CallsAfter
<1>2. calls[c].task \in InTurn /\ calls'[c].echo = calls[c].echo
  BY <1>0, <1>1 DEF CallsGoOn
<1>3. CASE calls[c].pc = "answering" /\ calls'[c].run = calls[c].run
  <2> DEFINE r == calls[c].run
  <2>1. r \in Runs /\ sessions[r].lastRequest = calls[c].echo /\ r # None
    BY <1>0, <1>1, <1>2, <1>3, Facts DEF AnsweringInv, Attended, Runs, None
  <2>2. CASE sessions'[r] = sessions[r] \/ Fades(sessions[r], sessions'[r])
    BY <1>2, <1>3, <2>1, <2>2 DEF Fades
  <2>3. ASSUME NEW q \in Requests, AskPermission(r, q)
        PROVE  sessions'[r].lastRequest = sessions[r].lastRequest
    BY <1>0, <2>1, <2>3, AskSession
  <2>4. ASSUME NEW d \in Cs, PumpPause(d), calls[d].run = r PROVE FALSE
    <3>1. calls[d].pc = "publishing"
      BY <1>0, <2>4, PumpPauseDoes
    <3>2. calls[d].task = calls[c].task
      BY <1>0, <1>1, <2>1, <2>4 DEF StartedInv
    <3> QED
      BY <1>0, <1>1, <1>2, <1>3, <3>1, <3>2, Alone DEF Unfinished
  <2> QED
    BY <1>0, <1>2, <1>3, <2>1, <2>2, <2>3, <2>4 DEF SessionsGo
<1>4. CASE Accept(c)
  BY <1>1, <1>2, <1>4, AcceptedIs
<1>5. CASE Admit(c)
  BY <1>0, <1>1, <1>5, AdmitDoes DEF CallSteps
<1> QED
  BY <1>0, <1>1, <1>3, <1>4, <1>5 DEF CallsGo, CallGoes, Attended

\* A request that was settled stays so; its settler keeps its run.
LEMMA SettlerKept ==
  ASSUME Ground, WorkInv, SettledInv, [Next]_vars,
         NEW q \in Requests, NEW c \in Cs, settled[q] = c
  PROVE  /\ calls[c].run \in Runs /\ calls'[c].run = calls[c].run
         /\ askedBy[q] = calls[c].run /\ askedBy'[q] = askedBy[q]
<1>0. RunsGo /\ AskedByGo /\ SettlerInv /\ calls[c].run \in 0..Len(sessions) /\ Len(sessions) \in Nat
  BY RunsGoStep, AskedByGoStep, Facts
  DEF Ground, SettledInv, BaseInv, RangeInv, CallsInRange
<1>1. calls[c].run # None /\ askedBy[q] = calls[c].run
  BY <1>0 DEF SettlerInv
<1> QED
  BY <1>0, <1>1 DEF RunsGo, AskedByGo, Runs, None

\* ... and what it answered stays on record.
LEMMA RecordKept ==
  ASSUME Ground, WorkInv, [Next]_vars,
         NEW t, NEW r, NEW m, r \in Runs, Has(live', t, r),
         Has(live, t, r) => m \in streams[streamOf[t]].answered
  PROVE  m \in streams'[streamOf'[t]].answered
<1>0. BaseInv /\ RunsInv /\ AnsweredGrow /\ r # Len(sessions) + 1
  BY AnsweredGrowStep, Facts DEF Ground, Runs
<1>1. Has(live, t, r)
  BY <1>0, LiveAfter DEF Kept
<1>2. streamOf[t] \in 1..Len(streams) /\ streamOf'[t] = streamOf[t]
  BY <1>1, StreamOfKept
<1> QED
  BY <1>0, <1>1, <1>2 DEF AnsweredGrow

\* No second copy of a message on record is accepted.
LEMMA NoSecondCopy ==
  ASSUME Ground, WorkInv, SettledInv, [Next]_vars,
         NEW q \in Requests, NEW c \in Cs, settled[q] = c,
         calls[c].task \in InTurn, calls[c].echo = NoRequest,
         NEW d \in Cs, calls'[d].pc = "answering", calls'[d].run = calls[c].run
  PROVE  calls[d].message # calls[c].message
<1>0. /\ BaseInv /\ CallsGo /\ SettlerInv /\ LiveInv /\ EchoInv
      /\ calls[c].run \in Runs
  <2>1. BaseInv /\ SettlerInv /\ LiveInv /\ EchoInv
    BY DEF Ground, SettledInv, RunsInv
  <2>2. CallsGo
    BY <2>1, CallsGoStep
  <2>3. calls[c].run \in Runs
    BY SettlerKept
  <2> QED
    BY <2>1, <2>2, <2>3
<1>1. CASE calls[d].pc = "answering" /\ calls'[d].run = calls[d].run
  <2>1. \A e \in Cs : calls[e].pc = "answering" /\ calls[e].run = calls[c].run
                        => calls[e].message # calls[c].message
    BY <1>0 DEF SettlerInv
  <2> QED
    BY <1>1, <2>1
<1>2. CASE Accept(d)
  <2> DEFINE t == calls[d].task
  <2>1. Has(live, t, calls[c].run)
    <3>1. \E r \in Runs : Has(live, t, r) /\ CallSteps(d, "answering", r, streamOf[t])
      BY <1>0, <1>2, AcceptDoes
    <3> QED
      BY <3>1 DEF CallSteps
  <2>2. calls[c].task = t
    BY <1>0, <2>1 DEF LiveInv
  <2>3. calls[c].message \in streams[streamOf[t]].answered
    BY <1>0, <2>1, <2>2 DEF SettlerInv
  <2>4. calls[d].echo = NoRequest => calls[d].message \notin streams[streamOf[t]].answered
    BY <1>2, <2>2, AcceptedIs
  <2> QED
    BY <1>0, <2>3, <2>4 DEF EchoInv
<1>3. CASE Admit(d)
  BY <1>0, <1>3, AdmitDoes DEF CallSteps
<1> QED
  BY <1>0, <1>1, <1>2, <1>3 DEF CallsGo, CallGoes, Attended

\* What settled a request named it, or is on record.
LEMMA SettlerStep ==
  ASSUME Ground, WorkInv, SettledInv, [Next]_vars
  PROVE  SettlerInv'
<1> SUFFICES ASSUME NEW q \in Requests, NEW c \in 1..Len(calls'), settled'[q] = c
             PROVE  /\ calls'[c].run # None /\ askedBy'[q] = calls'[c].run
                    /\ calls'[c].task \in InTurn =>
                         IF calls'[c].echo # NoRequest THEN calls'[c].echo = q
                         ELSE /\ Has(live', calls'[c].task, calls'[c].run)
                                   => calls'[c].message \in streams'[streamOf'[calls'[c].task]].answered
                              /\ \A d \in 1..Len(calls') :
                                   calls'[d].pc = "answering" /\ calls'[d].run = calls'[c].run
                                     => calls'[d].message # calls'[c].message
  BY DEF SettlerInv, Cs
<1>0. /\ BaseInv /\ RunsInv /\ SessInv /\ SerialInv /\ CallsGo /\ CallsGoOn /\ SettledGo
      /\ SettlerInv /\ AnsweringInv /\ AttendingInv
      /\ settled[q] \in 0..Len(calls) /\ Len(calls) \in Nat
  BY CallsGoStep, CallsGoOnStep, SettledGoStep, Facts
  DEF Ground, SettledInv, WorkInv, BaseInv, RangeInv, HistoryInRange
<1>1. CASE settled[q] = c
  <2>1. c \in Cs
    BY <1>0, <1>1 DEF Cs
  <2>2. /\ calls'[c].task = calls[c].task /\ calls'[c].echo = calls[c].echo
        /\ calls'[c].message = calls[c].message
    BY <1>0, <2>1 DEF CallsGoOn
  <2>3. /\ calls[c].run \in Runs /\ calls'[c].run = calls[c].run
        /\ askedBy'[q] = calls[c].run /\ calls[c].run # None
    BY <1>1, <2>1, SettlerKept DEF Runs, None
  <2>4. ASSUME calls[c].task \in InTurn, calls[c].echo # NoRequest PROVE calls[c].echo = q
    BY <1>0, <1>1, <2>1, <2>4 DEF SettlerInv
  <2>5. ASSUME calls[c].task \in InTurn, calls[c].echo = NoRequest,
               Has(live', calls[c].task, calls[c].run)
        PROVE  calls[c].message \in streams'[streamOf'[calls[c].task]].answered
    <3>1. Has(live, calls[c].task, calls[c].run)
            => calls[c].message \in streams[streamOf[calls[c].task]].answered
      BY <1>0, <1>1, <2>1, <2>5 DEF SettlerInv
    <3> QED
      BY <2>3, <2>5, <3>1, RecordKept
  <2>6. ASSUME calls[c].task \in InTurn, calls[c].echo = NoRequest,
               NEW d \in 1..Len(calls'), calls'[d].pc = "answering", calls'[d].run = calls[c].run
        PROVE  calls'[d].message # calls[c].message
    <3>1. d \in Cs
      BY <1>0, <2>6, CallsAfter
    <3>2. calls[d].message # calls[c].message
      BY <1>1, <2>1, <2>6, <3>1, NoSecondCopy
    <3> QED
      BY <1>0, <3>1, <3>2 DEF CallsGoOn
  <2> QED
    BY <2>2, <2>3, <2>4, <2>5, <2>6
<1>2. CASE c \in Cs /\ SettlesRequest(c, q)
  <2> DEFINE r == calls[c].run
             t == calls[c].task
  <2>1. /\ calls[c].pc = "answering" /\ r \in Runs
        /\ q = sessions[r].lastRequest /\ q \in sessions[r].pending
        /\ calls[c].stream # None => calls[c].message \in streams'[calls[c].stream].answered
        /\ calls'[c].pc = "draining"
        /\ \A d \in Cs : d # c => calls'[d] = calls[d]
    BY <1>2 DEF SettlesRequest
  <2>2. /\ calls'[c].task = t /\ calls'[c].echo = calls[c].echo
        /\ calls'[c].message = calls[c].message
    BY <1>0, <1>2 DEF CallsGoOn
  <2>3. calls'[c].run = r
    BY <1>0, <1>2, SettleDoes DEF SettlesRequest, CallSteps
  <2>4. r # None /\ askedBy'[q] = r
    <3>1. askedBy[q] = r
      BY <1>0, <2>1 DEF SessInv, AskedInv
    <3>2. askedBy' = askedBy
      BY <1>0, <1>2, SettleDoes DEF SettlesRequest
    <3> QED
      BY <2>1, <3>1, <3>2 DEF Runs, None
  <2>5. ASSUME t \in InTurn, calls[c].echo # NoRequest PROVE calls[c].echo = q
    BY <1>0, <1>2, <2>1, <2>5 DEF AnsweringInv
  <2>6. ASSUME t \in InTurn, Has(live', t, r)
        PROVE  calls[c].message \in streams'[streamOf'[t]].answered
    <3>1. Has(live, t, r)
      BY <1>0, <1>2, <2>6, SettleDoes DEF SettlesRequest
    <3>2. calls[c].stream = streamOf[t]
      BY <1>0, <1>2, <2>1, <2>6, <3>1 DEF AttendingInv, Attended
    <3>3. streamOf[t] # None /\ streamOf'[t] = streamOf[t]
      BY <2>6, <3>1, StreamOfKept DEF None
    <3> QED
      BY <2>1, <3>2, <3>3
  <2>7. ASSUME t \in InTurn, NEW d \in 1..Len(calls'), calls'[d].pc = "answering", calls'[d].run = r
        PROVE  FALSE
    <3>1. d \in Cs /\ d # c
      BY <1>0, <2>1, <2>7, CallsAfter
    <3>2. calls[d].pc = "answering" /\ calls[d].run = r
      BY <2>1, <2>7, <3>1
    <3>3. calls[d].task = t
      BY <1>0, <1>2, <2>4, <3>1, <3>2 DEF RunsInv, StartedInv
    <3> QED
      BY <1>0, <1>2, <2>1, <2>7, <3>1, <3>2, <3>3, Alone DEF Unfinished
  <2> QED
    BY <2>2, <2>3, <2>4, <2>5, <2>6, <2>7
<1>3. settled[q] = c \/ (c \in Cs /\ SettlesRequest(c, q))
  BY <1>0 DEF SettledGo, SettlesRequest
<1> QED
  BY <1>1, <1>2, <1>3

\* A message that settled a request settles no other of the same run.
LEMMA SettlesOnce ==
  ASSUME Ground, WorkInv, SettledInv, NEW p \in Requests, NEW q \in Requests,
         NEW c \in Cs, NEW d \in Cs, SettlesRequest(c, p), settled[q] = d,
         calls[c].run = calls[d].run, calls[c].task \in InTurn,
         calls[c].message = calls[d].message
  PROVE  p = q
<1>0. /\ EchoInv /\ SettlerInv /\ AnsweringInv
      /\ calls[c].pc = "answering" /\ p = sessions[calls[c].run].lastRequest
  BY DEF SettledInv, SettlesRequest
<1>1. calls[d].task = calls[c].task /\ calls[d].echo = calls[c].echo
  BY <1>0 DEF Ground, RunsInv, StartedInv, SettlerInv, EchoInv
<1> QED
  BY <1>0, <1>1 DEF SettlerInv, AnsweringInv

\* One message settles one request of a run.
LEMMA OnceStep ==
  ASSUME Ground, WorkInv, SettledInv, [Next]_vars
  PROVE  OnceInv'
<1> SUFFICES ASSUME NEW p \in Requests, NEW q \in Requests,
                    NEW c \in 1..Len(calls'), NEW d \in 1..Len(calls'),
                    settled'[p] = c, settled'[q] = d,
                    askedBy'[p] = askedBy'[q], calls'[c].task \in InTurn,
                    calls'[c].message = calls'[d].message
             PROVE  p = q
  BY DEF OnceInv, Cs
<1>0. /\ BaseInv /\ RunsInv /\ SessInv /\ SettledGo /\ CallsGoOn /\ OnceInv
      /\ settled[p] \in 0..Len(calls) /\ settled[q] \in 0..Len(calls) /\ Len(calls) \in Nat
  BY SettledGoStep, CallsGoOnStep, Facts DEF Ground, SettledInv, BaseInv, RangeInv, HistoryInRange
<1>1. /\ c \in Cs /\ (settled[p] = c \/ SettlesRequest(c, p))
      /\ d \in Cs /\ (settled[q] = d \/ SettlesRequest(d, q))
  <2>1. ASSUME NEW x \in Requests, NEW e \in 1..Len(calls'), settled'[x] = e
        PROVE  e \in Cs /\ (settled[x] = e \/ SettlesRequest(e, x))
    <3>1. CASE settled'[x] = settled[x]
      <4>1. settled[x] \in 0..Len(calls)
        BY Facts DEF Ground, BaseInv, RangeInv, HistoryInRange
      <4> QED
        BY <1>0, <2>1, <3>1, <4>1 DEF Cs
    <3>2. ASSUME NEW k \in Cs, SettlesRequest(k, x)
          PROVE  e \in Cs /\ SettlesRequest(e, x)
      <4>1. settled'[x] = k
        BY <3>2 DEF SettlesRequest
      <4> QED
        BY <2>1, <3>2, <4>1
    <3> QED
      BY <1>0, <3>1, <3>2 DEF SettledGo
  <2> QED
    BY <2>1
<1>2. /\ calls[c].task = calls'[c].task /\ calls[c].message = calls[d].message
      /\ calls[d].task = calls'[d].task
  BY <1>0, <1>1 DEF CallsGoOn
<1>3. /\ askedBy'[p] = calls[c].run /\ askedBy[p] = askedBy'[p] /\ calls[c].run # None
      /\ askedBy'[q] = calls[d].run /\ askedBy[q] = askedBy'[q]
  <2>1. ASSUME NEW x \in Requests, NEW e \in Cs, settled[x] = e \/ SettlesRequest(e, x)
        PROVE  askedBy'[x] = calls[e].run /\ askedBy[x] = askedBy'[x] /\ calls[e].run # None
    <3>1. CASE settled[x] = e
      BY <3>1, SettlerKept DEF Runs, None
    <3>2. CASE SettlesRequest(e, x)
      <4>1. /\ calls[e].run \in Runs /\ x = sessions[calls[e].run].lastRequest
            /\ x \in sessions[calls[e].run].pending /\ Settle(e)
        BY <3>2 DEF SettlesRequest
      <4>2. askedBy[x] = calls[e].run /\ askedBy' = askedBy
        BY <1>0, <4>1, SettleDoes DEF SessInv, AskedInv
      <4> QED
        BY <4>1, <4>2 DEF Runs, None
    <3> QED
      BY <2>1, <3>1, <3>2
  <2> QED
    BY <1>1, <2>1
<1>4. calls[c].run = calls[d].run /\ calls[c].task \in InTurn /\ calls[d].task = calls[c].task
  <2>1. calls[c].run = calls[d].run /\ calls[c].task \in InTurn
    BY <1>2, <1>3
  <2>2. calls[d].task = calls[c].task
    BY <1>0, <1>1, <1>3, <2>1 DEF RunsInv, StartedInv
  <2> QED
    BY <2>1, <2>2
<1>5. CASE settled[p] = c /\ settled[q] = d
  BY <1>0, <1>1, <1>2, <1>3, <1>4, <1>5 DEF OnceInv
<1>6. CASE SettlesRequest(c, p) /\ settled[q] = d
  BY <1>1, <1>2, <1>4, <1>6, SettlesOnce
<1>7. CASE settled[p] = c /\ SettlesRequest(d, q)
  BY <1>1, <1>2, <1>4, <1>7, SettlesOnce
<1>8. CASE SettlesRequest(c, p) /\ SettlesRequest(d, q)
  BY <1>4, <1>8 DEF SettlesRequest
<1> QED
  BY <1>1, <1>5, <1>6, <1>7, <1>8

\* The invariant of the settled requests is inductive.
LEMMA SettledStep ==
  ASSUME Ground, WorkInv, SettledInv, [Next]_vars
  PROVE  SettledInv'
<1>1. BaseInv /\ EchoInv
  BY DEF Ground, SettledInv
<1> QED
  BY <1>1, EchoStep, AnsweringStep, SettlerStep, OnceStep DEF SettledInv

(***************************************************************************)
(* What callers are told.                                                  *)
(***************************************************************************)
\* Only a cancelled task has its queue closed.
OpenInv == \A t \in Tasks : ~tasks[t].cancelled => tasks[t].open

\* What a step tells of a task in turn: nothing, the call at work on it going
\* on; what that call publishes, the last of it as it ends; or the prompt again.
Untold(t) == /\ tasks'[t] = tasks[t]
             /\ \A d \in Cs : calls[d].task = t /\ calls[d].pc \in Unfinished
                                => calls'[d].pc \in Unfinished
Tells(c, t) ==
  /\ calls[c].task = t /\ calls[c].pc \in Unfinished
  /\ \A d \in Cs : d # c => calls'[d] = calls[d]
  /\ \/ tasks'[t].status = "working" /\ tasks'[t].endings = tasks[t].endings
     \/ /\ tasks'[t].status \in Final /\ tasks'[t].endings = tasks[t].endings + 1
        /\ calls'[c].pc \in Finished
     \/ PumpPause(c)
TaskGoes(t) == \/ tasks'[t].cancelled
               \/ Untold(t)
               \/ \E c \in Cs : Tells(c, t)
               \/ \E c \in Cs : Refuse(c) /\ calls[c].task = t
TasksGo == \A t \in Tasks : TaskGoes(t)

\* A call at work that publishes a state tells its task.
LEMMA TellsIt ==
  ASSUME BaseInv, OpenInv, NEW c \in Cs, NEW state \in {"working", "failed", "completed"},
         TaskSteps(calls[c].task, Published(tasks[calls[c].task], state)),
         calls[c].pc \in Unfinished,
         \A d \in Cs : d # c => calls'[d] = calls[d],
         state # "working" => calls'[c].pc \in Finished
  PROVE  TasksGo
<1> DEFINE t == calls[c].task
<1>1. /\ t \in Tasks /\ tasks[t] \in TaskInfo /\ state \in States
      /\ state \in Final <=> state # "working"
  BY Facts, StatesAre DEF Final
<1>2. ASSUME NEW u \in Tasks, u # t PROVE TaskGoes(u)
  <2>1. tasks'[u] = tasks[u]
    BY <1>2 DEF TaskSteps
  <2>2. \A d \in Cs : calls[d].task = u => calls'[d] = calls[d]
    BY <1>2
  <2> QED
    BY <2>1, <2>2 DEF TaskGoes, Untold
<1>3. TaskGoes(t)
  <2>1. CASE tasks[t].cancelled
    <3>1. tasks'[t].cancelled
      BY <1>1, <2>1, PublishedIs DEF TaskSteps
    <3> QED
      BY <3>1 DEF TaskGoes
  <2>2. CASE ~tasks[t].cancelled
    <3>1. tasks[t].open
      BY <1>1, <2>2 DEF OpenInv
    <3>2. /\ tasks'[t].status = state
          /\ tasks'[t].endings = IF state \in Final THEN tasks[t].endings + 1 ELSE tasks[t].endings
      BY <1>1, <3>1, PublishedIs DEF TaskSteps
    <3>3. Tells(c, t)
      BY <1>1, <3>2 DEF Tells
    <3> QED
      BY <3>3 DEF TaskGoes
  <2> QED
    BY <2>1, <2>2
<1> QED
  BY <1>2, <1>3 DEF TasksGo

\* Every step tells tasks that way.
LEMMA TasksGoStep ==
  ASSUME BaseInv, InterruptedInv, OpenInv, [Next]_vars
  PROVE  TasksGo
<1>a. ASSUME NEW c \in Cs, NEW pc, NEW run, NEW stream, CallSteps(c, pc, run, stream),
             calls[c].pc \in Unfinished => pc \in Unfinished, tasks' = tasks
      PROVE  TasksGo
  <2>1. \A d \in Cs : calls[d].pc \in Unfinished => calls'[d].pc \in Unfinished
    BY <1>a DEF CallSteps
  <2> QED
    BY <1>a, <2>1 DEF TasksGo, TaskGoes, Untold
<1>b. ASSUME \A d \in Cs : calls'[d] = calls[d], tasks' = tasks PROVE TasksGo
  BY <1>b DEF TasksGo, TaskGoes, Untold
<1>c. ASSUME NEW c \in Cs, calls[c].interrupted, NEW pc, NEW run, NEW stream,
             CallSteps(c, pc, run, stream),
             TaskSteps(calls[c].task, tasks'[calls[c].task]),
             tasks'[calls[c].task].cancelled = tasks[calls[c].task].cancelled
      PROVE  TasksGo
  <2>1. tasks'[calls[c].task].cancelled
    BY <1>c DEF InterruptedInv
  <2>2. ASSUME NEW u \in Tasks, u # calls[c].task PROVE Untold(u)
    <3>1. tasks'[u] = tasks[u]
      BY <1>c, <2>2 DEF TaskSteps
    <3>2. \A d \in Cs : calls[d].task = u => calls'[d] = calls[d]
      BY <1>c, <2>2 DEF CallSteps
    <3> QED
      BY <3>1, <3>2 DEF Untold
  <2> QED
    BY <2>1, <2>2 DEF TasksGo, TaskGoes
<1>1. ASSUME NEW t \in Tasks, Deliver(t) PROVE TasksGo
  BY <1>1, DeliverDoes, <1>b
<1>2. ASSUME NEW t \in Tasks, Cancel(t) PROVE TasksGo
  <2>1. /\ TaskSteps(t, tasks'[t]) /\ tasks'[t].cancelled
        /\ \A d \in Cs : calls[d].task # t => calls'[d].pc = calls[d].pc
    BY <1>2, CancelDoes DEF CallsOfCancelled
  <2>2. ASSUME NEW u \in Tasks, u # t PROVE Untold(u)
    BY <2>1, <2>2 DEF TaskSteps, Untold
  <2> QED
    BY <2>1, <2>2 DEF TasksGo, TaskGoes
<1>3. ASSUME NEW c \in Cs, Execute(c) PROVE TasksGo
  <2>1. CASE Greet(c)
    <3>1. calls[c].pc = "queued" /\ tasks' = tasks /\ CallSteps(c, "greeting", calls[c].run, calls[c].stream)
      BY <2>1, GreetDoes
    <3>2. calls[c].pc \in Unfinished => "greeting" \in Unfinished
      BY <3>1 DEF Unfinished
    <3> QED
      BY <1>a, <3>1, <3>2
  <2>2. CASE Acquire(c)
    <3>1. calls[c].pc \in Unfinished
      BY <2>2, AcquireDoes DEF Unfinished
    <3>2. TaskSteps(calls[c].task, Published(tasks[calls[c].task], "working"))
      BY <2>2, AcquireDoes
    <3>3. \A d \in Cs : d # c => calls'[d] = calls[d]
      BY <2>2, AcquireDoes DEF CallSteps
    <3> QED
      BY <3>1, <3>2, <3>3, TellsIt
  <2>3. CASE GetLock(c)
    <3>1. calls[c].pc = "waiting" /\ tasks' = tasks /\ CallSteps(c, "admitting", calls[c].run, calls[c].stream)
      BY <2>3, GetLockDoes
    <3>2. calls[c].pc \in Unfinished => "admitting" \in Unfinished
      BY <3>1 DEF Unfinished
    <3> QED
      BY <1>a, <3>1, <3>2
  <2>4. CASE Evict(c)
    <3>1. PICK pc \in {"admitting", "evicting"} : CallSteps(c, pc, calls[c].run, calls[c].stream)
      BY <2>4, EvictDoes
    <3>2. tasks' = tasks /\ pc \in Unfinished
      BY <2>4, <3>1, EvictDoes DEF Unfinished
    <3> QED
      BY <1>a, <3>1, <3>2
  <2>5. CASE AwaitVictim(c)
    <3>1. PICK pc \in {"admitting", "evicting"} : CallSteps(c, pc, calls[c].run, calls[c].stream)
      BY <2>5, AwaitVictimDoes
    <3>2. tasks' = tasks /\ pc \in Unfinished
      BY <2>5, <3>1, AwaitVictimDoes DEF Unfinished
    <3> QED
      BY <1>a, <3>1, <3>2
  <2>6. CASE Admit(c)
    <3>1. calls[c].pc = "admitting" /\ tasks' = tasks /\ CallSteps(c, "draining", Len(sessions) + 1, StreamFor(calls[c].task))
      BY <2>6, AdmitDoes
    <3>2. calls[c].pc \in Unfinished => "draining" \in Unfinished
      BY <3>1 DEF Unfinished
    <3> QED
      BY <1>a, <3>1, <3>2
  <2>7. CASE Raise(c)
    <3>1. calls[c].pc = "queued" /\ tasks' = tasks /\ CallSteps(c, "raised", calls[c].run, calls[c].stream)
      BY <2>7, RaiseDoes
    <3>2. calls[c].pc \in Unfinished => "raised" \in Unfinished
      BY <3>1 DEF Unfinished
    <3> QED
      BY <1>a, <3>1, <3>2
  <2>8. CASE Refuse(c)
    <3>1. TaskSteps(calls[c].task, tasks'[calls[c].task])
      BY <2>8, RefuseDoes DEF TaskSteps
    <3>2. CallSteps(c, "refused", calls[c].run, calls[c].stream) /\ calls[c].task \in Tasks
      BY <2>8, RefuseDoes, Facts
    <3>3. TaskGoes(calls[c].task)
      BY <2>8 DEF TaskGoes
    <3>4. ASSUME NEW u \in Tasks, u # calls[c].task PROVE TaskGoes(u)
      <4>1. tasks'[u] = tasks[u]
        BY <3>1, <3>4 DEF TaskSteps
      <4>2. \A d \in Cs : calls[d].task = u => calls'[d] = calls[d]
        BY <3>2, <3>4 DEF CallSteps
      <4> QED
        BY <4>1, <4>2 DEF TaskGoes, Untold
    <3> QED
      BY <3>3, <3>4 DEF TasksGo
  <2>9. CASE Accept(c)
    <3>1. PICK r \in Runs : CallSteps(c, "answering", r, streamOf[calls[c].task])
      BY <2>9, AcceptDoes
    <3>2. tasks' = tasks /\ "answering" \in Unfinished
      BY <2>9, AcceptDoes DEF Unfinished
    <3> QED
      BY <1>a, <3>1, <3>2
  <2>10. CASE Settle(c)
    <3>1. calls[c].pc = "answering" /\ calls[c].pc \in Unfinished
      BY <2>10, SettleDoes DEF Unfinished
    <3>2. TaskSteps(calls[c].task, Published(tasks[calls[c].task], "working"))
      BY <2>10, SettleDoes
    <3>3. \A d \in Cs : d # c => calls'[d] = calls[d]
      BY <2>10, SettleDoes DEF CallSteps
    <3> QED
      BY <3>1, <3>2, <3>3, TellsIt
  <2>11. CASE PumpOutput(c)
    <3>1. calls[c].pc = "draining" /\ calls[c].pc \in Unfinished
      BY <2>11, PumpOutputDoes DEF Unfinished
    <3>2. TaskSteps(calls[c].task, Published(tasks[calls[c].task], "working"))
      BY <2>11, PumpOutputDoes
    <3>3. \A d \in Cs : d # c => calls'[d] = calls[d]
      BY <2>11, PumpOutputDoes
    <3> QED
      BY <3>1, <3>2, <3>3, TellsIt
  <2>12. CASE PumpPrompt(c)
    <3>1. calls[c].pc = "draining" /\ tasks' = tasks /\ CallSteps(c, "publishing", calls[c].run, calls[c].stream)
      BY <2>12, PumpPromptDoes
    <3>2. calls[c].pc \in Unfinished => "publishing" \in Unfinished
      BY <3>1 DEF Unfinished
    <3> QED
      BY <1>a, <3>1, <3>2
  <2>13. CASE PumpPause(c)
    <3>1. calls[c].pc = "publishing" /\ calls[c].pc \in Unfinished
      BY <2>13, PumpPauseDoes DEF Unfinished
    <3>2. TaskSteps(calls[c].task, tasks'[calls[c].task])
      BY <2>13, PumpPauseDoes DEF TaskSteps
    <3>3. \A d \in Cs : d # c => calls'[d] = calls[d]
      BY <2>13, PumpPauseDoes DEF CallSteps
    <3>4. TaskGoes(calls[c].task)
      BY <2>13, <3>1, <3>3 DEF TaskGoes, Tells
    <3>5. ASSUME NEW u \in Tasks, u # calls[c].task PROVE TaskGoes(u)
      <4>1. tasks'[u] = tasks[u]
        BY <3>2, <3>5 DEF TaskSteps
      <4>2. \A d \in Cs : calls[d].task = u => calls'[d] = calls[d]
        BY <3>3, <3>5
      <4> QED
        BY <4>1, <4>2 DEF TaskGoes, Untold
    <3> QED
      BY <3>4, <3>5 DEF TasksGo
  <2>14. CASE PumpFailure(c)
    <3>1. calls[c].pc = "draining" /\ calls[c].pc \in Unfinished
      BY <2>14, PumpFailureDoes DEF Unfinished
    <3>2. TaskSteps(calls[c].task, Published(tasks[calls[c].task], "failed"))
      BY <2>14, PumpFailureDoes
    <3>3. CallSteps(c, "failed", calls[c].run, calls[c].stream)
      BY <2>14, PumpFailureDoes
    <3>4. calls'[c].pc \in Finished
      BY <3>3 DEF CallSteps, Finished
    <3>5. \A d \in Cs : d # c => calls'[d] = calls[d]
      BY <3>3 DEF CallSteps
    <3> QED
      BY <3>1, <3>2, <3>4, <3>5, TellsIt
  <2>15. CASE PumpEvicted(c)
    <3>1. calls[c].pc = "draining" /\ calls[c].pc \in Unfinished
      BY <2>15, PumpEvictedDoes DEF Unfinished
    <3>2. TaskSteps(calls[c].task, Published(tasks[calls[c].task], "failed"))
      BY <2>15, PumpEvictedDoes
    <3>3. CallSteps(c, "evicted", calls[c].run, calls[c].stream)
      BY <2>15, PumpEvictedDoes
    <3>4. calls'[c].pc \in Finished
      BY <3>3 DEF CallSteps, Finished
    <3>5. \A d \in Cs : d # c => calls'[d] = calls[d]
      BY <3>3 DEF CallSteps
    <3> QED
      BY <3>1, <3>2, <3>4, <3>5, TellsIt
  <2>16. CASE PumpEnd(c)
    <3>1. calls[c].pc = "draining" /\ tasks' = tasks /\ CallSteps(c, "closing", calls[c].run, calls[c].stream)
      BY <2>16, PumpEndDoes
    <3>2. calls[c].pc \in Unfinished => "closing" \in Unfinished
      BY <3>1 DEF Unfinished
    <3> QED
      BY <1>a, <3>1, <3>2
  <2>17. CASE Complete(c)
    <3>1. calls[c].pc = "closing" /\ calls[c].pc \in Unfinished
      BY <2>17, CompleteDoes DEF Unfinished
    <3>2. TaskSteps(calls[c].task, Published(tasks[calls[c].task], "completed"))
      BY <2>17, CompleteDoes
    <3>3. CallSteps(c, "completed", calls[c].run, calls[c].stream)
      BY <2>17, CompleteDoes
    <3>4. calls'[c].pc \in Finished
      BY <3>3 DEF CallSteps, Finished
    <3>5. \A d \in Cs : d # c => calls'[d] = calls[d]
      BY <3>3 DEF CallSteps
    <3> QED
      BY <3>1, <3>2, <3>4, <3>5, TellsIt
  <2> QED
    BY <1>3, <2>1, <2>2, <2>3, <2>4, <2>5, <2>6, <2>7, <2>8, <2>9, <2>10,
       <2>11, <2>12, <2>13, <2>14, <2>15, <2>16, <2>17 DEF Execute
<1>4. ASSUME NEW c \in Cs, Interrupt(c) PROVE TasksGo
  <2>1. CASE InterruptPublishing(c) \/ InterruptWaiting(c)
    <3>1. /\ calls[c].interrupted
          /\ CallSteps(c, "dropped", calls[c].run, calls[c].stream)
      BY <2>1, InterruptQuietDoes
    <3>2. /\ TaskSteps(calls[c].task, tasks'[calls[c].task])
          /\ tasks'[calls[c].task].cancelled = tasks[calls[c].task].cancelled
      BY <2>1, InterruptQuietDoes, QueueClosesIs, Facts
    <3> QED
      BY <1>c, <3>1, <3>2
  <2>2. CASE InterruptEvicting(c)
    <3>1. /\ calls[c].interrupted
          /\ CallSteps(c, "dropped", calls[c].run, calls[c].stream)
      BY <2>2, InterruptEvictingDoes
    <3>2. /\ TaskSteps(calls[c].task, tasks'[calls[c].task])
          /\ tasks'[calls[c].task].cancelled = tasks[calls[c].task].cancelled
      BY <2>2, InterruptEvictingDoes, Facts DEF TaskSteps, TaskInfo
    <3> QED
      BY <1>c, <3>1, <3>2
  <2>3. CASE SwallowCancel(c)
    <3>1. calls[c].pc = "evicting" /\ tasks' = tasks /\ CallSteps(c, "evicting", calls[c].run, calls[c].stream)
      BY <2>3, SwallowCancelDoes
    <3>2. calls[c].pc \in Unfinished => "evicting" \in Unfinished
      BY <3>1 DEF Unfinished
    <3> QED
      BY <1>a, <3>1, <3>2
  <2>4. CASE InterruptPump(c)
    <3>1. /\ calls[c].interrupted
          /\ CallSteps(c, "dropped", calls[c].run, calls[c].stream)
      BY <2>4, InterruptPumpDoes
    <3>2. /\ TaskSteps(calls[c].task, tasks'[calls[c].task])
          /\ tasks'[calls[c].task].cancelled = tasks[calls[c].task].cancelled
      BY <2>4, InterruptPumpDoes
    <3> QED
      BY <1>c, <3>1, <3>2
  <2> QED
    BY <1>4, <2>1, <2>2, <2>3, <2>4 DEF Interrupt
<1>5. ASSUME NEW r \in Runs, Run(r) PROVE TasksGo
  <2>1. CASE Begin(r) \/ Register(r) \/ Speak(r) \/ Return(r) \/ Fail(r)
    BY <2>1, RunnerDoes, <1>b
  <2>2. ASSUME NEW q \in Requests, AskPermission(r, q) PROVE TasksGo
    BY <2>2, AskPermissionDoes, <1>b
  <2> QED
    BY <1>5, <2>1, <2>2 DEF Run
<1>6. ASSUME NEW r \in Runs, KeepClosing(r) PROVE TasksGo
  BY <1>6, KeepClosingDoes, <1>b
<1>7. CASE UNCHANGED vars
  BY <1>7, <1>b DEF vars
<1> QED
  BY <1>1, <1>2, <1>3, <1>4, <1>5, <1>6, <1>7 DEF Next, Cs

\* No call begins once its task has ended.
LEMMA BeginsBeforeEnd ==
  ASSUME BaseInv, [Next]_vars, NEW d \in Cs, calls'[d].pc \in Unfinished
  PROVE  \/ calls[d].pc \in Unfinished
         \/ tasks[calls[d].task].status \notin Final
<1>1. CallGoes(d)
  BY CallsGoStep DEF CallsGo
<1>2. calls'[d].pc \in Entering \/ calls'[d].pc \in Attended
  BY DEF Unfinished, Entering, Attended, Pumping
<1>3. calls[d].pc \in Entering \/ calls[d].pc \in Attended => calls[d].pc \in Unfinished
  BY DEF Unfinished, Entering, Attended, Pumping
<1>4. CASE Greet(d) \/ Accept(d)
  BY <1>4, GreetDoes, AcceptDoes
<1>5. CASE Admit(d)
  BY <1>5, AdmitDoes DEF Unfinished
<1> QED
  BY <1>1, <1>2, <1>3, <1>4, <1>5 DEF CallGoes

\* A task in turn that is not cancelled has been told its end, once, when it
\* is in a final state, and no call is at work on it then.
EndedInv ==
  \A t \in InTurn : ~tasks[t].cancelled =>
    /\ tasks[t].endings = IF tasks[t].status \in Final THEN 1 ELSE 0
    /\ tasks[t].status \in Final => Idle(t)

\* One that waits for its caller has its session parked on what was shown.
Answerable(t) ==
  \E r : /\ Has(live, t, r)
         /\ IsParked(sessions[r]) /\ sessions[r].lastRequest = tasks[t].shown
InputInv ==
  \A t \in InTurn : ~tasks[t].cancelled /\ tasks[t].status = "input" /\ Idle(t) =>
    \/ Answerable(t)
    \/ \E c \in Cs : calls[c].task = t /\ calls[c].run \in evicted

TasksInv == OpenInv /\ EndedInv /\ InputInv

\* Only the queue of a cancelled task closes.
LEMMA OpenStep ==
  ASSUME BaseInv, InterruptedInv, OpenInv, [Next]_vars
  PROVE  OpenInv'
<1>a. ASSUME tasks' = tasks PROVE OpenInv'
  BY <1>a DEF OpenInv
<1>b. ASSUME \A u \in Tasks : /\ tasks'[u].cancelled = tasks[u].cancelled
                              /\ tasks'[u].open = tasks[u].open
      PROVE  OpenInv'
  BY <1>b DEF OpenInv
<1>c. ASSUME NEW t \in Tasks, TaskSteps(t, tasks'[t]), tasks'[t].cancelled PROVE OpenInv'
  BY <1>c DEF OpenInv, TaskSteps
<1>d. ASSUME NEW c \in Cs, calls[c].interrupted,
             TaskSteps(calls[c].task, tasks'[calls[c].task]),
             tasks'[calls[c].task].cancelled = tasks[calls[c].task].cancelled
      PROVE  OpenInv'
  BY <1>d, <1>c, Facts DEF InterruptedInv
<1>1. ASSUME NEW t \in Tasks, Deliver(t) PROVE OpenInv'
  BY <1>1, DeliverDoes, <1>a
<1>2. ASSUME NEW t \in Tasks, Cancel(t) PROVE OpenInv'
  BY <1>2, <1>c, CancelDoes
<1>3. ASSUME NEW c \in Cs, Execute(c) PROVE OpenInv'
  <2>1. CASE Greet(c) \/ GetLock(c) \/ Evict(c) \/ AwaitVictim(c) \/
     Admit(c) \/ Raise(c) \/ Accept(c) \/ PumpPrompt(c) \/ PumpEnd(c)
    BY <2>1, GreetDoes, GetLockDoes, EvictDoes, AwaitVictimDoes,
       AdmitDoes, RaiseDoes, AcceptDoes, PumpPromptDoes, PumpEndDoes, <1>a
  <2>2. CASE Acquire(c)
    <3>1. TaskSteps(calls[c].task, Published(tasks[calls[c].task], "working")) /\ calls[c].task \in Tasks
      BY <2>2, AcquireDoes, Facts
    <3>2. "working" \in {"working", "failed", "completed"}
      OBVIOUS
    <3> QED
      BY <1>b, <3>1, <3>2, PublishSteps
  <2>3. CASE Settle(c)
    <3>1. TaskSteps(calls[c].task, Published(tasks[calls[c].task], "working")) /\ calls[c].task \in Tasks
      BY <2>3, SettleDoes, Facts
    <3>2. "working" \in {"working", "failed", "completed"}
      OBVIOUS
    <3> QED
      BY <1>b, <3>1, <3>2, PublishSteps
  <2>4. CASE PumpOutput(c)
    <3>1. TaskSteps(calls[c].task, Published(tasks[calls[c].task], "working")) /\ calls[c].task \in Tasks
      BY <2>4, PumpOutputDoes, Facts
    <3>2. "working" \in {"working", "failed", "completed"}
      OBVIOUS
    <3> QED
      BY <1>b, <3>1, <3>2, PublishSteps
  <2>5. CASE PumpFailure(c)
    <3>1. TaskSteps(calls[c].task, Published(tasks[calls[c].task], "failed")) /\ calls[c].task \in Tasks
      BY <2>5, PumpFailureDoes, Facts
    <3>2. "failed" \in {"working", "failed", "completed"}
      OBVIOUS
    <3> QED
      BY <1>b, <3>1, <3>2, PublishSteps
  <2>6. CASE PumpEvicted(c)
    <3>1. TaskSteps(calls[c].task, Published(tasks[calls[c].task], "failed")) /\ calls[c].task \in Tasks
      BY <2>6, PumpEvictedDoes, Facts
    <3>2. "failed" \in {"working", "failed", "completed"}
      OBVIOUS
    <3> QED
      BY <1>b, <3>1, <3>2, PublishSteps
  <2>7. CASE Complete(c)
    <3>1. TaskSteps(calls[c].task, Published(tasks[calls[c].task], "completed")) /\ calls[c].task \in Tasks
      BY <2>7, CompleteDoes, Facts
    <3>2. "completed" \in {"working", "failed", "completed"}
      OBVIOUS
    <3> QED
      BY <1>b, <3>1, <3>2, PublishSteps
  <2>8. CASE Refuse(c)
    <3>1. TaskSteps(calls[c].task, Asked(tasks[calls[c].task], streams[streamOf[calls[c].task]].asked)) /\ calls[c].task \in Tasks
      BY <2>8, RefuseDoes, Facts
    <3>2. streams[streamOf[calls[c].task]].asked \in Requests \cup {NoRequest}
      BY <2>8, RefuseDoes, Facts
    <3> QED
      BY <1>b, <3>1, <3>2, AskSteps
  <2>9. CASE PumpPause(c)
    <3>1. TaskSteps(calls[c].task, Asked(tasks[calls[c].task], streams[calls[c].stream].asked)) /\ calls[c].task \in Tasks
      BY <2>9, PumpPauseDoes, Facts
    <3>2. streams[calls[c].stream].asked \in Requests \cup {NoRequest}
      BY <2>9, PumpPauseDoes, Facts
    <3> QED
      BY <1>b, <3>1, <3>2, AskSteps
  <2> QED
    BY <1>3, <2>1, <2>2, <2>3, <2>4, <2>5, <2>6, <2>7, <2>8, <2>9 DEF
       Execute
<1>4. ASSUME NEW c \in Cs, Interrupt(c) PROVE OpenInv'
  <2>1. CASE InterruptPublishing(c) \/ InterruptWaiting(c)
    <3>1. calls[c].interrupted
      BY <2>1, InterruptQuietDoes
    <3>2. /\ TaskSteps(calls[c].task, tasks'[calls[c].task])
          /\ tasks'[calls[c].task].cancelled = tasks[calls[c].task].cancelled
      BY <2>1, InterruptQuietDoes, QueueClosesIs, Facts
    <3> QED
      BY <1>d, <3>1, <3>2
  <2>2. CASE InterruptEvicting(c)
    <3>1. calls[c].interrupted
      BY <2>2, InterruptEvictingDoes
    <3>2. /\ TaskSteps(calls[c].task, tasks'[calls[c].task])
          /\ tasks'[calls[c].task].cancelled = tasks[calls[c].task].cancelled
      BY <2>2, InterruptEvictingDoes, Facts DEF TaskSteps, TaskInfo
    <3> QED
      BY <1>d, <3>1, <3>2
  <2>3. CASE SwallowCancel(c)
    BY <2>3, SwallowCancelDoes, <1>a
  <2>4. CASE InterruptPump(c)
    <3>1. calls[c].interrupted
      BY <2>4, InterruptPumpDoes
    <3>2. /\ TaskSteps(calls[c].task, tasks'[calls[c].task])
          /\ tasks'[calls[c].task].cancelled = tasks[calls[c].task].cancelled
      BY <2>4, InterruptPumpDoes
    <3> QED
      BY <1>d, <3>1, <3>2
  <2> QED
    BY <1>4, <2>1, <2>2, <2>3, <2>4 DEF Interrupt
<1>5. ASSUME NEW r \in Runs, Run(r) PROVE OpenInv'
  <2>1. CASE Begin(r) \/ Register(r) \/ Speak(r) \/ Return(r) \/ Fail(r)
    BY <2>1, RunnerDoes, <1>a
  <2>2. ASSUME NEW q \in Requests, AskPermission(r, q) PROVE OpenInv'
    BY <2>2, AskPermissionDoes, <1>a
  <2> QED
    BY <1>5, <2>1, <2>2 DEF Run
<1>6. ASSUME NEW r \in Runs, KeepClosing(r) PROVE OpenInv'
  BY <1>6, KeepClosingDoes, <1>a
<1>7. CASE UNCHANGED vars
  BY <1>7, <1>a DEF vars
<1> QED
  BY <1>1, <1>2, <1>3, <1>4, <1>5, <1>6, <1>7 DEF Next, Cs

\* In turn, an end is told once and by the last call at work.
LEMMA EndedStep ==
  ASSUME Ground, TasksInv, [Next]_vars
  PROVE  EndedInv'
<1> SUFFICES ASSUME NEW t \in InTurn, ~tasks'[t].cancelled
             PROVE  /\ tasks'[t].endings = IF tasks'[t].status \in Final THEN 1 ELSE 0
                    /\ tasks'[t].status \in Final =>
                         \A d \in 1..Len(calls') : ~(calls'[d].task = t /\ calls'[d].pc \in Unfinished)
  BY DEF EndedInv, Idle, InProgress
<1>0. /\ BaseInv /\ InterruptedInv /\ OpenInv /\ SerialInv /\ t \in Tasks
      /\ EndedInv
  BY DEF Ground, RunsInv, TasksInv, InTurn
<1>1. ~tasks[t].cancelled
  BY <1>0, CancelledStep DEF CancelledStays
<1>2. /\ tasks[t].endings = IF tasks[t].status \in Final THEN 1 ELSE 0
      /\ tasks[t].status \in Final =>
           \A d \in Cs : calls[d].task = t => calls[d].pc \notin Unfinished
  BY <1>0, <1>1 DEF EndedInv, Idle, InProgress, Cs
<1>3. ASSUME NEW d \in 1..Len(calls'), calls'[d].task = t, calls'[d].pc \in Unfinished
      PROVE  d \in Cs /\ calls[d].task = t
  <2>1. d \in Cs
    BY <1>0, <1>3, CallsAfter DEF Unfinished
  <2> QED
    BY <1>0, <1>3, <2>1, CallsGoOnStep DEF CallsGoOn
<1>4. CASE Untold(t)
  <2>1. ASSUME NEW d \in 1..Len(calls'), calls'[d].task = t, calls'[d].pc \in Unfinished,
               tasks'[t].status \in Final
        PROVE  FALSE
    BY <1>0, <1>2, <1>3, <1>4, <2>1, BeginsBeforeEnd DEF Untold
  <2> QED
    BY <1>2, <1>4, <2>1 DEF Untold
<1>5. ASSUME NEW c \in Cs, Tells(c, t)
      PROVE  /\ tasks'[t].endings = IF tasks'[t].status \in Final THEN 1 ELSE 0
             /\ tasks'[t].status \in Final =>
                  \A d \in 1..Len(calls') : ~(calls'[d].task = t /\ calls'[d].pc \in Unfinished)
  <2>1. calls[c].task = t /\ calls[c].pc \in Unfinished /\ tasks[t].status \notin Final
    BY <1>2, <1>5 DEF Tells
  <2>2. tasks[t].endings = 0
    BY <1>2, <2>1
  <2>3. CASE tasks'[t].status = "working" /\ tasks'[t].endings = tasks[t].endings
    BY <2>2, <2>3 DEF Final
  <2>4. CASE /\ tasks'[t].status \in Final /\ tasks'[t].endings = tasks[t].endings + 1
             /\ calls'[c].pc \in Finished
    <3>1. ASSUME NEW d \in 1..Len(calls'), calls'[d].task = t, calls'[d].pc \in Unfinished
          PROVE  FALSE
      <4>1. d # c
        BY <2>4, <3>1 DEF Unfinished, Finished
      <4>2. d \in Cs /\ calls[d].task = t /\ calls[d].pc \in Unfinished
        BY <1>3, <1>5, <3>1, <4>1 DEF Tells
      <4> QED
        BY <1>0, <2>1, <4>1, <4>2, Alone
    <3> QED
      BY <2>2, <2>4, <3>1
  <2>5. CASE PumpPause(c)
    <3>1. /\ TaskSteps(t, Asked(tasks[t], streams[calls[c].stream].asked))
          /\ streams[calls[c].stream].asked \in Requests \cup {NoRequest}
      BY <1>0, <2>1, <2>5, PumpPauseDoes, Facts
    <3>2. tasks'[t].status = "input" /\ tasks'[t].endings = tasks[t].endings
      BY <1>0, <1>1, <3>1, AskedIs DEF TaskSteps, TypeInv, BaseInv, OpenInv
    <3> QED
      BY <2>2, <3>2 DEF Final
  <2> QED
    BY <1>5, <2>3, <2>4, <2>5 DEF Tells
<1>6. ASSUME NEW c \in Cs, Refuse(c), calls[c].task = t
      PROVE  tasks'[t].status = "input" /\ tasks'[t].endings = 0
  <2>1. /\ TaskSteps(t, Asked(tasks[t], streams[streamOf[t]].asked))
        /\ streams[streamOf[t]].asked \in Requests \cup {NoRequest}
        /\ tasks[t].status \notin Final
    BY <1>0, <1>6, RefuseDoes, Facts
  <2> QED
    BY <1>0, <1>1, <1>2, <2>1, AskedIs DEF TaskSteps, TypeInv, BaseInv, OpenInv
<1>7. CASE \E c \in Cs : Refuse(c) /\ calls[c].task = t
  BY <1>6, <1>7 DEF Final
<1> QED
  BY <1>0, <1>4, <1>5, <1>7, TasksGoStep DEF TasksGo, TaskGoes

\* An eviction of a run of the task is on record.
LEMMA EvictedIsOnRecord ==
  ASSUME Ground, [Next]_vars, NEW t, NEW r, Has(live, t, r), r \in evicted'
  PROVE  \E c \in 1..Len(calls') : calls'[c].task = t /\ calls'[c].run \in evicted'
<1>1. BaseInv /\ RunsInv /\ r \in Runs
  BY DEF Ground, BaseInv, RangeInv, TablesInRange
<1>2. PICK c \in Cs : calls[c].run = r
  BY <1>1 DEF RunsInv, StartedInv
<1>3. calls[c].task = t /\ calls'[c].task = t
  BY <1>1, <1>2, CallsGoOnStep DEF RunsInv, LiveInv, CallsGoOn
<1>4. calls'[c].run = r
  BY <1>1, <1>2, RunsGoStep DEF RunsGo, Runs, None
<1>5. c \in 1..Len(calls')
  BY <1>1, NothingIsLost, Facts DEF NoneLost, Cs
<1> QED
  BY <1>3, <1>4, <1>5

\* In turn, what waits for an answer can be answered.
LEMMA InputStep ==
  ASSUME Ground, WorkInv, TasksInv, [Next]_vars
  PROVE  InputInv'
<1> SUFFICES ASSUME NEW t \in InTurn, ~tasks'[t].cancelled, tasks'[t].status = "input",
                    \A d \in 1..Len(calls') : ~(calls'[d].task = t /\ calls'[d].pc \in Unfinished)
             PROVE  \/ \E r : /\ Has(live', t, r) /\ IsParked(sessions'[r])
                              /\ sessions'[r].lastRequest = tasks'[t].shown
                    \/ \E c \in 1..Len(calls') : calls'[c].task = t /\ calls'[c].run \in evicted'
  BY DEF InputInv, Answerable, Idle, InProgress, Cs
<1>0. /\ BaseInv /\ RunsInv /\ InterruptedInv /\ OpenInv /\ SerialInv /\ SessInv /\ t \in Tasks
      /\ InputInv /\ AttendingInv /\ ParkedInv
  BY DEF Ground, RunsInv, TasksInv, InTurn, WorkInv
<1>1. ~tasks[t].cancelled /\ tasks[t].open
  BY <1>0, CancelledStep DEF CancelledStays, OpenInv
<1>2. /\ \A d \in Cs : d \in 1..Len(calls') /\ calls'[d].task = calls[d].task
      /\ evicted \subseteq evicted'
      /\ \A d \in Cs : calls[d].run # None => calls'[d].run = calls[d].run
  <2>1. Len(calls') >= Len(calls) /\ Len(calls') \in Nat /\ Len(calls) \in Nat
    BY <1>0, NothingIsLost, Facts DEF NoneLost
  <2>2. \A d \in Cs : d \in 1..Len(calls')
    BY <2>1 DEF Cs
  <2> QED
    BY <1>0, <2>2, CallsGoOnStep, EvictedGrows, RunsGoStep DEF CallsGoOn, RunsGo
<1>3. ASSUME NEW r \in evicted, NEW d \in Cs, calls[d].run = r
      PROVE  calls'[d].run = r
  <2>1. r # None
    BY <1>0 DEF BaseInv, TypeInv, Runs, None
  <2> QED
    BY <1>2, <1>3, <2>1
<1>4. CASE Untold(t)
  <2>1. \A d \in Cs : calls[d].task = t => calls[d].pc \notin Unfinished
    BY <1>2, <1>4 DEF Untold
  <2>2. tasks[t].status = "input" /\ Idle(t) /\ tasks'[t].shown = tasks[t].shown
    BY <1>4, <2>1 DEF Untold, Idle, InProgress, Cs
  <2>3. CASE \E c \in Cs : calls[c].task = t /\ calls[c].run \in evicted
    BY <1>2, <1>3, <2>3
  <2>4. CASE Answerable(t)
    <3>1. PICK r : /\ Has(live, t, r) /\ IsParked(sessions[r])
                   /\ sessions[r].lastRequest = tasks[t].shown
      BY <2>4 DEF Answerable
    <3>2. r \in Runs /\ \A d \in Cs : calls[d].run = r => calls[d].task = t
      BY <1>0, <3>1 DEF BaseInv, RangeInv, TablesInRange, RunsInv, LiveInv
    <3>3. CASE r \in evicted'
      BY <3>1, <3>3, EvictedIsOnRecord
    <3>4. CASE Has(live', t, r)
      <4>1. Kept(t, r)
        <5>1. r # Len(sessions) + 1
          BY <1>0, <3>2, Facts DEF Runs
        <5> QED
          BY <1>0, <3>4, <5>1, LiveAfter
      <4>2. ASSUME NEW d \in Cs, calls[d].run = r, calls[d].pc \in Unfinished PROVE FALSE
        BY <2>1, <3>2, <4>2
      <4>3. sessions[r].pending \subseteq sessions'[r].pending
        <5>1. ASSUME NEW d \in Cs, SettlesIt(d, r) PROVE FALSE
          <6>1. calls[d].run = r /\ calls[d].pc \in Unfinished
            BY <1>0, <5>1, SettleDoes DEF SettlesIt, Unfinished
          <6> QED
            BY <4>2, <6>1
        <5> QED
          BY <4>1, <5>1 DEF Kept
      <4>4. sessions'[r].lastRequest = sessions[r].lastRequest
        <5>1. CASE sessions'[r] = sessions[r] \/ Fades(sessions[r], sessions'[r])
          BY <5>1 DEF Fades
        <5>2. ASSUME NEW q \in Requests, AskPermission(r, q)
              PROVE  sessions'[r].lastRequest = sessions[r].lastRequest
          BY <1>0, <3>2, <5>2, AskSession
        <5>3. ASSUME NEW d \in Cs, PumpPause(d), calls[d].run = r PROVE FALSE
          BY <1>0, <4>2, <5>3, PumpPauseDoes DEF Unfinished
        <5> QED
          BY <1>0, <3>2, <5>1, <5>2, <5>3, SessionsGoStep DEF SessionsGo
      <4> QED
        BY <2>2, <3>1, <3>4, <4>3, <4>4 DEF IsParked
    <3>5. ASSUME NEW c \in Cs, Goner(c, t) PROVE FALSE
      BY <2>1, <3>5 DEF Goner
    <3> QED
      BY <1>0, <3>1, <3>3, <3>4, <3>5, LiveStays DEF LiveGoes
  <2> QED
    BY <1>0, <1>1, <2>2, <2>3, <2>4 DEF InputInv
<1>5. ASSUME NEW c \in Cs, Tells(c, t), PumpPause(c)
      PROVE  \/ \E r : /\ Has(live', t, r) /\ IsParked(sessions'[r])
                       /\ sessions'[r].lastRequest = tasks'[t].shown
             \/ \E d \in 1..Len(calls') : calls'[d].task = t /\ calls'[d].run \in evicted'
  <2> DEFINE r == calls[c].run
             q == streams[calls[c].stream].asked
  <2>1. calls[c].task = t /\ calls[c].pc = "publishing" /\ calls[c].pc \in Attended
    BY <1>0, <1>5, PumpPauseDoes DEF Tells, Attended, Pumping
  <2>2. CASE r \in evicted
    BY <1>2, <1>3, <2>1, <2>2
  <2>3. CASE Has(live, t, r)
    <3>1. q \in sessions[r].pending
      BY <1>0, <2>1, <2>3 DEF AttendingInv
    <3>2. /\ r \in Runs /\ sessions'[r].lastRequest = q
          /\ sessions'[r].pending = sessions[r].pending
      BY <1>0, <1>5, PauseSteps
    <3>3. q \in Requests /\ q # NoRequest
      BY <1>0, <3>1, <3>2, Facts, NoRequestAssumption
    <3>4. Has(live', t, r) /\ TaskSteps(t, Asked(tasks[t], q))
      BY <1>0, <1>5, <2>1, <2>3, PumpPauseDoes
    <3>5. tasks'[t].shown = q
      BY <1>0, <1>1, <3>3, <3>4, AskedIs DEF TaskSteps, TypeInv, BaseInv
    <3> QED
      BY <3>1, <3>2, <3>3, <3>4, <3>5 DEF IsParked
  <2> QED
    BY <1>0, <1>1, <2>1, <2>2, <2>3 DEF AttendingInv
<1>6. ASSUME NEW c \in Cs, Refuse(c), calls[c].task = t
      PROVE  \E r : /\ Has(live', t, r) /\ IsParked(sessions'[r])
                    /\ sessions'[r].lastRequest = tasks'[t].shown
  <2> DEFINE q == streams[streamOf[t]].asked
  <2>1. PICK r \in Runs : Has(live, t, r) /\ IsParked(sessions[r])
    BY <1>0, <1>6, RefuseDoes
  <2>2. /\ TaskSteps(t, Asked(tasks[t], q)) /\ streamOf[t] \in 1..Len(streams)
        /\ live' = live /\ sessions' = sessions
    BY <1>0, <1>6, RefuseDoes
  <2>3. q \in Requests \cup {NoRequest}
    BY <1>0, <2>2, Facts
  <2>4. tasks'[t].shown = q
    BY <1>0, <1>1, <2>2, <2>3, AskedIs DEF TaskSteps, TypeInv, BaseInv
  <2>5. sessions[r].lastRequest = q
    BY <1>0, <2>1 DEF ParkedInv
  <2> QED
    BY <2>1, <2>2, <2>4, <2>5
<1>7. ASSUME NEW c \in Cs, Tells(c, t) PROVE PumpPause(c)
  BY <1>7 DEF Tells, Final
<1>8. TaskGoes(t)
  BY <1>0, TasksGoStep DEF TasksGo
<1> QED
  BY <1>4, <1>5, <1>6, <1>7, <1>8 DEF TaskGoes

\* The invariant of tasks is inductive.
LEMMA TasksStep ==
  ASSUME Ground, WorkInv, TasksInv, [Next]_vars
  PROVE  TasksInv'
<1>1. BaseInv /\ InterruptedInv /\ OpenInv
  BY DEF Ground, RunsInv, TasksInv
<1>2. OpenInv'
  BY <1>1, OpenStep
<1>3. EndedInv' /\ InputInv'
  BY EndedStep, InputStep
<1> QED
  BY <1>2, <1>3 DEF TasksInv

(***************************************************************************)
(* Runs held.                                                              *)
(***************************************************************************)
\* A run on its way out stays on it.
LEMMA LeavingStays ==
  ASSUME BaseInv, [Next]_vars, NEW x \in Runs, Leaving(sessions[x])
  PROVE  Leaving(sessions'[x])
<1>a. ASSUME sessions' = sessions PROVE Leaving(sessions'[x])
  BY <1>a
<1>b. ASSUME NEW r \in Runs, Stopped(r) PROVE Leaving(sessions'[x])
  BY <1>b DEF Stopped, SessionSteps
<1>c. ASSUME NEW r \in Runs, Worked(r) PROVE Leaving(sessions'[x])
  BY <1>c DEF Worked, SessionSteps
<1>d. ASSUME NEW r \in Runs, sessions'[r].runner = sessions[r].runner,
             sessions'[r].closer = sessions[r].closer,
             \A y \in Runs : y # r => sessions'[y] = sessions[y]
      PROVE  Leaving(sessions'[x])
  BY <1>d DEF Leaving, Alive
<1>1. ASSUME NEW t \in Tasks, Deliver(t) PROVE Leaving(sessions'[x])
  BY <1>1, DeliverDoes, <1>a
<1>2. ASSUME NEW t \in Tasks, Cancel(t) PROVE Leaving(sessions'[x])
  BY <1>2, <1>a, <1>b, CancelDoes
<1>3. ASSUME NEW c \in Cs, Execute(c) PROVE Leaving(sessions'[x])
  <2>1. CASE Greet(c) \/ Acquire(c) \/ GetLock(c) \/ Raise(c) \/ Refuse(c)
     \/ Accept(c)
    BY <2>1, GreetDoes, AcquireDoes, GetLockDoes, RaiseDoes, RefuseDoes,
       AcceptDoes, <1>a
  <2>2. CASE PumpPrompt(c)
    BY <2>2, PumpPromptDoes, <1>c
  <2>3. CASE Evict(c) \/ AwaitVictim(c)
    BY <2>3, EvictDoes, AwaitVictimDoes, <1>b
  <2>4. CASE PumpOutput(c) \/ PumpFailure(c) \/ PumpEvicted(c) \/ PumpEnd(c)
     \/ Complete(c)
    BY <2>4, PumpOutputDoes, PumpFailureDoes, PumpEvictedDoes,
       PumpEndDoes, CompleteDoes, <1>c
  <2>5. CASE Admit(c)
    BY <2>5, AdmitDoes
  <2>6. CASE Settle(c)
    <3>1. calls[c].run \in Runs /\ (sessions' = sessions \/ Worked(calls[c].run))
      BY <2>6, SettleDoes
    <3> QED
      BY <1>a, <1>c, <3>1
  <2>7. CASE PumpPause(c)
    <3>1. /\ calls[c].run \in Runs
          /\ \A y \in Runs : y # calls[c].run => sessions'[y] = sessions[y]
      BY <2>7, PumpPauseDoes DEF SessionSteps
    <3> QED
      BY <1>d, <2>7, <3>1, PauseSteps
  <2> QED
    BY <1>3, <2>1, <2>2, <2>3, <2>4, <2>5, <2>6, <2>7 DEF Execute
<1>4. ASSUME NEW c \in Cs, Interrupt(c) PROVE Leaving(sessions'[x])
  <2>1. CASE InterruptPublishing(c) \/ InterruptWaiting(c)
    BY <2>1, InterruptQuietDoes, <1>a
  <2>2. CASE InterruptEvicting(c) \/ SwallowCancel(c) \/ InterruptPump(c)
    BY <2>2, InterruptEvictingDoes, SwallowCancelDoes, InterruptPumpDoes,
       <1>b
  <2> QED
    BY <1>4, <2>1, <2>2 DEF Interrupt
<1>5. ASSUME NEW r \in Runs, Run(r) PROVE Leaving(sessions'[x])
  <2>1. CASE Begin(r) \/ Register(r) \/ Speak(r) \/ Return(r) \/ Fail(r)
    BY <2>1, RunnerDoes, <1>c
  <2>2. ASSUME NEW q \in Requests, AskPermission(r, q) PROVE Leaving(sessions'[x])
    BY <1>d, <2>2, AskSession
  <2> QED
    BY <1>5, <2>1, <2>2 DEF Run
<1>6. ASSUME NEW r \in Runs, KeepClosing(r) PROVE Leaving(sessions'[x])
  BY <1>6, KeepClosingDoes, <1>b
<1>7. CASE UNCHANGED vars
  BY <1>7, <1>a DEF vars
<1> QED
  BY <1>1, <1>2, <1>3, <1>4, <1>5, <1>6, <1>7 DEF Next, Cs

\* What leaves the table in turn is on its way out.
StaysOrLeaves(u, x) == Has(live', u, x) \/ Leaving(sessions'[x])

\* In turn, an entry leaves the table with its run on its way out.
LEMMA DroppedIsLeaving ==
  ASSUME Ground, WorkInv, [Next]_vars, NEW u \in InTurn, NEW x, Has(live, u, x)
  PROVE  StaysOrLeaves(u, x)
<1>0. /\ BaseInv /\ RunsInv /\ x \in Runs /\ u \in Tasks
      /\ EnteringInv /\ AttendingInv
      /\ \A y : Has(live, u, y) => y = x
  <2>1. BaseInv /\ RunsInv /\ EnteringInv /\ AttendingInv
    BY DEF Ground, WorkInv
  <2>2. x \in Runs /\ u \in Tasks
    BY <2>1 DEF BaseInv, RangeInv, TablesInRange
  <2>3. \A y : Has(live, u, y) => y = x
    BY <2>1, KeyedHas DEF BaseInv, TypeInv
  <2> QED
    BY <2>1, <2>2, <2>3
<1>a. ASSUME live' = live PROVE StaysOrLeaves(u, x)
  BY <1>a DEF StaysOrLeaves
<1>b. ASSUME NEW c \in Cs, calls[c].task = u, calls[c].pc \in Attended PROVE calls[c].run = x
  BY <1>0, <1>b DEF AttendingInv
<1>c. ASSUME NEW c \in Cs, LiveDrops(calls[c].task), calls[c].pc \in Attended,
             ~Alive(sessions[calls[c].run])
      PROVE  StaysOrLeaves(u, x)
  <2>1. CASE calls[c].task # u
    BY <1>c, <2>1 DEF LiveDrops, StaysOrLeaves
  <2>2. CASE calls[c].task = u
    <3>1. ~Alive(sessions[x])
      BY <1>b, <1>c, <2>2
    <3> QED
      BY <1>0, <3>1, OverStays DEF Leaving, StaysOrLeaves
  <2> QED
    BY <2>1, <2>2
<1>1. ASSUME NEW t \in Tasks, Deliver(t) PROVE StaysOrLeaves(u, x)
  BY <1>1, DeliverDoes, <1>0, <1>a
<1>2. ASSUME NEW t \in Tasks, Cancel(t) PROVE StaysOrLeaves(u, x)
  <2>1. CASE t # u
    <3>1. LiveDrops(t)
      BY <1>0, <1>2, CancelDoes
    <3> QED
      BY <2>1, <3>1 DEF LiveDrops, StaysOrLeaves
  <2>2. CASE t = u
    <3>1. PICK r \in Runs : Has(live, u, r) /\ Stopped(r)
      BY <1>0, <1>2, <2>2, CancelDoes
    <3> QED
      BY <1>0, <3>1 DEF Stopped, StaysOrLeaves
  <2> QED
    BY <2>1, <2>2
<1>3. ASSUME NEW c \in Cs, Execute(c) PROVE StaysOrLeaves(u, x)
  <2>1. CASE Greet(c) \/ Acquire(c) \/ GetLock(c) \/ AwaitVictim(c) \/
     Raise(c) \/ Refuse(c) \/ Accept(c) \/ Settle(c)
    BY <2>1, GreetDoes, AcquireDoes, GetLockDoes, AwaitVictimDoes,
       RaiseDoes, RefuseDoes, AcceptDoes, SettleDoes, <1>0, <1>a
  <2>2. CASE PumpOutput(c) \/ PumpPrompt(c) \/ PumpPause(c) \/
     PumpEvicted(c) \/ PumpEnd(c)
    BY <2>2, PumpOutputDoes, PumpPromptDoes, PumpPauseDoes,
       PumpEvictedDoes, PumpEndDoes, <1>0, <1>a
  <2>3. CASE Evict(c)
    <3>1. PICK w \in Tasks, r \in Runs : Has(live, w, r) /\ LiveDrops(w) /\ Stopped(r)
      BY <1>0, <2>3, EvictDoes
    <3>2. CASE w # u
      BY <3>1, <3>2 DEF LiveDrops, StaysOrLeaves
    <3>3. CASE w = u
      BY <1>0, <3>1, <3>3 DEF Stopped, StaysOrLeaves
    <3> QED
      BY <3>2, <3>3
  <2>4. CASE Admit(c)
    <3>1. calls[c].task = u => calls[c].pc \notin Entering
      BY <1>0 DEF EnteringInv
    <3>2. calls[c].pc \in Entering /\ \A w, y : Has(live, w, y) /\ w # calls[c].task => Has(live', w, y)
      BY <1>0, <2>4, AdmitDoes DEF Entering
    <3> QED
      BY <3>1, <3>2 DEF StaysOrLeaves
  <2>5. CASE PumpFailure(c)
    <3>1. /\ LiveDrops(calls[c].task) /\ calls[c].pc = "draining"
          /\ calls[c].run \in Runs /\ Over(sessions[calls[c].run].queue)
      BY <1>0, <2>5, PumpFailureDoes
    <3>2. ~Alive(sessions[calls[c].run])
      BY <3>1 DEF Ground, SessInv, QueueInv
    <3> QED
      BY <1>c, <3>1, <3>2 DEF Attended, Pumping
  <2>6. CASE Complete(c)
    <3>1. LiveDrops(calls[c].task) /\ calls[c].pc = "closing"
      BY <1>0, <2>6, CompleteDoes
    <3>2. ~Alive(sessions[calls[c].run])
      BY <3>1 DEF Ground, SessInv, ClosingInv
    <3> QED
      BY <1>c, <3>1, <3>2 DEF Attended, Pumping
  <2> QED
    BY <1>3, <2>1, <2>2, <2>3, <2>4, <2>5, <2>6 DEF Execute
<1>4. ASSUME NEW c \in Cs, Interrupt(c) PROVE StaysOrLeaves(u, x)
  <2>1. CASE InterruptPublishing(c) \/ InterruptWaiting(c) \/
     InterruptEvicting(c) \/ SwallowCancel(c)
    BY <2>1, InterruptQuietDoes, InterruptEvictingDoes, SwallowCancelDoes,
       <1>0, <1>a
  <2>2. CASE InterruptPump(c)
    <3>1. LiveDrops(calls[c].task) /\ calls[c].interrupted
      BY <1>0, <2>2, InterruptPumpDoes
    <3>2. calls[c].task # u
      BY <1>0, <3>1 DEF EnteringInv
    <3> QED
      BY <3>1, <3>2 DEF LiveDrops, StaysOrLeaves
  <2> QED
    BY <1>4, <2>1, <2>2 DEF Interrupt
<1>5. ASSUME NEW r \in Runs, Run(r) PROVE StaysOrLeaves(u, x)
  <2>1. CASE Begin(r) \/ Register(r) \/ Speak(r) \/ Return(r) \/ Fail(r)
    BY <2>1, RunnerDoes, <1>0, <1>a
  <2>2. ASSUME NEW q \in Requests, AskPermission(r, q) PROVE StaysOrLeaves(u, x)
    BY <2>2, AskPermissionDoes, <1>0, <1>a
  <2> QED
    BY <1>5, <2>1, <2>2 DEF Run
<1>6. ASSUME NEW r \in Runs, KeepClosing(r) PROVE StaysOrLeaves(u, x)
  BY <1>6, KeepClosingDoes, <1>0, <1>a
<1>7. CASE UNCHANGED vars
  BY <1>7, <1>0, <1>a DEF vars
<1> QED
  BY <1>1, <1>2, <1>3, <1>4, <1>5, <1>6, <1>7 DEF Next, Cs

\* A new run is admitted.
NewIsAdmitted == Len(sessions') = Len(sessions) \/ \E e \in Cs : Admit(e)

\* Every step starts runs that way.
LEMMA NewRunIsAdmitted ==
  ASSUME BaseInv, [Next]_vars
  PROVE  NewIsAdmitted
<1>a. ASSUME sessions' = sessions PROVE NewIsAdmitted
  BY <1>a DEF NewIsAdmitted
<1>b. ASSUME NEW r \in Runs, Stopped(r) \/ Worked(r) PROVE NewIsAdmitted
  BY <1>b DEF Stopped, Worked, SessionSteps, NewIsAdmitted
<1>c. ASSUME NEW r \in Runs, NEW s, SessionSteps(r, s) PROVE NewIsAdmitted
  BY <1>c DEF SessionSteps, NewIsAdmitted
<1>1. ASSUME NEW t \in Tasks, Deliver(t) PROVE NewIsAdmitted
  BY <1>1, DeliverDoes, <1>a
<1>2. ASSUME NEW t \in Tasks, Cancel(t) PROVE NewIsAdmitted
  BY <1>2, <1>a, <1>b, CancelDoes
<1>3. ASSUME NEW c \in Cs, Execute(c) PROVE NewIsAdmitted
  <2>1. CASE Greet(c) \/ Acquire(c) \/ GetLock(c) \/ Raise(c) \/ Refuse(c)
     \/ Accept(c)
    BY <2>1, GreetDoes, AcquireDoes, GetLockDoes, RaiseDoes, RefuseDoes,
       AcceptDoes, <1>a
  <2>2. CASE Evict(c) \/ AwaitVictim(c)
    BY <2>2, EvictDoes, AwaitVictimDoes, <1>b
  <2>3. CASE PumpPrompt(c) \/ PumpOutput(c) \/ PumpFailure(c) \/
     PumpEvicted(c) \/ PumpEnd(c) \/ Complete(c)
    BY <2>3, PumpPromptDoes, PumpOutputDoes, PumpFailureDoes,
       PumpEvictedDoes, PumpEndDoes, CompleteDoes, <1>b
  <2>4. CASE Admit(c)
    BY <2>4 DEF NewIsAdmitted
  <2>5. CASE Settle(c)
    BY <1>a, <1>b, <2>5, SettleDoes
  <2>6. CASE PumpPause(c)
    BY <1>c, <2>6, PumpPauseDoes
  <2> QED
    BY <1>3, <2>1, <2>2, <2>3, <2>4, <2>5, <2>6 DEF Execute
<1>4. ASSUME NEW c \in Cs, Interrupt(c) PROVE NewIsAdmitted
  <2>1. CASE InterruptPublishing(c) \/ InterruptWaiting(c)
    BY <2>1, InterruptQuietDoes, <1>a
  <2>2. CASE InterruptEvicting(c) \/ SwallowCancel(c) \/ InterruptPump(c)
    BY <2>2, InterruptEvictingDoes, SwallowCancelDoes, InterruptPumpDoes,
       <1>b
  <2> QED
    BY <1>4, <2>1, <2>2 DEF Interrupt
<1>5. ASSUME NEW r \in Runs, Run(r) PROVE NewIsAdmitted
  <2>1. CASE Begin(r) \/ Register(r) \/ Speak(r) \/ Return(r) \/ Fail(r)
    BY <2>1, RunnerDoes, <1>b
  <2>2. ASSUME NEW q \in Requests, AskPermission(r, q) PROVE NewIsAdmitted
    BY <1>c, <2>2, AskPermissionDoes
  <2> QED
    BY <1>5, <2>1, <2>2 DEF Run
<1>6. ASSUME NEW r \in Runs, KeepClosing(r) PROVE NewIsAdmitted
  BY <1>6, KeepClosingDoes, <1>b
<1>7. CASE UNCHANGED vars
  BY <1>7, <1>a DEF vars
<1> QED
  BY <1>1, <1>2, <1>3, <1>4, <1>5, <1>6, <1>7 DEF Next, Cs

\* A run that goes on is in the table or on its way out, unless a call of an
\* overlapping task started it.
HeldInv ==
  \A r \in Runs : \/ Leaving(sessions[r])
                  \/ \E t : Has(live, t, r)
                  \/ \E c \in Cs : calls[c].run = r /\ calls[c].task \in Overlapping

\* A run that goes on is held, or on its way out.
LEMMA HeldStep ==
  ASSUME Ground, WorkInv, HeldInv, [Next]_vars
  PROVE  HeldInv'
<1> SUFFICES ASSUME NEW r \in 1..Len(sessions')
             PROVE  \/ Leaving(sessions'[r])
                    \/ \E t : Has(live', t, r)
                    \/ \E c \in 1..Len(calls') : calls'[c].run = r /\ calls'[c].task \in Overlapping
  BY DEF HeldInv, Runs, Cs
<1>0. BaseInv /\ RunsInv
  BY DEF Ground
<1>1. CASE r \in Runs
  <2>1. CASE Leaving(sessions[r])
    BY <1>0, <1>1, <2>1, LeavingStays
  <2>2. ASSUME NEW c \in Cs, calls[c].run = r, calls[c].task \in Overlapping
        PROVE  c \in 1..Len(calls') /\ calls'[c].run = r /\ calls'[c].task \in Overlapping
    <3>1. c \in 1..Len(calls') /\ calls'[c].task = calls[c].task
      BY <1>0, CallsGoOnStep, NothingIsLost, Facts DEF CallsGoOn, NoneLost, Cs
    <3>2. calls'[c].run = r
      BY <1>0, <1>1, <2>2, RunsGoStep DEF RunsGo, Runs, None
    <3> QED
      BY <2>2, <3>1, <3>2
  <2>3. ASSUME NEW t, Has(live, t, r)
        PROVE  \/ Leaving(sessions'[r])
               \/ Has(live', t, r)
               \/ \E c \in Cs : calls[c].run = r /\ calls[c].task \in Overlapping
    <3>1. t \in Tasks
      BY <1>0, <2>3 DEF BaseInv, RangeInv, TablesInRange
    <3>2. CASE t \in InTurn
      BY <2>3, <3>2, DroppedIsLeaving DEF StaysOrLeaves
    <3>3. CASE t \in Overlapping
      <4>1. PICK c \in Cs : calls[c].run = r
        BY <1>0, <1>1 DEF RunsInv, StartedInv
      <4>2. calls[c].task = t
        BY <1>0, <2>3, <4>1 DEF RunsInv, LiveInv
      <4> QED
        BY <3>3, <4>1, <4>2
    <3> QED
      BY <3>1, <3>2, <3>3 DEF InTurn
  <2> QED
    BY <1>1, <2>1, <2>2, <2>3 DEF HeldInv
<1>2. CASE r \notin Runs
  <2>1. r = Len(sessions) + 1
    BY <1>0, <1>2, SessionsGoStep DEF SessionsGo
  <2>2. PICK c \in Cs : Admit(c)
    <3>1. Len(sessions') # Len(sessions)
      BY <1>0, <2>1, Facts
    <3> QED
      BY <1>0, <3>1, NewRunIsAdmitted DEF NewIsAdmitted
  <2> QED
    BY <1>0, <2>1, <2>2, AdmitDoes
<1> QED
  BY <1>1, <1>2

(***************************************************************************)
(* While no event queue is full, a call keeps the event loop over its last *)
(* publications.                                                           *)
(***************************************************************************)
LastChunksInv ==
  \A c \in Cs : calls[c].pc = "closing" => loop = c /\ calls[c].run \notin evicted

CompletedInv ==
  \A c \in Cs : calls[c].pc = "completed" =>
    calls[c].run \notin evicted /\ \A t : ~Has(live, t, calls[c].run)

ToBeTold(t) ==
  /\ tasks[t].open
  /\ \E c \in Cs : /\ calls[c].task = t /\ calls[c].interrupted
                   /\ calls[c].pc \in {"draining", "publishing"}
ToldInv == \A t \in Tasks : tasks[t].cancelled => tasks[t].endings > 0 \/ ToBeTold(t)

QuietInv == LastChunksInv /\ CompletedInv /\ ToldInv

\* A call that keeps the loop is the next to step.
LEMMA KeepsTheLoop ==
  ASSUME BaseInv, [Next]_vars, NEW c \in Cs, loop = c, calls[c].pc = "closing"
  PROVE  Complete(c) \/ UNCHANGED vars
<1>0. c # Nobody /\ loop # Nobody
  BY DEF Cs, Nobody
<1>1. ASSUME NEW t \in Tasks, Deliver(t) \/ Cancel(t) PROVE FALSE
  BY <1>0, <1>1 DEF Deliver, Cancel
<1>2. ASSUME NEW d \in Cs, Execute(d) PROVE Complete(c)
  <2>1. MayRun(d)
    <3>1. CASE Greet(d) \/ Acquire(d) \/ GetLock(d) \/ Evict(d) \/ AwaitVictim(d)
      BY <3>1 DEF Greet, Acquire, GetLock, Evict, AwaitVictim
    <3>2. CASE Admit(d) \/ Raise(d) \/ Refuse(d) \/ Accept(d) \/ Settle(d)
      BY <3>2 DEF Admit, Raise, Refuse, Accept, Settle
    <3>3. CASE PumpOutput(d) \/ PumpPrompt(d) \/ PumpFailure(d) \/ PumpEvicted(d) \/ PumpEnd(d)
      BY <3>3 DEF PumpOutput, PumpPrompt, PumpFailure, PumpEvicted, PumpEnd, DrainsItem
    <3>4. CASE PumpPause(d) \/ Complete(d)
      BY <3>4 DEF PumpPause, Complete
    <3> QED
      BY <1>2, <3>1, <3>2, <3>3, <3>4 DEF Execute
  <2>2. d = c
    BY <1>0, <2>1 DEF MayRun
  <2>3. CASE Greet(c) \/ Acquire(c) \/ GetLock(c) \/ Evict(c) \/ AwaitVictim(c)
    BY <2>3, GreetDoes, AcquireDoes, GetLockDoes, EvictDoes, AwaitVictimDoes
  <2>4. CASE Admit(c) \/ Raise(c) \/ Refuse(c) \/ Accept(c) \/ Settle(c)
    BY <2>4, AdmitDoes, RaiseDoes, RefuseDoes, AcceptDoes, SettleDoes
  <2>5. CASE PumpOutput(c) \/ PumpPrompt(c) \/ PumpFailure(c) \/ PumpEvicted(c) \/ PumpEnd(c)
    BY <2>5 DEF PumpOutput, PumpPrompt, PumpFailure, PumpEvicted, PumpEnd, DrainsItem
  <2>6. CASE PumpPause(c)
    BY <2>6, PumpPauseDoes
  <2> QED
    BY <1>2, <2>2, <2>3, <2>4, <2>5, <2>6 DEF Execute
<1>3. ASSUME NEW d \in Cs, Interrupt(d) PROVE FALSE
  BY <1>0, <1>3 DEF Interrupt, InterruptPublishing, InterruptWaiting, InterruptEvicting,
                    SwallowCancel, InterruptPump, Unwind
<1>4. ASSUME NEW r \in Runs, Run(r) \/ KeepClosing(r) PROVE FALSE
  BY <1>0, <1>4 DEF Run, Begin, Register, Speak, Return, Fail, AskPermission, Backend, KeepClosing
<1> QED
  BY <1>1, <1>2, <1>3, <1>4 DEF Next, Cs

\* How a call comes to its last chunks and its end, and what awaits it cancelled.
QuietCall(c) ==
  /\ calls'[c].pc = "closing" => calls[c].pc = "closing" \/ PumpEnd(c)
  /\ calls'[c].pc = "completed" => calls[c].pc = "completed" \/ Complete(c)
  /\ calls[c].interrupted =>
       \/ Interrupt(c)
       \/ calls'[c].interrupted /\ calls'[c].pc = calls[c].pc
QuietCalls == \A c \in Cs : QuietCall(c)

\* Every step moves the calls that way.
LEMMA QuietCallsStep ==
  ASSUME BaseInv, InterruptedInv, [Next]_vars
  PROVE  QuietCalls
<1>a. ASSUME \A d \in Cs : calls'[d] = calls[d] PROVE QuietCalls
  BY <1>a DEF QuietCalls, QuietCall
<1>b. ASSUME NEW c \in Cs, NEW pc, NEW run, NEW stream, CallSteps(c, pc, run, stream),
             ~calls[c].interrupted, pc = "closing" => PumpEnd(c), pc = "completed" => Complete(c)
      PROVE  QuietCalls
  BY <1>b DEF QuietCalls, QuietCall, CallSteps
<1>c. ASSUME NEW c \in Cs, NEW pc \in {"dropped", "evicting"}, NEW run, NEW stream,
             CallSteps(c, pc, run, stream), Interrupt(c)
      PROVE  QuietCalls
  BY <1>c DEF QuietCalls, QuietCall, CallSteps
<1>1. ASSUME NEW t \in Tasks, Deliver(t) PROVE QuietCalls
  BY <1>1, DeliverDoes, <1>a
<1>2. ASSUME NEW t \in Tasks, Cancel(t) PROVE QuietCalls
  <2>1. \A d \in Cs : /\ calls'[d].pc = IF calls[d].task = t /\ calls[d].pc = "queued"
                                       THEN "dropped" ELSE calls[d].pc
                      /\ calls[d].interrupted => calls'[d].interrupted
    BY <1>2, CancelDoes DEF CallsOfCancelled
  <2>2. \A d \in Cs : calls[d].interrupted => calls[d].pc # "queued"
    BY DEF InterruptedInv, Unfinished
  <2>3. ASSUME NEW d \in Cs PROVE QuietCall(d)
    <3>1. calls'[d].pc = "closing" \/ calls'[d].pc = "completed" => calls'[d].pc = calls[d].pc
      BY <2>1
    <3>2. calls[d].interrupted => calls'[d].interrupted /\ calls'[d].pc = calls[d].pc
      BY <2>1, <2>2
    <3> QED
      BY <3>1, <3>2 DEF QuietCall
  <2> QED
    BY <2>3 DEF QuietCalls
<1>3. ASSUME NEW c \in Cs, Execute(c) PROVE QuietCalls
  <2>1. CASE Greet(c)
    <3>1. ~calls[c].interrupted /\ CallSteps(c, "greeting", calls[c].run, calls[c].stream)
      BY <2>1, GreetDoes
    <3> QED
      BY <1>b, <2>1, <3>1
  <2>2. CASE Acquire(c)
    <3>1. ~calls[c].interrupted
      BY <2>2, AcquireDoes
    <3>2. PICK pc \in {"waiting", "admitting"} : CallSteps(c, pc, calls[c].run, calls[c].stream)
      BY <2>2, AcquireDoes
    <3> QED
      BY <1>b, <3>1, <3>2
  <2>3. CASE GetLock(c)
    <3>1. ~calls[c].interrupted /\ CallSteps(c, "admitting", calls[c].run, calls[c].stream)
      BY <2>3, GetLockDoes
    <3> QED
      BY <1>b, <2>3, <3>1
  <2>4. CASE Evict(c)
    <3>1. ~calls[c].interrupted
      BY <2>4, EvictDoes
    <3>2. PICK pc \in {"admitting", "evicting"} : CallSteps(c, pc, calls[c].run, calls[c].stream)
      BY <2>4, EvictDoes
    <3> QED
      BY <1>b, <3>1, <3>2
  <2>5. CASE AwaitVictim(c)
    <3>1. ~calls[c].interrupted
      BY <2>5, AwaitVictimDoes
    <3>2. PICK pc \in {"admitting", "evicting"} : CallSteps(c, pc, calls[c].run, calls[c].stream)
      BY <2>5, AwaitVictimDoes
    <3> QED
      BY <1>b, <3>1, <3>2
  <2>6. CASE Admit(c)
    <3>1. ~calls[c].interrupted /\ CallSteps(c, "draining", Len(sessions) + 1, StreamFor(calls[c].task))
      BY <2>6, AdmitDoes
    <3> QED
      BY <1>b, <2>6, <3>1
  <2>7. CASE Raise(c)
    <3>1. ~calls[c].interrupted /\ CallSteps(c, "raised", calls[c].run, calls[c].stream)
      BY <2>7, RaiseDoes
    <3> QED
      BY <1>b, <2>7, <3>1
  <2>8. CASE Refuse(c)
    <3>1. ~calls[c].interrupted /\ CallSteps(c, "refused", calls[c].run, calls[c].stream)
      BY <2>8, RefuseDoes
    <3> QED
      BY <1>b, <2>8, <3>1
  <2>9. CASE Accept(c)
    <3>1. ~calls[c].interrupted
      BY <2>9, AcceptDoes
    <3>2. PICK r \in Runs : CallSteps(c, "answering", r, streamOf[calls[c].task])
      BY <2>9, AcceptDoes
    <3> QED
      BY <1>b, <3>1, <3>2
  <2>10. CASE Settle(c)
    <3>1. ~calls[c].interrupted
      BY <2>10, SettleDoes
    <3>2. \/ CallSteps(c, "draining", calls[c].run, StreamFor(calls[c].task))
          \/ CallSteps(c, "raised", calls[c].run, calls[c].stream)
      BY <2>10, SettleDoes
    <3> QED
      BY <1>b, <3>1, <3>2
  <2>11. CASE PumpOutput(c)
    BY <2>11, PumpOutputDoes, <1>a
  <2>12. CASE PumpPrompt(c)
    <3>1. ~calls[c].interrupted /\ CallSteps(c, "publishing", calls[c].run, calls[c].stream)
      BY <2>12, PumpPromptDoes
    <3> QED
      BY <1>b, <2>12, <3>1
  <2>13. CASE PumpPause(c)
    <3>1. ~calls[c].interrupted /\ CallSteps(c, "paused", calls[c].run, calls[c].stream)
      BY <2>13, PumpPauseDoes
    <3> QED
      BY <1>b, <2>13, <3>1
  <2>14. CASE PumpFailure(c)
    <3>1. ~calls[c].interrupted /\ CallSteps(c, "failed", calls[c].run, calls[c].stream)
      BY <2>14, PumpFailureDoes
    <3> QED
      BY <1>b, <2>14, <3>1
  <2>15. CASE PumpEvicted(c)
    <3>1. ~calls[c].interrupted /\ CallSteps(c, "evicted", calls[c].run, calls[c].stream)
      BY <2>15, PumpEvictedDoes
    <3> QED
      BY <1>b, <2>15, <3>1
  <2>16. CASE PumpEnd(c)
    <3>1. ~calls[c].interrupted /\ CallSteps(c, "closing", calls[c].run, calls[c].stream)
      BY <2>16, PumpEndDoes
    <3> QED
      BY <1>b, <2>16, <3>1
  <2>17. CASE Complete(c)
    <3>1. ~calls[c].interrupted /\ CallSteps(c, "completed", calls[c].run, calls[c].stream)
      BY <2>17, CompleteDoes
    <3> QED
      BY <1>b, <2>17, <3>1
  <2> QED
    BY <1>3, <2>1, <2>2, <2>3, <2>4, <2>5, <2>6, <2>7, <2>8, <2>9, <2>10,
       <2>11, <2>12, <2>13, <2>14, <2>15, <2>16, <2>17 DEF Execute
<1>4. ASSUME NEW c \in Cs, Interrupt(c) PROVE QuietCalls
  <2>1. CASE InterruptPublishing(c) \/ InterruptWaiting(c)
    <3>1. CallSteps(c, "dropped", calls[c].run, calls[c].stream)
      BY <2>1, InterruptQuietDoes
    <3> QED
      BY <1>c, <1>4, <3>1
  <2>2. CASE InterruptEvicting(c)
    <3>1. CallSteps(c, "dropped", calls[c].run, calls[c].stream)
      BY <2>2, InterruptEvictingDoes
    <3> QED
      BY <1>c, <1>4, <3>1
  <2>3. CASE SwallowCancel(c)
    <3>1. CallSteps(c, "evicting", calls[c].run, calls[c].stream)
      BY <2>3, SwallowCancelDoes
    <3> QED
      BY <1>c, <1>4, <3>1
  <2>4. CASE InterruptPump(c)
    <3>1. CallSteps(c, "dropped", calls[c].run, calls[c].stream)
      BY <2>4, InterruptPumpDoes
    <3> QED
      BY <1>c, <1>4, <3>1
  <2> QED
    BY <1>4, <2>1, <2>2, <2>3, <2>4 DEF Interrupt
<1>5. ASSUME NEW r \in Runs, Run(r) PROVE QuietCalls
  <2>1. CASE Begin(r) \/ Register(r) \/ Speak(r) \/ Return(r) \/ Fail(r)
    BY <2>1, RunnerDoes, <1>a
  <2>2. ASSUME NEW q \in Requests, AskPermission(r, q) PROVE QuietCalls
    BY <2>2, AskPermissionDoes, <1>a
  <2> QED
    BY <1>5, <2>1, <2>2 DEF Run
<1>6. ASSUME NEW r \in Runs, KeepClosing(r) PROVE QuietCalls
  BY <1>6, KeepClosingDoes, <1>a
<1>7. CASE UNCHANGED vars
  BY <1>7, <1>a DEF vars
<1> QED
  BY <1>1, <1>2, <1>3, <1>4, <1>5, <1>6, <1>7 DEF Next, Cs

\* What happens to the queue and the endings of a task.
EndingGoes(t) ==
  \/ Cancel(t)
  \/ /\ tasks'[t].cancelled = tasks[t].cancelled
     /\ tasks'[t].endings >= tasks[t].endings
     /\ \/ tasks'[t].open = tasks[t].open
        \/ \E c \in Cs : calls[c].task = t /\ calls[c].interrupted /\ Interrupt(c)
EndingsGo == \A t \in Tasks : EndingGoes(t)

\* The endings are counted.
LEMMA EndingsAre ==
  ASSUME BaseInv
  PROVE  \A t \in Tasks : tasks[t].endings \in Nat /\ tasks[t].endings >= tasks[t].endings
  BY DEF BaseInv, TypeInv, TaskInfo

\* Every step treats queues and endings that way.
LEMMA EndingsGoStep ==
  ASSUME BaseInv, [Next]_vars
  PROVE  EndingsGo
<1>a. ASSUME tasks' = tasks PROVE EndingsGo
  BY <1>a, EndingsAre DEF EndingsGo, EndingGoes
<1>b. ASSUME NEW t \in Tasks, NEW state \in {"working", "failed", "completed"},
             TaskSteps(t, Published(tasks[t], state))
      PROVE  EndingsGo
  <2>1. tasks[t] \in TaskInfo /\ state \in States
    BY Facts, StatesAre
  <2>2. /\ tasks'[t].cancelled = tasks[t].cancelled /\ tasks'[t].open = tasks[t].open
        /\ tasks'[t].endings >= tasks[t].endings
    BY <1>b, <2>1, PublishedIs DEF TaskSteps
  <2>3. \A u \in Tasks : u # t => tasks'[u] = tasks[u]
    BY <1>b DEF TaskSteps
  <2> QED
    BY <2>2, <2>3, EndingsAre DEF EndingsGo, EndingGoes
<1>c. ASSUME NEW t \in Tasks, NEW q \in Requests \cup {NoRequest}, TaskSteps(t, Asked(tasks[t], q))
      PROVE  EndingsGo
  BY <1>c, AskSteps, EndingsAre DEF EndingsGo, EndingGoes
<1>d. ASSUME NEW c \in Cs, calls[c].interrupted, Interrupt(c),
             TaskSteps(calls[c].task, tasks'[calls[c].task]),
             tasks'[calls[c].task].cancelled = tasks[calls[c].task].cancelled,
             tasks'[calls[c].task].endings >= tasks[calls[c].task].endings
      PROVE  EndingsGo
  <2>1. \A u \in Tasks : u # calls[c].task => tasks'[u] = tasks[u]
    BY <1>d DEF TaskSteps
  <2> QED
    BY <1>d, <2>1, EndingsAre DEF EndingsGo, EndingGoes
<1>1. ASSUME NEW t \in Tasks, Deliver(t) PROVE EndingsGo
  BY <1>1, DeliverDoes, <1>a
<1>2. ASSUME NEW t \in Tasks, Cancel(t) PROVE EndingsGo
  <2>1. \A u \in Tasks : u # t => tasks'[u] = tasks[u]
    BY <1>2, CancelDoes DEF TaskSteps
  <2> QED
    BY <1>2, <2>1, EndingsAre DEF EndingsGo, EndingGoes
<1>3. ASSUME NEW c \in Cs, Execute(c) PROVE EndingsGo
  <2>1. CASE Greet(c) \/ GetLock(c) \/ Evict(c) \/ AwaitVictim(c) \/
     Admit(c) \/ Raise(c) \/ Accept(c) \/ PumpPrompt(c) \/ PumpEnd(c)
    BY <2>1, GreetDoes, GetLockDoes, EvictDoes, AwaitVictimDoes,
       AdmitDoes, RaiseDoes, AcceptDoes, PumpPromptDoes, PumpEndDoes, <1>a
  <2>2. CASE Acquire(c)
    <3>1. TaskSteps(calls[c].task, Published(tasks[calls[c].task], "working")) /\ calls[c].task \in Tasks
      BY <2>2, AcquireDoes, Facts
    <3>2. "working" \in {"working", "failed", "completed"}
      OBVIOUS
    <3> QED
      BY <1>b, <3>1, <3>2
  <2>3. CASE Settle(c)
    <3>1. TaskSteps(calls[c].task, Published(tasks[calls[c].task], "working")) /\ calls[c].task \in Tasks
      BY <2>3, SettleDoes, Facts
    <3>2. "working" \in {"working", "failed", "completed"}
      OBVIOUS
    <3> QED
      BY <1>b, <3>1, <3>2
  <2>4. CASE PumpOutput(c)
    <3>1. TaskSteps(calls[c].task, Published(tasks[calls[c].task], "working")) /\ calls[c].task \in Tasks
      BY <2>4, PumpOutputDoes, Facts
    <3>2. "working" \in {"working", "failed", "completed"}
      OBVIOUS
    <3> QED
      BY <1>b, <3>1, <3>2
  <2>5. CASE PumpFailure(c)
    <3>1. TaskSteps(calls[c].task, Published(tasks[calls[c].task], "failed")) /\ calls[c].task \in Tasks
      BY <2>5, PumpFailureDoes, Facts
    <3>2. "failed" \in {"working", "failed", "completed"}
      OBVIOUS
    <3> QED
      BY <1>b, <3>1, <3>2
  <2>6. CASE PumpEvicted(c)
    <3>1. TaskSteps(calls[c].task, Published(tasks[calls[c].task], "failed")) /\ calls[c].task \in Tasks
      BY <2>6, PumpEvictedDoes, Facts
    <3>2. "failed" \in {"working", "failed", "completed"}
      OBVIOUS
    <3> QED
      BY <1>b, <3>1, <3>2
  <2>7. CASE Complete(c)
    <3>1. TaskSteps(calls[c].task, Published(tasks[calls[c].task], "completed")) /\ calls[c].task \in Tasks
      BY <2>7, CompleteDoes, Facts
    <3>2. "completed" \in {"working", "failed", "completed"}
      OBVIOUS
    <3> QED
      BY <1>b, <3>1, <3>2
  <2>8. CASE Refuse(c)
    <3>1. TaskSteps(calls[c].task, Asked(tasks[calls[c].task], streams[streamOf[calls[c].task]].asked)) /\ calls[c].task \in Tasks
      BY <2>8, RefuseDoes, Facts
    <3>2. streams[streamOf[calls[c].task]].asked \in Requests \cup {NoRequest}
      BY <2>8, RefuseDoes, Facts
    <3> QED
      BY <1>c, <3>1, <3>2
  <2>9. CASE PumpPause(c)
    <3>1. TaskSteps(calls[c].task, Asked(tasks[calls[c].task], streams[calls[c].stream].asked)) /\ calls[c].task \in Tasks
      BY <2>9, PumpPauseDoes, Facts
    <3>2. streams[calls[c].stream].asked \in Requests \cup {NoRequest}
      BY <2>9, PumpPauseDoes, Facts
    <3> QED
      BY <1>c, <3>1, <3>2
  <2> QED
    BY <1>3, <2>1, <2>2, <2>3, <2>4, <2>5, <2>6, <2>7, <2>8, <2>9 DEF
       Execute
<1>4. ASSUME NEW c \in Cs, Interrupt(c) PROVE EndingsGo
  <2>1. CASE InterruptPublishing(c) \/ InterruptWaiting(c)
    <3>1. calls[c].interrupted
      BY <2>1, InterruptQuietDoes
    <3>2. /\ TaskSteps(calls[c].task, tasks'[calls[c].task])
          /\ tasks'[calls[c].task].cancelled = tasks[calls[c].task].cancelled
          /\ tasks'[calls[c].task].endings >= tasks[calls[c].task].endings
      BY <2>1, InterruptQuietDoes, QueueClosesIs, Facts, EndingsAre
    <3> QED
      BY <1>d, <1>4, <3>1, <3>2
  <2>2. CASE InterruptEvicting(c)
    <3>1. calls[c].interrupted
      BY <2>2, InterruptEvictingDoes
    <3>2. /\ TaskSteps(calls[c].task, tasks'[calls[c].task])
          /\ tasks'[calls[c].task].cancelled = tasks[calls[c].task].cancelled
          /\ tasks'[calls[c].task].endings >= tasks[calls[c].task].endings
      BY <2>2, InterruptEvictingDoes, Facts, EndingsAre DEF TaskSteps, TaskInfo
    <3> QED
      BY <1>d, <1>4, <3>1, <3>2
  <2>3. CASE SwallowCancel(c)
    BY <2>3, SwallowCancelDoes, <1>a
  <2>4. CASE InterruptPump(c)
    <3>1. calls[c].interrupted
      BY <2>4, InterruptPumpDoes
    <3>2. /\ TaskSteps(calls[c].task, tasks'[calls[c].task])
          /\ tasks'[calls[c].task].cancelled = tasks[calls[c].task].cancelled
          /\ tasks'[calls[c].task].endings >= tasks[calls[c].task].endings
      BY <2>4, InterruptPumpDoes
    <3> QED
      BY <1>d, <1>4, <3>1, <3>2
  <2> QED
    BY <1>4, <2>1, <2>2, <2>3, <2>4 DEF Interrupt
<1>5. ASSUME NEW r \in Runs, Run(r) PROVE EndingsGo
  <2>1. CASE Begin(r) \/ Register(r) \/ Speak(r) \/ Return(r) \/ Fail(r)
    BY <2>1, RunnerDoes, <1>a
  <2>2. ASSUME NEW q \in Requests, AskPermission(r, q) PROVE EndingsGo
    BY <2>2, AskPermissionDoes, <1>a
  <2> QED
    BY <1>5, <2>1, <2>2 DEF Run
<1>6. ASSUME NEW r \in Runs, KeepClosing(r) PROVE EndingsGo
  BY <1>6, KeepClosingDoes, <1>a
<1>7. CASE UNCHANGED vars
  BY <1>7, <1>a DEF vars
<1> QED
  BY <1>1, <1>2, <1>3, <1>4, <1>5, <1>6, <1>7 DEF Next, Cs

\* Only a run in the table is evicted.
EvictedGo == \A r \in evicted' : r \in evicted \/ \E t : Has(live, t, r)

\* Every step evicts that way.
LEMMA EvictedGoStep ==
  ASSUME BaseInv, [Next]_vars
  PROVE  EvictedGo
<1>a. ASSUME evicted' = evicted PROVE EvictedGo
  BY <1>a DEF EvictedGo
<1>1. ASSUME NEW t \in Tasks, Deliver(t) PROVE EvictedGo
  BY <1>1, DeliverDoes, <1>a
<1>2. ASSUME NEW t \in Tasks, Cancel(t) PROVE EvictedGo
  BY <1>2, CancelDoes, <1>a
<1>3. ASSUME NEW c \in Cs, Execute(c) PROVE EvictedGo
  <2>1. CASE Greet(c) \/ Acquire(c) \/ GetLock(c) \/ AwaitVictim(c) \/
     Admit(c) \/ Raise(c) \/ Refuse(c) \/ Accept(c) \/ Settle(c) \/
     PumpOutput(c) \/ PumpPrompt(c) \/ PumpPause(c) \/ PumpFailure(c) \/
     PumpEvicted(c) \/ PumpEnd(c) \/ Complete(c)
    BY <2>1, GreetDoes, AcquireDoes, GetLockDoes, AwaitVictimDoes,
       AdmitDoes, RaiseDoes, RefuseDoes, AcceptDoes, SettleDoes,
       PumpOutputDoes, PumpPromptDoes, PumpPauseDoes, PumpFailureDoes,
       PumpEvictedDoes, PumpEndDoes, CompleteDoes, <1>a
  <2>2. CASE Evict(c)
    BY <2>2, EvictDoes DEF EvictedGo
  <2> QED
    BY <1>3, <2>1, <2>2 DEF Execute
<1>4. ASSUME NEW c \in Cs, Interrupt(c) PROVE EvictedGo
  <2>1. CASE InterruptPublishing(c) \/ InterruptWaiting(c) \/
     InterruptEvicting(c) \/ SwallowCancel(c) \/ InterruptPump(c)
    BY <2>1, InterruptQuietDoes, InterruptEvictingDoes, SwallowCancelDoes,
       InterruptPumpDoes, <1>a
  <2> QED
    BY <1>4, <2>1 DEF Interrupt
<1>5. ASSUME NEW r \in Runs, Run(r) PROVE EvictedGo
  <2>1. CASE Begin(r) \/ Register(r) \/ Speak(r) \/ Return(r) \/ Fail(r)
    BY <2>1, RunnerDoes, <1>a
  <2>2. ASSUME NEW q \in Requests, AskPermission(r, q) PROVE EvictedGo
    BY <2>2, AskPermissionDoes, <1>a
  <2> QED
    BY <1>5, <2>1, <2>2 DEF Run
<1>6. ASSUME NEW r \in Runs, KeepClosing(r) PROVE EvictedGo
  BY <1>6, KeepClosingDoes, <1>a
<1>7. CASE UNCHANGED vars
  BY <1>7, <1>a DEF vars
<1> QED
  BY <1>1, <1>2, <1>3, <1>4, <1>5, <1>6, <1>7 DEF Next, Cs

\* A call that publishes last chunks has the loop, and no eviction falls
\* there.
LEMMA LastChunksStep ==
  ASSUME BaseInv, InterruptedInv, LastChunksInv, ~Backpressure, [Next]_vars
  PROVE  LastChunksInv'
<1> SUFFICES ASSUME NEW c \in 1..Len(calls'), calls'[c].pc = "closing"
             PROVE  loop' = c /\ calls'[c].run \notin evicted'
  BY DEF LastChunksInv, Cs
<1>1. c \in Cs
  BY CallsAfter
<1>2. CASE PumpEnd(c)
  <2>1. calls[c].run \notin evicted /\ evicted' = evicted /\ calls'[c].run = calls[c].run
    BY <1>1, <1>2, PumpEndDoes DEF CallSteps
  <2>2. loop' = c
    BY <1>2 DEF PumpEnd, LoopAfterPublishing
  <2> QED
    BY <2>1, <2>2
<1>3. CASE calls[c].pc = "closing"
  <2>1. loop = c /\ calls[c].run \notin evicted
    BY <1>1, <1>3 DEF LastChunksInv
  <2>2. CASE Complete(c)
    BY <1>1, <2>2, CompleteDoes DEF CallSteps
  <2>3. CASE UNCHANGED vars
    BY <2>1, <2>3 DEF vars
  <2> QED
    BY <1>1, <1>3, <2>1, <2>2, <2>3, KeepsTheLoop
<1> QED
  BY <1>1, <1>2, <1>3, QuietCallsStep DEF QuietCalls, QuietCall

\* A call that is over stays as it was.
LEMMA EndedKeepsRun ==
  ASSUME BaseInv, [Next]_vars, NEW e \in Cs, calls[e].pc = "completed"
  PROVE  calls'[e].run = calls[e].run
<1>a. ASSUME \A d \in Cs : calls'[d] = calls[d] PROVE calls'[e].run = calls[e].run
  BY <1>a
<1>b. ASSUME NEW c \in Cs, NEW pc, NEW run, NEW stream, CallSteps(c, pc, run, stream),
             calls[c].pc # "completed" \/ run = calls[c].run
      PROVE  calls'[e].run = calls[e].run
  BY <1>b DEF CallSteps
<1>1. ASSUME NEW t \in Tasks, Deliver(t) PROVE calls'[e].run = calls[e].run
  BY <1>1, DeliverDoes, <1>a
<1>2. ASSUME NEW t \in Tasks, Cancel(t) PROVE calls'[e].run = calls[e].run
  BY <1>2, CancelDoes DEF CallsOfCancelled
<1>3. ASSUME NEW c \in Cs, Execute(c) PROVE calls'[e].run = calls[e].run
  <2>1. CASE Greet(c)
    BY <2>1, GreetDoes, <1>b
  <2>2. CASE Acquire(c)
    BY <2>2, AcquireDoes, <1>b
  <2>3. CASE GetLock(c)
    BY <2>3, GetLockDoes, <1>b
  <2>4. CASE Evict(c)
    BY <2>4, EvictDoes, <1>b
  <2>5. CASE AwaitVictim(c)
    BY <2>5, AwaitVictimDoes, <1>b
  <2>6. CASE Admit(c)
    BY <2>6, AdmitDoes, <1>b
  <2>7. CASE Raise(c)
    BY <2>7, RaiseDoes, <1>b
  <2>8. CASE Refuse(c)
    BY <2>8, RefuseDoes, <1>b
  <2>9. CASE Accept(c)
    BY <2>9, AcceptDoes, <1>b
  <2>10. CASE Settle(c)
    BY <2>10, SettleDoes, <1>b
  <2>11. CASE PumpPrompt(c)
    BY <2>11, PumpPromptDoes, <1>b
  <2>12. CASE PumpPause(c)
    BY <2>12, PumpPauseDoes, <1>b
  <2>13. CASE PumpFailure(c)
    BY <2>13, PumpFailureDoes, <1>b
  <2>14. CASE PumpEvicted(c)
    BY <2>14, PumpEvictedDoes, <1>b
  <2>15. CASE PumpEnd(c)
    BY <2>15, PumpEndDoes, <1>b
  <2>16. CASE Complete(c)
    BY <2>16, CompleteDoes, <1>b
  <2>17. CASE PumpOutput(c)
    BY <2>17, PumpOutputDoes, <1>a
  <2> QED
    BY <1>3, <2>1, <2>2, <2>3, <2>4, <2>5, <2>6, <2>7, <2>8, <2>9, <2>10,
       <2>11, <2>12, <2>13, <2>14, <2>15, <2>16, <2>17 DEF Execute
<1>4. ASSUME NEW c \in Cs, Interrupt(c) PROVE calls'[e].run = calls[e].run
  <2>1. CASE InterruptPublishing(c)
    BY <2>1, InterruptQuietDoes, <1>b
  <2>2. CASE InterruptWaiting(c)
    BY <2>2, InterruptQuietDoes, <1>b
  <2>3. CASE InterruptEvicting(c)
    BY <2>3, InterruptEvictingDoes, <1>b
  <2>4. CASE SwallowCancel(c)
    BY <2>4, SwallowCancelDoes, <1>b
  <2>5. CASE InterruptPump(c)
    BY <2>5, InterruptPumpDoes, <1>b
  <2> QED
    BY <1>4, <2>1, <2>2, <2>3, <2>4, <2>5 DEF Interrupt
<1>5. ASSUME NEW r \in Runs, Run(r) PROVE calls'[e].run = calls[e].run
  <2>1. CASE Begin(r) \/ Register(r) \/ Speak(r) \/ Return(r) \/ Fail(r)
    BY <2>1, RunnerDoes, <1>a
  <2>2. ASSUME NEW q \in Requests, AskPermission(r, q) PROVE calls'[e].run = calls[e].run
    BY <2>2, AskPermissionDoes, <1>a
  <2> QED
    BY <1>5, <2>1, <2>2 DEF Run
<1>6. ASSUME NEW r \in Runs, KeepClosing(r) PROVE calls'[e].run = calls[e].run
  BY <1>6, KeepClosingDoes, <1>a
<1>7. CASE UNCHANGED vars
  BY <1>7, <1>a DEF vars
<1> QED
  BY <1>1, <1>2, <1>3, <1>4, <1>5, <1>6, <1>7 DEF Next, Cs

\* What completed is out of the table, where no eviction finds it.
LEMMA CompletedStep ==
  ASSUME Ground, LastChunksInv, CompletedInv, [Next]_vars
  PROVE  CompletedInv'
<1> SUFFICES ASSUME NEW c \in 1..Len(calls'), calls'[c].pc = "completed"
             PROVE  calls'[c].run \notin evicted' /\ \A t : ~Has(live', t, calls'[c].run)
  BY DEF CompletedInv, Cs
<1>0. BaseInv /\ RunsInv
  BY DEF Ground
<1>1. c \in Cs
  BY <1>0, CallsAfter
<1>2. CASE Complete(c)
  <2> DEFINE r == calls[c].run
  <2>1. /\ calls[c].pc = "closing" /\ calls'[c].run = r /\ evicted' = evicted
        /\ LiveDrops(calls[c].task)
    BY <1>0, <1>1, <1>2, CompleteDoes DEF CallSteps
  <2>2. r \notin evicted
    BY <1>1, <2>1 DEF LastChunksInv
  <2>3. ASSUME NEW t, Has(live', t, r) PROVE FALSE
    <3>1. Has(live, t, r) /\ t # calls[c].task
      BY <2>1, <2>3 DEF LiveDrops
    <3> QED
      BY <1>0, <1>1, <3>1 DEF RunsInv, LiveInv
  <2> QED
    BY <2>1, <2>2, <2>3
<1>3. CASE calls[c].pc = "completed"
  <2> DEFINE r == calls'[c].run
  <2>1. calls[c].run \notin evicted /\ \A t : ~Has(live, t, calls[c].run)
    BY <1>1, <1>3 DEF CompletedInv
  <2>2. r = calls[c].run
    BY <1>0, <1>1, <1>3, EndedKeepsRun
  <2>3. r \notin evicted'
    BY <1>0, <2>1, <2>2, EvictedGoStep DEF EvictedGo
  <2>4. ASSUME NEW t, Has(live', t, r) PROVE FALSE
    <3>1. r # Len(sessions) + 1
      BY <1>0, <1>1, <2>2, Facts DEF BaseInv, RangeInv, CallsInRange
    <3>2. Has(live, t, r)
      BY <1>0, <2>4, <3>1, LiveAfter DEF Kept
    <3> QED
      BY <2>1, <2>2, <3>2
  <2> QED
    BY <2>3, <2>4
<1> QED
  BY <1>0, <1>1, <1>2, <1>3, QuietCallsStep DEF QuietCalls, QuietCall, RunsInv

\* A cancelled task was told its end, or its pump is about to.
LEMMA ToldStep ==
  ASSUME Ground, WorkInv, OpenInv, LastChunksInv, ToldInv, [Next]_vars
  PROVE  ToldInv'
<1> SUFFICES ASSUME NEW t \in Tasks, tasks'[t].cancelled
             PROVE  \/ tasks'[t].endings > 0
                    \/ /\ tasks'[t].open
                       /\ \E c \in 1..Len(calls') : /\ calls'[c].task = t /\ calls'[c].interrupted
                                                    /\ calls'[c].pc \in {"draining", "publishing"}
  BY DEF ToldInv, ToBeTold, Cs
<1>0. /\ BaseInv /\ RunsInv /\ InterruptedInv /\ LiveInv /\ ParkedInv /\ SerialInv
      /\ \A c \in Cs : c \in 1..Len(calls') /\ calls'[c].task = calls[c].task
      /\ tasks[t].endings \in Nat /\ tasks'[t].endings \in Nat
  <2>1. BaseInv /\ RunsInv /\ InterruptedInv /\ LiveInv /\ ParkedInv /\ SerialInv
    BY DEF Ground, RunsInv, WorkInv
  <2>2. \A c \in Cs : c \in 1..Len(calls') /\ calls'[c].task = calls[c].task
    BY <2>1, CallsGoOnStep, NothingIsLost, Facts DEF CallsGoOn, NoneLost, Cs
  <2>3. tasks \in [Tasks -> TaskInfo] /\ tasks' \in [Tasks -> TaskInfo]
    BY <2>1, TypeStep DEF BaseInv, TypeInv
  <2>4. tasks[t].endings \in Nat /\ tasks'[t].endings \in Nat
    BY <2>3 DEF TaskInfo
  <2> QED
    BY <2>1, <2>2, <2>4
<1>1. CASE Cancel(t)
  <2>1. /\ t \in Cancels /\ loop = Nobody /\ ~tasks[t].cancelled
        /\ CallsOfCancelled(t)
        /\ tasks'[t].open <=> \E c \in Cs : InProgress(c, t)
        /\ tasks[t].open => \/ tasks'[t].endings > 0
                            \/ \E r \in Runs : Has(live, t, r) /\ ~IsParked(sessions[r])
    BY <1>0, <1>1, CancelDoes
  <2>2. tasks[t].open /\ t \in InTurn
    BY <2>1, ExecutorAssumption DEF OpenInv, InTurn
  <2>3. ASSUME NEW r \in Runs, Has(live, t, r), ~IsParked(sessions[r])
        PROVE  \E c \in Cs : InProgress(c, t) /\ calls[c].pc \in {"draining", "publishing"}
    <3>1. PICK c \in Cs : Pumps(c, r)
      BY <1>0, <2>2, <2>3 DEF ParkedInv
    <3>2. calls[c].task = t
      BY <1>0, <2>3, <3>1 DEF LiveInv, Pumps
    <3>3. calls[c].pc # "closing"
      BY <2>1 DEF LastChunksInv, Cs, Nobody
    <3> QED
      BY <3>1, <3>2, <3>3 DEF Pumps, InProgress, Unfinished
  <2>4. ASSUME NEW c \in Cs, InProgress(c, t), calls[c].pc \in {"draining", "publishing"}
        PROVE  /\ calls'[c].task = t /\ calls'[c].interrupted
               /\ calls'[c].pc \in {"draining", "publishing"}
    BY <2>1, <2>4 DEF CallsOfCancelled, InProgress
  <2> QED
    BY <1>0, <2>1, <2>2, <2>3, <2>4
<1>2. CASE tasks[t].cancelled /\ tasks[t].endings > 0 /\ tasks'[t].endings >= tasks[t].endings
  BY <1>0, <1>2
<1>3. ASSUME NEW c \in Cs, calls[c].task = t, calls[c].interrupted,
             calls[c].pc \in {"draining", "publishing"}, tasks[t].open,
             \/ tasks'[t].open = tasks[t].open
             \/ \E d \in Cs : calls[d].task = t /\ calls[d].interrupted /\ Interrupt(d)
      PROVE  \/ tasks'[t].endings > 0
             \/ /\ tasks'[t].open /\ calls'[c].task = t /\ calls'[c].interrupted
                /\ calls'[c].pc \in {"draining", "publishing"}
  <2>1. CASE Interrupt(c)
    <3>1. CASE InterruptPump(c)
      BY <1>0, <1>3, <3>1, InterruptPumpDoes
    <3>2. CASE InterruptPublishing(c) \/ InterruptWaiting(c)
      BY <1>0, <1>3, <3>2, InterruptQuietDoes
    <3>3. CASE InterruptEvicting(c) \/ SwallowCancel(c)
      BY <1>0, <1>3, <3>3, InterruptEvictingDoes, SwallowCancelDoes
    <3> QED
      BY <2>1, <3>1, <3>2, <3>3 DEF Interrupt
  <2>2. CASE ~Interrupt(c)
    <3>1. calls'[c].interrupted /\ calls'[c].pc = calls[c].pc
      BY <1>0, <1>3, <2>2, QuietCallsStep DEF QuietCalls, QuietCall
    <3>2. ASSUME NEW d \in Cs, calls[d].task = t, calls[d].interrupted PROVE d = c
      <4>1. t \in InTurn
        BY <1>0, <1>3, ExecutorAssumption DEF InterruptedInv, InTurn
      <4> QED
        BY <1>0, <1>3, <3>2, <4>1, Alone DEF InterruptedInv
    <3>3. tasks'[t].open
      BY <1>3, <2>2, <3>2
    <3> QED
      BY <1>0, <1>3, <3>1, <3>3
  <2> QED
    BY <2>1, <2>2
<1>4. EndingGoes(t)
  BY <1>0, EndingsGoStep DEF EndingsGo
<1>5. CASE ~Cancel(t)
  <2>1. /\ tasks[t].cancelled
        /\ tasks'[t].endings >= tasks[t].endings
        /\ \/ tasks'[t].open = tasks[t].open
           \/ \E c \in Cs : calls[c].task = t /\ calls[c].interrupted /\ Interrupt(c)
    BY <1>4, <1>5 DEF EndingGoes
  <2>2. tasks[t].endings > 0 \/ ToBeTold(t)
    BY <2>1 DEF ToldInv
  <2> QED
    BY <1>0, <1>2, <1>3, <2>1, <2>2 DEF ToBeTold
<1> QED
  BY <1>1, <1>5

\* The invariant of the quiet queues is inductive.
LEMMA QuietStep ==
  ASSUME Ground, WorkInv, OpenInv, QuietInv, ~Backpressure, [Next]_vars
  PROVE  QuietInv'
<1>1. BaseInv /\ InterruptedInv /\ LastChunksInv /\ CompletedInv /\ ToldInv
  BY DEF Ground, RunsInv, QuietInv
<1> QED
  BY <1>1, LastChunksStep, CompletedStep, ToldStep DEF QuietInv

(***************************************************************************)
(* The invariant as a whole, and what follows from it.                     *)
(***************************************************************************)
\* The invariant as a whole.
ExecutorInv == Ground /\ WorkInv /\ SettledInv /\ TasksInv /\ HeldInv

\* As the server starts there is no call, no run and no stream,
LEMMA InitIsQuiet ==
  ASSUME Init
  PROVE  /\ Cs = {} /\ Runs = {} /\ 1..Len(streams) = {}
         /\ \A t, r : ~Has(live, t, r)
         /\ \A q \in Requests : settled[q] = None
         /\ \A t \in Tasks : /\ tasks[t].open /\ ~tasks[t].cancelled
                             /\ tasks[t].status = "none" /\ tasks[t].endings = 0
                             /\ Idle(t)
         /\ \A t \in Tasks : streamOf[t] = None
  BY DEF Init, Cs, Runs, Has, Idle

\* and the invariant holds.
LEMMA InitIsInv == Init => ExecutorInv /\ QuietInv
<1> SUFFICES ASSUME Init PROVE ExecutorInv /\ QuietInv
  OBVIOUS
<1>0. /\ Cs = {} /\ Runs = {} /\ 1..Len(streams) = {}
      /\ \A t, r : ~Has(live, t, r)
  BY InitIsQuiet
<1>1. RunsInv /\ SerialInv
  BY <1>0 DEF RunsInv, InterruptedInv, StartedInv, LiveInv, SerialInv
<1>2. StreamInv /\ SessInv /\ PumpInv
  BY <1>0 DEF StreamInv, SessInv, AskedInv, QueueInv, ClosingInv, PumpInv
<1>3. WorkInv
  BY <1>0 DEF WorkInv, EnteringInv, AttendingInv, ParkedInv
<1>4. SettledInv
  BY <1>0, InitIsQuiet DEF SettledInv, EchoInv, AnsweringInv, SettlerInv, OnceInv
<1>5. TasksInv
  BY InitIsQuiet DEF TasksInv, OpenInv, EndedInv, InputInv, InTurn, Final
<1>6. HeldInv /\ QuietInv
  BY <1>0, InitIsQuiet DEF HeldInv, QuietInv, LastChunksInv, CompletedInv, ToldInv
<1> QED
  BY <1>1, <1>2, <1>3, <1>4, <1>5, <1>6, InitIsBase DEF ExecutorInv, Ground

\* And every step keeps it.
LEMMA ExecutorStep == ExecutorInv /\ [Next]_vars => ExecutorInv'
<1> SUFFICES ASSUME ExecutorInv, [Next]_vars PROVE ExecutorInv'
  OBVIOUS
<1>0. /\ Ground /\ WorkInv /\ SettledInv /\ TasksInv /\ HeldInv
      /\ BaseInv /\ RunsInv /\ SerialInv /\ StreamInv /\ SessInv /\ PumpInv
  BY DEF ExecutorInv, Ground
<1>1. BaseInv' /\ RunsInv' /\ SerialInv'
  BY <1>0, BaseStep, RunsStep, SerialStep
<1>2. StreamInv' /\ SessInv' /\ PumpInv'
  BY <1>0, StreamStep, SessStep, PumpStep
<1>3. WorkInv' /\ SettledInv'
  BY <1>0, WorkStep, SettledStep
<1>4. TasksInv' /\ HeldInv'
  BY <1>0, TasksStep, HeldStep
<1> QED
  BY <1>1, <1>2, <1>3, <1>4 DEF ExecutorInv, Ground

\* So it always holds.
LEMMA ExecutorHolds == Spec => []ExecutorInv
<1>1. Init => ExecutorInv
  BY InitIsInv
<1> QED
  BY <1>1, ExecutorStep, PTL DEF Spec

\* An entry of the table, as the properties name it.
LEMMA LiveIs ==
  ASSUME BaseInv, NEW i \in 1..Len(live)
  PROVE  Has(live, live[i].task, live[i].run)
  BY DEF Has

\* No session is ever pumped by two calls, not even by calls that overlap:
\* the is_parked guard and the lock keep the second out.
THEOREM OneConsumerHolds == Spec => []OneConsumer
<1>1. ExecutorInv => OneConsumer
  BY DEF ExecutorInv, Ground, PumpInv, OneConsumer, Cs
<1> QED
  BY <1>1, ExecutorHolds, PTL

\* In turn, every session in the table is parked or has a call pumping it,
\* which is what cancel relies on when it leaves the final state to "a _pump
\* there to emit it".
THEOREM LiveIsAttendedHolds == Spec => []LiveIsAttended
<1>1. ExecutorInv => LiveIsAttended
  <2> SUFFICES ASSUME ExecutorInv, NEW i \in 1..Len(live), live[i].task \in InTurn
               PROVE  IsParked(sessions[live[i].run]) \/ \E c \in Cs : Pumps(c, live[i].run)
    BY DEF LiveIsAttended, Cs
  <2>1. BaseInv /\ ParkedInv
    BY DEF ExecutorInv, Ground, WorkInv
  <2> QED
    BY <2>1, LiveIs DEF ParkedInv
<1> QED
  BY <1>1, ExecutorHolds, PTL

\* Nothing drops a session without seeing to its runner, through evictions,
\* cancels and failures, abandoned closes and overlapping tasks excepted.
THEOREM RunsAreHeldHolds == Spec => []RunsAreHeld
<1>1. ExecutorInv => RunsAreHeld
  <2> SUFFICES ASSUME ExecutorInv, NEW r \in Runs, Alive(sessions[r]), ~IsLive(r)
               PROVE  \/ \E c \in Cs : calls[c].run = r /\ calls[c].task \in Overlapping
                      \/ sessions[r].runner = "cancelling"
                      \/ sessions[r].closer \in {"asking", "winding", "joining", "abandoned"}
    BY DEF RunsAreHeld, Cs
  <2>1. \A t : ~Has(live, t, r)
    BY DEF IsLive, Has
  <2> QED
    BY <2>1 DEF ExecutorInv, HeldInv, Leaving
<1> QED
  BY <1>1, ExecutorHolds, PTL

\* In turn, an answer that names a request settles that request or none,
\* though it is checked before `working` is published and applied after.
THEOREM EchoIsHonoured == Spec => []EchoHonoured
<1>1. ExecutorInv => EchoHonoured
  <2> SUFFICES ASSUME ExecutorInv, NEW q \in Requests, settled[q] # None,
                      calls[settled[q]].echo # NoRequest, calls[settled[q]].task \in InTurn
               PROVE  calls[settled[q]].echo = q
    BY DEF EchoHonoured
  <2>1. SettlerInv /\ BaseInv
    BY DEF ExecutorInv, SettledInv, Ground
  <2>2. settled[q] \in Cs
    BY <2>1, Facts DEF BaseInv, RangeInv, HistoryInRange, Cs, None
  <2> QED
    BY <2>1, <2>2 DEF SettlerInv
<1> QED
  BY <1>1, ExecutorHolds, PTL

\* In turn, a message settles one prompt of a run however often it arrives.
THEOREM OneMessageOnePromptHolds == Spec => []OneMessageOnePrompt
<1>1. ExecutorInv => OneMessageOnePrompt
  <2> SUFFICES ASSUME ExecutorInv, NEW p \in Requests, NEW q \in Requests,
                      settled[p] # None, settled[q] # None, askedBy[p] = askedBy[q],
                      calls[settled[p]].task \in InTurn,
                      calls[settled[p]].message = calls[settled[q]].message
               PROVE  p = q
    BY DEF OneMessageOnePrompt
  <2>1. OnceInv /\ BaseInv
    BY DEF ExecutorInv, SettledInv, Ground
  <2>2. settled[p] \in Cs /\ settled[q] \in Cs
    BY <2>1, Facts DEF BaseInv, RangeInv, HistoryInRange, Cs, None
  <2> QED
    BY <2>1, <2>2 DEF OnceInv
<1> QED
  BY <1>1, ExecutorHolds, PTL

\* In turn, a task that waits for its caller has its session parked on the
\* prompt shown, or was evicted.
THEOREM InputStaysAnswerable == Spec => []InputIsAnswerable
<1>1. ExecutorInv => InputIsAnswerable
  <2> SUFFICES ASSUME ExecutorInv, NEW t \in InTurn, tasks[t].status = "input",
                      Idle(t), ~tasks[t].cancelled
               PROVE  \/ /\ LiveRun(t) # None
                         /\ IsParked(sessions[LiveRun(t)])
                         /\ sessions[LiveRun(t)].lastRequest = tasks[t].shown
                      \/ \E c \in Cs : calls[c].task = t /\ calls[c].run \in evicted
    BY DEF InputIsAnswerable, Cs
  <2>1. InputInv /\ BaseInv
    BY DEF ExecutorInv, TasksInv, Ground
  <2>2. \A r : Has(live, t, r) => LiveRun(t) = r /\ r # None
    BY <2>1, LiveRunIs DEF BaseInv, TypeInv
  <2>3. Answerable(t) \/ \E c \in Cs : calls[c].task = t /\ calls[c].run \in evicted
    BY <2>1 DEF InputInv
  <2> QED
    BY <2>2, <2>3 DEF Answerable
<1> QED
  BY <1>1, ExecutorHolds, PTL

\* In turn, a task that was not cancelled is told at most one end.
THEOREM OneEndingHolds == Spec => []OneEnding
<1>1. ExecutorInv => OneEnding
  <2> SUFFICES ASSUME ExecutorInv, NEW t \in InTurn, ~tasks[t].cancelled
               PROVE  tasks[t].endings <= 1
    BY DEF OneEnding
  <2>1. tasks[t].endings = IF tasks[t].status \in Final THEN 1 ELSE 0
    BY DEF ExecutorInv, TasksInv, EndedInv
  <2> QED
    BY <2>1
<1> QED
  BY <1>1, ExecutorHolds, PTL

\* In turn, the end a caller is told of a task it did not cancel is the last it
\* is told: nothing of the task changes any more.  The calls that were queued
\* behind the end, the close of the run and the chunks still held publish
\* nothing.  What FinalStays claims without that condition fails.
EndIsLast ==
  [][\A t \in InTurn : tasks[t].status \in Final /\ ~tasks'[t].cancelled
                         => tasks'[t] = tasks[t]]_vars

THEOREM EndIsLastHolds == Spec => EndIsLast
<1>1. ExecutorInv /\ [Next]_vars
        => [\A t \in InTurn : tasks[t].status \in Final /\ ~tasks'[t].cancelled
                                => tasks'[t] = tasks[t]]_vars
  <2> SUFFICES ASSUME ExecutorInv, [Next]_vars, NEW t \in InTurn,
                      tasks[t].status \in Final, ~tasks'[t].cancelled
               PROVE  tasks'[t] = tasks[t]
    OBVIOUS
  <2>1. BaseInv /\ InterruptedInv /\ OpenInv /\ EndedInv
    BY DEF ExecutorInv, Ground, RunsInv, TasksInv
  <2>2. t \in Tasks /\ ~tasks[t].cancelled
    BY <2>1, CancelledStep DEF CancelledStays, InTurn
  <2>3. Idle(t)
    BY <2>1, <2>2 DEF EndedInv
  <2>4. TaskGoes(t)
    BY <2>1, <2>2, TasksGoStep DEF TasksGo
  <2>5. ASSUME NEW c \in Cs PROVE ~Tells(c, t)
    BY <2>3 DEF Tells, Idle, InProgress, Cs
  <2>6. ASSUME NEW c \in Cs, calls[c].task = t PROVE ~Refuse(c)
    BY <2>6 DEF Refuse, Begins
  <2> QED
    BY <2>4, <2>5, <2>6 DEF TaskGoes, Untold
<1> QED
  BY <1>1, ExecutorHolds, PTL DEF Spec, EndIsLast

\* While no event queue is full, it always holds as well.
LEMMA QuietHolds ==
  ASSUME ~Backpressure
  PROVE  Spec => []QuietInv
<1>1. Init => ExecutorInv /\ QuietInv
  BY InitIsInv
<1>2. ExecutorInv /\ QuietInv /\ [Next]_vars => QuietInv'
  <2> SUFFICES ASSUME ExecutorInv, QuietInv, [Next]_vars PROVE QuietInv'
    OBVIOUS
  <2>1. Ground /\ WorkInv /\ OpenInv
    BY DEF ExecutorInv, TasksInv
  <2> QED
    BY <2>1, QuietStep
<1> QED
  BY <1>1, <1>2, ExecutorStep, PTL DEF Spec

\* While no event queue is full, no task completes on the output of an
\* evicted run: the test of session.evicted and the removal from the table
\* are one step.
THEOREM CompletedWasNotEvictedHolds ==
  ASSUME ~Backpressure
  PROVE  Spec => []CompletedWasNotEvicted
<1>1. QuietInv => CompletedWasNotEvicted
  BY DEF QuietInv, CompletedInv, CompletedWasNotEvicted, Cs
<1> QED
  BY <1>1, QuietHolds, PTL

\* While no event queue is full, a cancelled task with no call at work has
\* been told its end: by cancel, or by the pump it interrupted.
THEOREM CancelledIsToldHolds ==
  ASSUME ~Backpressure
  PROVE  Spec => []CancelledIsTold
<1>1. QuietInv => CancelledIsTold
  <2> SUFFICES ASSUME QuietInv, NEW t \in Tasks, tasks[t].cancelled, Idle(t)
               PROVE  tasks[t].endings > 0
    BY DEF CancelledIsTold
  <2>1. ASSUME NEW c \in Cs, calls[c].task = t, calls[c].pc \in {"draining", "publishing"}
        PROVE  FALSE
    BY <2>1 DEF Idle, InProgress, Unfinished, Cs
  <2> QED
    BY <2>1 DEF QuietInv, ToldInv, ToBeTold
<1> QED
  BY <1>1, QuietHolds, PTL
=============================================================================
