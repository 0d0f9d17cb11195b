------------------------------ MODULE Executor ------------------------------
(***************************************************************************)
(* ClaudeCodeExecutor (src/a2acode/executor.py): the calls of execute and  *)
(* cancel that the SDK makes for a set of tasks, the table of live         *)
(* sessions they share, its bound and the evictions that keep it, and the  *)
(* backend runs behind the sessions.                                       *)
(*                                                                         *)
(* asyncio is cooperative: a step is the code between two suspension       *)
(* points.  Publishing an event suspends only while the task's event queue *)
(* is full.  Those points are steps of their own here; unless Backpressure *)
(* is set the call keeps the event loop (variable loop) across them.       *)
(*                                                                         *)
(* External, modelled from how executor.py and its comments use it: the    *)
(* SDK delivers messages, runs the calls of one task one after the other   *)
(* (except for the tasks in Overlapping), and on tasks/cancel cancels the  *)
(* call in progress, closing its event queue once that has unwound.        *)
(***************************************************************************)
EXTENDS SessionState, FiniteSets

CONSTANTS Tasks,
          MaxLive,              \* _MAX_LIVE
          MaxCalls,             \* bound: messages delivered, resends included
          MaxOutput,            \* bound: outputs of one run
          Overlapping,          \* the tasks whose calls the SDK lets overlap
          Backpressure,         \* may a task's event queue be full?
          Cancels               \* bound: the tasks that may be cancelled

ASSUME ExecutorAssumption ==
  /\ MaxLive \in Nat \ {0}
  /\ MaxCalls \in Nat /\ MaxOutput \in Nat
  /\ Backpressure \in BOOLEAN
  /\ Cancels \subseteq Tasks /\ Overlapping \subseteq Tasks \ Cancels

Calls == 1..MaxCalls
Nobody == 0         \* no call holds the event loop
None   == 0         \* no session, no stream, no call

VARIABLES tasks,      \* what the SDK and the caller know of each task
          calls,      \* the calls of execute, in the order they arrived
          loop,       \* the call in the middle of a step, if any
          live,       \* _live: (task, run) pairs in insertion order
          streamOf,   \* _streams: the stream of each task, None when absent
          admission,  \* _admit_lock: its holder, then those waiting for it
          sessions,   \* the BackendSession of each run, in starting order
          streams,    \* the _Stream objects, in opening order
          evicted,    \* the runs whose session.evicted is set
          askedBy,    \* history: the run that asked each request
          settled     \* history: the call whose decision settled a request

vars == <<tasks, calls, loop, live, streamOf, admission, sessions, streams,
          evicted, askedBy, settled>>

Runs == 1..Len(sessions)

\* The task states this code publishes.
Final  == {"completed", "failed", "canceled"}
States == {"none", "working", "input"} \cup Final

\* status: the last state that reached the event queue; shown: the request
\* the caller was last asked about; endings: how many final states went out;
\* open: the event queue takes events; cancelled: tasks/cancel was called.
TaskInfo == [status    : States,
             shown     : Requests \cup {NoRequest},
             endings   : Nat,
             open      : BOOLEAN,
             cancelled : BOOLEAN]

\* A call's progress through execute.
Unfinished == {"greeting",     \* publishing the Task and `working`
               "waiting",      \* for _admit_lock
               "admitting",    \* holding it, at the test of _evict_if_full
               "evicting",     \* closing a victim, holding _admit_lock
               "answering",    \* publishing `working`, decision not applied
               "draining",     \* in _pump's loop, on session.drain()
               "publishing",   \* in it, publishing a prompt
               "closing"}      \* past it, publishing the last chunks
Finished   == {"completed", "failed", "evicted", "paused", "refused",
               "raised", "dropped"}

\* message: the call that delivered this message first; echo: the request id
\* it carries; run: the session it started or answers; stream: _pump's local;
\* victim: the run it is evicting; interrupted: its task has been cancelled.
CallInfo == [task        : Tasks,
             message     : Calls,
             echo        : Requests \cup {NoRequest},
             pc          : {"queued"} \cup Unfinished \cup Finished,
             run         : Nat,
             stream      : Nat,
             victim      : Nat,
             interrupted : BOOLEAN]

StreamInfo == [asked : Requests \cup {NoRequest}, answered : SUBSET Calls]

Init == /\ tasks = [t \in Tasks |-> [status |-> "none", shown |-> NoRequest,
                                     endings |-> 0, open |-> TRUE,
                                     cancelled |-> FALSE]]
        /\ calls = <<>>
        /\ loop = Nobody
        /\ live = <<>>
        /\ streamOf = [t \in Tasks |-> None]
        /\ admission = <<>>
        /\ sessions = <<>>
        /\ streams = <<>>
        /\ evicted = {}
        /\ askedBy = [q \in Requests |-> None]
        /\ settled = [q \in Requests |-> None]
-----------------------------------------------------------------------------
(***************************************************************************)
(* The tables.                                                             *)
(***************************************************************************)
\* _live.get(t)
LiveRun(t) == IF \E i \in 1..Len(live) : live[i].task = t
                THEN live[CHOOSE i \in 1..Len(live) : live[i].task = t].run
                ELSE None

\* _live.pop(t, None)
Dropped(table, t) ==
  IF \E i \in 1..Len(table) : table[i].task = t
    THEN LET at == CHOOSE i \in 1..Len(table) : table[i].task = t
         IN  [i \in 1..(Len(table) - 1) |-> IF i < at THEN table[i]
                                                      ELSE table[i + 1]]
    ELSE table

\* _live[t] = session: an existing key keeps its place.
Registered(table, t, r) ==
  IF \E i \in 1..Len(table) : table[i].task = t
    THEN [i \in 1..Len(table) |-> IF table[i].task = t
                                    THEN [table[i] EXCEPT !.run = r]
                                    ELSE table[i]]
    ELSE Append(table, [task |-> t, run |-> r])

\* A state published on the task's event queue; a closed queue drops it.
Published(info, state) ==
  IF ~info.open THEN info
  ELSE [info EXCEPT !.status  = state,
                    !.endings = IF state \in Final THEN @ + 1 ELSE @]

Asked(info, r) == IF ~info.open THEN info
                  ELSE [info EXCEPT !.status = "input", !.shown = r]

\* A call may step when the loop is free for it and no cancel is on its way.
MayRun(c) == /\ loop \in {Nobody, c}
             /\ ~calls[c].interrupted

\* Past a publication the call goes on at once unless the queue is full.
LoopAfterPublishing(c) == loop' = IF Backpressure THEN Nobody ELSE c

Goes(c, pc) == calls' = [calls EXCEPT ![c].pc = pc]

\* _streams.setdefault(t, _Stream()), as _pump begins.
NewStream == [asked |-> NoRequest, answered |-> {}]
StreamFor(t) == IF streamOf[t] = None THEN Len(streams) + 1 ELSE streamOf[t]
WithStreamFor(t, objects) ==
  IF streamOf[t] = None THEN Append(objects, NewStream) ELSE objects
-----------------------------------------------------------------------------
(***************************************************************************)
(* External: messages in, calls started.                                   *)
(***************************************************************************)
NewCall(t, message, echo) ==
  [task |-> t, message |-> message, echo |-> echo, pc |-> "queued",
   run |-> None, stream |-> None, victim |-> None, interrupted |-> FALSE]

\* The caller sends a message to a task that has not ended; answering a prompt
\* it may send the request id back.  Or a message it sent arrives again; not
\* the first, which names no task and would open another.
Deliver(t) ==
  /\ loop = Nobody
  /\ Len(calls) < MaxCalls
  /\ tasks[t].status \notin Final /\ ~tasks[t].cancelled
  /\ \/ \E echo \in {NoRequest, tasks[t].shown} :
          calls' = Append(calls, NewCall(t, Len(calls) + 1, echo))
     \/ \E d \in 1..Len(calls) : \E c \in (d + 1)..Len(calls) :
          /\ calls[d].task = t /\ calls[c].task = t
          /\ calls' = Append(calls, NewCall(t, calls[c].message, calls[c].echo))
  /\ UNCHANGED <<tasks, loop, live, streamOf, admission, sessions, streams,
                 evicted, askedBy, settled>>

\* The SDK runs the calls of a task in order, each to its end, and none for a
\* task that has ended.
Turn(c) ==
  \/ calls[c].task \in Overlapping
  \/ \A d \in 1..(c - 1) :
       calls[d].task = calls[c].task => calls[d].pc \in Finished

Begins(c) == /\ calls[c].pc = "queued" /\ Turn(c)
             /\ tasks[calls[c].task].status \notin Final
-----------------------------------------------------------------------------
(***************************************************************************)
(* execute, when the task has no live session: a run is started.           *)
(***************************************************************************)
\* The Task object and `working` go to the event queue.
Greet(c) == /\ MayRun(c)
            /\ Begins(c)
            /\ LiveRun(calls[c].task) = None
            /\ Goes(c, "greeting")
            /\ LoopAfterPublishing(c)
            /\ UNCHANGED <<tasks, live, streamOf, admission, sessions, streams,
                           evicted, askedBy, settled>>

\* slip: the lock not waited for
BugAcquire(c) ==
  /\ MayRun(c)
  /\ calls[c].pc = "greeting"
  /\ tasks' = [tasks EXCEPT ![calls[c].task] = Published(@, "working")]
  /\ admission' = Append(admission, c)
  /\ Goes(c, "admitting") /\ loop' = c
  /\ UNCHANGED <<live, streamOf, sessions, streams, evicted, askedBy, settled>>

\* They are in it: the call takes _admit_lock, or its place behind the others.
Acquire(c) ==
  /\ MayRun(c)
  /\ calls[c].pc = "greeting"
  /\ tasks' = [tasks EXCEPT ![calls[c].task] = Published(@, "working")]
  /\ admission' = Append(admission, c)
  /\ IF admission = <<>> THEN Goes(c, "admitting") /\ loop' = c
                         ELSE Goes(c, "waiting") /\ loop' = Nobody
  /\ UNCHANGED <<live, streamOf, sessions, streams, evicted, askedBy, settled>>

\* The lock is released to the first that waits.
GetLock(c) == /\ MayRun(c)
              /\ calls[c].pc = "waiting"
              /\ Head(admission) = c
              /\ Goes(c, "admitting")
              /\ loop' = c
              /\ UNCHANGED <<tasks, live, streamOf, admission, sessions,
                             streams, evicted, askedBy, settled>>

\* The oldest parked session, or the oldest of all.
Victim == LET parked == {i \in 1..Len(live) : IsParked(sessions[live[i].run])}
          IN  IF parked = {} THEN live[1]
              ELSE live[CHOOSE i \in parked : \A j \in parked : i <= j]

\* _evict_if_full, at capacity: the victim is marked, leaves both tables and is
\* closed.  Closing does not suspend when its run is already over.
Evict(c) ==
  LET v == Victim
      closing == BeginClose(sessions[v.run])
      waits == closing.closer # "closed"
  IN  /\ MayRun(c)
      /\ calls[c].pc = "admitting"
      /\ Len(live) >= MaxLive
      /\ evicted' = evicted \cup {v.run}
      /\ live' = Dropped(live, v.task)
      /\ streamOf' = [streamOf EXCEPT ![v.task] = None]
      /\ sessions' = [sessions EXCEPT ![v.run] = closing]
      /\ calls' = IF waits
                    THEN [calls EXCEPT ![c].pc = "evicting", ![c].victim = v.run]
                    ELSE calls
      /\ loop' = IF waits THEN Nobody ELSE c
      /\ UNCHANGED <<tasks, admission, streams, askedBy, settled>>

\* The victim's close goes on; when it returns, the test is made again.
AwaitVictim(c) ==
  LET v == calls[c].victim
      closing == ContinueClose(sessions[v])
  IN  /\ MayRun(c)
      /\ calls[c].pc = "evicting"
      /\ CloseGoesOn(sessions[v])
      /\ sessions' = [sessions EXCEPT ![v] = closing]
      /\ IF closing.closer = "closed"
           THEN /\ calls' = [calls EXCEPT ![c].pc = "admitting",
                                          ![c].victim = None]
                /\ loop' = c
           ELSE UNCHANGED <<calls, loop>>
      /\ UNCHANGED <<tasks, live, streamOf, admission, streams, evicted, askedBy, settled>>

\* With room in the table, the session is started and registered and the lock
\* released; _pump takes the task's stream, or opens one, and starts draining.
Admit(c) ==
  LET t == calls[c].task
      r == Len(sessions) + 1
  IN  /\ MayRun(c)
      /\ calls[c].pc = "admitting"
      /\ Len(live) < MaxLive
      /\ sessions' = Append(sessions, NewSession)
      /\ live' = Registered(live, t, r)
      /\ admission' = Tail(admission)
      /\ streams' = WithStreamFor(t, streams)
      /\ streamOf' = [streamOf EXCEPT ![t] = StreamFor(t)]
      /\ calls' = [calls EXCEPT ![c].pc = "draining", ![c].run = r,
                                ![c].stream = StreamFor(t)]
      /\ loop' = Nobody
      /\ UNCHANGED <<tasks, evicted, askedBy, settled>>
-----------------------------------------------------------------------------
(***************************************************************************)
(* execute, when the task has a live session: the message is an answer.    *)
(***************************************************************************)
\* The session is not parked: a call is already pumping it.
Raise(c) == LET r == LiveRun(calls[c].task)
            IN  /\ MayRun(c)
                /\ Begins(c)
                /\ r # None /\ ~IsParked(sessions[r])
                /\ Goes(c, "raised")
                /\ loop' = Nobody
                /\ UNCHANGED <<tasks, live, streamOf, admission, sessions,
                               streams, evicted, askedBy, settled>>

\* slip: only the resend is looked for
BugEcho(c, s) == /\ streams[s].asked # NoRequest
                 /\ calls[c].message \in streams[s].answered
\* slip: only the echoed id is looked at
BugResend(c, s) == /\ streams[s].asked # NoRequest
                   /\ calls[c].echo # NoRequest
                   /\ calls[c].echo # streams[s].asked

\* _answers_something_else: an echoed id is held to the prompt that is waiting;
\* without one, a message that has settled a request settles no other.
AnswersSomethingElse(c, s) ==
  /\ streams[s].asked # NoRequest
  /\ IF calls[c].echo # NoRequest
       THEN calls[c].echo # streams[s].asked
       ELSE calls[c].message \in streams[s].answered

\* A misdirected answer: the prompt that is waiting is published again.
Refuse(c) == LET t == calls[c].task
                 s == streamOf[t]
             IN  /\ MayRun(c)
                 /\ Begins(c)
                 /\ LiveRun(t) # None /\ IsParked(sessions[LiveRun(t)])
                 /\ s # None /\ AnswersSomethingElse(c, s)
                 /\ tasks' = [tasks EXCEPT ![t] = Asked(@, streams[s].asked)]
                 /\ Goes(c, "refused")
                 /\ loop' = Nobody
                 /\ UNCHANGED <<live, streamOf, admission, sessions, streams,
                                evicted, askedBy, settled>>

\* An answer: `working` is published first.
Accept(c) == LET t == calls[c].task
                 r == LiveRun(t)
                 s == streamOf[t]
             IN  /\ MayRun(c)
                 /\ Begins(c)
                 /\ r # None /\ IsParked(sessions[r])
                 /\ s = None \/ ~AnswersSomethingElse(c, s)
                 /\ calls' = [calls EXCEPT ![c].pc = "answering", ![c].run = r,
                                           ![c].stream = s]
                 /\ LoopAfterPublishing(c)
                 /\ UNCHANGED <<tasks, live, streamOf, admission, sessions,
                                streams, evicted, askedBy, settled>>

\* Then it is applied to the request the session is parked on by now, noted as
\* having settled one, and the run is pumped again.  ValueError if the request
\* is gone.
Noted(c) == LET s == calls[c].stream
            IN  IF s = None THEN streams
                ELSE [streams EXCEPT ![s].answered = @ \cup {calls[c].message}]

Settle(c) ==
  LET t == calls[c].task
      r == calls[c].run
      request == sessions[r].lastRequest
  IN  /\ MayRun(c)
      /\ calls[c].pc = "answering"
      /\ tasks' = [tasks EXCEPT ![t] = Published(@, "working")]
      /\ IF request \in sessions[r].pending
           THEN /\ sessions' = [sessions EXCEPT ![r] = Resolve(@, request)]
                /\ settled' = [settled EXCEPT ![request] = c]
                /\ streams' = WithStreamFor(t, Noted(c))
                /\ streamOf' = [streamOf EXCEPT ![t] = StreamFor(t)]
                /\ calls' = [calls EXCEPT ![c].pc = "draining",
                                          ![c].stream = StreamFor(t)]
           ELSE /\ Goes(c, "raised")
                /\ UNCHANGED <<sessions, settled, streams, streamOf>>
      /\ loop' = Nobody
      /\ UNCHANGED <<live, admission, evicted, askedBy>>
-----------------------------------------------------------------------------
(***************************************************************************)
(* _pump.                                                                  *)
(***************************************************************************)
Queue(c) == sessions[calls[c].run].queue

DrainsItem(c, kind) == /\ MayRun(c)
                       /\ calls[c].pc = "draining"
                       /\ Queue(c) # <<>>
                       /\ Head(Queue(c)).kind = kind

\* Any event but a prompt, published as it comes.
PumpOutput(c) ==
  /\ DrainsItem(c, "output")
  /\ sessions' = [sessions EXCEPT ![calls[c].run] = Take(@)]
  /\ tasks' = [tasks EXCEPT ![calls[c].task] = Published(@, "working")]
  /\ UNCHANGED <<calls, loop, live, streamOf, admission, streams, evicted,
                 askedBy, settled>>

\* A prompt: kept as what is asked, and published.
PumpPrompt(c) ==
  /\ DrainsItem(c, "request")
  /\ sessions' = [sessions EXCEPT ![calls[c].run] = Take(@)]
  /\ streams' = [streams EXCEPT ![calls[c].stream].asked = Head(Queue(c)).id]
  /\ Goes(c, "publishing")
  /\ LoopAfterPublishing(c)
  /\ UNCHANGED <<tasks, live, streamOf, admission, evicted, askedBy, settled>>

\* Once it is published drain records it and returns: the call is over, paused.
PumpPause(c) ==
  LET r == calls[c].run
      request == streams[calls[c].stream].asked
  IN  /\ MayRun(c)
      /\ calls[c].pc = "publishing"
      /\ tasks' = [tasks EXCEPT ![calls[c].task] = Asked(@, request)]
      /\ sessions' = [sessions EXCEPT ![r] = Park(@, request)]
      /\ Goes(c, "paused")
      /\ loop' = Nobody
      /\ UNCHANGED <<live, streamOf, admission, streams, evicted, askedBy, settled>>

\* slip: the task failed, its session left in the tables
BugKeepFailed(c) ==
  /\ DrainsItem(c, "error")
  /\ sessions' = [sessions EXCEPT ![calls[c].run] = ClearPending(End(@))]
  /\ tasks' = [tasks EXCEPT ![calls[c].task] = Published(@, "failed")]
  /\ Goes(c, "failed")
  /\ UNCHANGED <<loop, live, streamOf, admission, streams, evicted, askedBy,
                 settled>>
\* slip: no return after the failure
BugFailThrough(c) ==
  /\ DrainsItem(c, "error")
  /\ sessions' = [sessions EXCEPT ![calls[c].run] = ClearPending(End(@))]
  /\ live' = Dropped(live, calls[c].task)
  /\ streamOf' = [streamOf EXCEPT ![calls[c].task] = None]
  /\ tasks' = [tasks EXCEPT ![calls[c].task] = Published(@, "failed")]
  /\ Goes(c, "closing")
  /\ UNCHANGED <<loop, admission, streams, evicted, askedBy, settled>>

\* The run died of an error: the session is discarded and the task fails.  The
\* runner is done, so close() has only the requests left open to clear.
PumpFailure(c) ==
  LET t == calls[c].task
  IN  /\ DrainsItem(c, "error")
      /\ sessions' = [sessions EXCEPT ![calls[c].run] = ClearPending(End(@))]
      /\ live' = Dropped(live, t)
      /\ streamOf' = [streamOf EXCEPT ![t] = None]
      /\ tasks' = [tasks EXCEPT ![t] = Published(@, "failed")]
      /\ Goes(c, "failed")
      /\ UNCHANGED <<loop, admission, streams, evicted, askedBy, settled>>

\* The sentinel of an evicted run: what was buffered is no result.
PumpEvicted(c) ==
  /\ DrainsItem(c, "done")
  /\ calls[c].run \in evicted
  /\ sessions' = [sessions EXCEPT ![calls[c].run] = End(@)]
  /\ tasks' = [tasks EXCEPT ![calls[c].task] = Published(@, "failed")]
  /\ Goes(c, "evicted")
  /\ UNCHANGED <<loop, live, streamOf, admission, streams, evicted, askedBy, settled>>

\* slip: evicted not looked at
BugPumpEnd(c) ==
  /\ DrainsItem(c, "done")
  /\ sessions' = [sessions EXCEPT ![calls[c].run] = End(@)]
  /\ Goes(c, "closing")
  /\ LoopAfterPublishing(c)
  /\ UNCHANGED <<tasks, live, streamOf, admission, streams, evicted, askedBy,
                 settled>>

\* The sentinel of any other: the last chunks are published, outside the try.
PumpEnd(c) ==
  /\ DrainsItem(c, "done")
  /\ calls[c].run \notin evicted
  /\ sessions' = [sessions EXCEPT ![calls[c].run] = End(@)]
  /\ Goes(c, "closing")
  /\ LoopAfterPublishing(c)
  /\ UNCHANGED <<tasks, live, streamOf, admission, streams, evicted, askedBy, settled>>

\* Then the session is discarded and the task completes.
Complete(c) ==
  LET t == calls[c].task
  IN  /\ MayRun(c)
      /\ calls[c].pc = "closing"
      /\ sessions' = [sessions EXCEPT ![calls[c].run] = ClearPending(@)]
      /\ live' = Dropped(live, t)
      /\ streamOf' = [streamOf EXCEPT ![t] = None]
      /\ tasks' = [tasks EXCEPT ![t] = Published(@, "completed")]
      /\ Goes(c, "completed")
      /\ loop' = Nobody
      /\ UNCHANGED <<admission, streams, evicted, askedBy, settled>>
-----------------------------------------------------------------------------
(***************************************************************************)
(* tasks/cancel.                                                           *)
(***************************************************************************)
InProgress(c, t) == calls[c].task = t /\ calls[c].pc \in Unfinished

\* slip: the final state left to a pump that returned when the task was paused
BugReportsItself(r) == r = None

\* cancel publishes the final state itself unless a running pump is there to.
ReportsItself(r) == r = None \/ IsParked(sessions[r])

\* The SDK cancels the call in progress, whose CancelledError comes with its
\* next step, and calls cancel: both tables forget the task, the final state is
\* published here unless a running pump is there to do it, and the session is
\* closed.  With no call in progress the queue closes at once.
Cancel(t) ==
  LET r == LiveRun(t)
      busy == \E c \in 1..Len(calls) : InProgress(c, t)
      reported == IF ReportsItself(r)
                    THEN Published(tasks[t], "canceled") ELSE tasks[t]
  IN  /\ loop = Nobody
      /\ t \in Cancels
      /\ tasks[t].status \notin Final /\ ~tasks[t].cancelled
      /\ \E c \in 1..Len(calls) : calls[c].task = t
      /\ tasks' = [tasks EXCEPT ![t] = [reported EXCEPT !.open = busy,
                                                        !.cancelled = TRUE]]
      /\ streamOf' = [streamOf EXCEPT ![t] = None]
      /\ live' = Dropped(live, t)
      /\ sessions' = IF r = None THEN sessions
                     ELSE [sessions EXCEPT ![r] = BeginClose(@)]
      /\ calls' = [c \in 1..Len(calls) |->
                     IF InProgress(c, t)
                       THEN [calls[c] EXCEPT !.interrupted = TRUE]
                     ELSE IF calls[c].task = t /\ calls[c].pc = "queued"
                       THEN [calls[c] EXCEPT !.pc = "dropped"]
                     ELSE calls[c]]
      /\ UNCHANGED <<loop, admission, streams, evicted, askedBy, settled>>

\* close() on behalf of cancel goes on.
KeepClosing(r) ==
  /\ loop = Nobody
  /\ \A c \in 1..Len(calls) : calls[c].victim # r
  /\ CloseGoesOn(sessions[r])
  /\ sessions' = [sessions EXCEPT ![r] = ContinueClose(@)]
  /\ UNCHANGED <<tasks, calls, loop, live, streamOf, admission, streams,
                 evicted, askedBy, settled>>

\* CancelledError reaches the call: what every case below leaves behind.
Unwind(c) ==
  /\ loop = Nobody
  /\ calls[c].interrupted
  /\ calls' = [calls EXCEPT ![c].pc = "dropped", ![c].interrupted = FALSE,
                            ![c].victim = None]
  /\ UNCHANGED <<loop, streams, evicted, askedBy, settled>>

QueueCloses(t) == tasks' = [tasks EXCEPT ![t].open = FALSE]

\* ... while it publishes outside the try of _pump: nothing is undone.
InterruptPublishing(c) ==
  /\ calls[c].pc \in {"greeting", "answering", "closing"}
  /\ Unwind(c)
  /\ QueueCloses(calls[c].task)
  /\ UNCHANGED <<live, streamOf, admission, sessions>>

\* ... while it waits for _admit_lock: it gives up its place.
InterruptWaiting(c) ==
  /\ calls[c].pc = "waiting"
  /\ Unwind(c)
  /\ QueueCloses(calls[c].task)
  /\ LET at == CHOOSE i \in 1..Len(admission) : admission[i] = c
     IN  admission' = [i \in 1..(Len(admission) - 1) |->
                         IF i < at THEN admission[i] ELSE admission[i + 1]]
  /\ UNCHANGED <<live, streamOf, sessions>>

\* ... while it closes its victim: the victim's close is abandoned, the lock
\* released.
InterruptEvicting(c) ==
  LET v == calls[c].victim
  IN  /\ calls[c].pc = "evicting"
      /\ sessions[v].closer \in {"asking", "winding"}
      /\ Unwind(c)
      /\ QueueCloses(calls[c].task)
      /\ sessions' = [sessions EXCEPT ![v] = InterruptClose(@)]
      /\ admission' = Tail(admission)
      /\ UNCHANGED <<live, streamOf>>

\* ... which close() suppresses while it awaits the runner it has cancelled:
\* the call goes on as if nothing had happened.
SwallowCancel(c) ==
  LET v == calls[c].victim
  IN  /\ loop = Nobody
      /\ calls[c].interrupted
      /\ calls[c].pc = "evicting"
      /\ sessions[v].closer = "joining"
      /\ sessions' = [sessions EXCEPT ![v] = InterruptClose(@)]
      /\ calls' = [calls EXCEPT ![c].interrupted = FALSE]
      /\ UNCHANGED <<tasks, loop, live, streamOf, admission, streams, evicted,
                     askedBy, settled>>

\* ... in _pump's loop: the session is dropped, its runner cancelled, and the
\* final state published before the unwinding closes the queue.
InterruptPump(c) ==
  LET t == calls[c].task
  IN  /\ calls[c].pc \in {"draining", "publishing"}
      /\ Unwind(c)
      /\ live' = Dropped(live, t)
      /\ streamOf' = [streamOf EXCEPT ![t] = None]
      /\ sessions' = [sessions EXCEPT ![calls[c].run] = CancelRunner(@)]
      /\ tasks' = [tasks EXCEPT ![t] =
                     [Published(@, "canceled") EXCEPT !.open = FALSE]]
      /\ UNCHANGED admission
-----------------------------------------------------------------------------
(***************************************************************************)
(* The backend behind each session (external to the executor; module       *)
(* Session says more of it).                                               *)
(***************************************************************************)
Backend(r, s) == /\ loop = Nobody
                 /\ sessions' = [sessions EXCEPT ![r] = s]
                 /\ UNCHANGED <<tasks, calls, loop, live, streamOf, admission,
                                streams, evicted, settled>>

Begin(r) == /\ sessions[r].runner = "created"
            /\ Backend(r, RunnerBegins(sessions[r]))
            /\ UNCHANGED askedBy

Register(r) == /\ sessions[r].runner = "running"
               /\ ~sessions[r].canceller
               /\ Backend(r, SetCanceller(sessions[r]))
               /\ UNCHANGED askedBy

Speak(r) == /\ Driving(sessions[r])
            /\ Len(sessions[r].queue) < MaxOutput
            /\ Backend(r, Emit(sessions[r]))
            /\ UNCHANGED askedBy

\* Request ids are fresh: none is asked twice, by any run.
AskPermission(r, q) == /\ Driving(sessions[r])
                       /\ askedBy[q] = None
                       /\ Backend(r, Ask(sessions[r], q))
                       /\ askedBy' = [askedBy EXCEPT ![q] = r]

Return(r) == /\ Driving(sessions[r])
             /\ Backend(r, RunnerReturns(sessions[r]))
             /\ UNCHANGED askedBy

Fail(r) == /\ Driving(sessions[r])
           /\ Backend(r, RunnerFails(sessions[r]))
           /\ UNCHANGED askedBy
-----------------------------------------------------------------------------
Execute(c) ==
  \/ Greet(c) \/ Acquire(c) \/ GetLock(c) \/ Evict(c) \/ AwaitVictim(c)
  \/ Admit(c) \/ Raise(c) \/ Refuse(c) \/ Accept(c) \/ Settle(c)
  \/ PumpOutput(c) \/ PumpPrompt(c) \/ PumpPause(c) \/ PumpFailure(c)
  \/ PumpEvicted(c) \/ PumpEnd(c) \/ Complete(c)

Interrupt(c) ==
  \/ InterruptPublishing(c) \/ InterruptWaiting(c) \/ InterruptEvicting(c)
  \/ SwallowCancel(c) \/ InterruptPump(c)

Run(r) ==
  \/ Begin(r) \/ Register(r) \/ Speak(r) \/ Return(r) \/ Fail(r)
  \/ \E q \in Requests : AskPermission(r, q)

Next == \/ \E t \in Tasks : Deliver(t) \/ Cancel(t)
        \/ \E c \in 1..Len(calls) : Execute(c) \/ Interrupt(c)
        \/ \E r \in Runs : Run(r) \/ KeepClosing(r)

Spec == Init /\ [][Next]_vars

(***************************************************************************)
(* Fairness: the event loop runs every call and every runner that is ready *)
(* and fires the timeouts of close(), and a cancelled driver unwinds.      *)
(* Nothing is assumed of the callers, nor of an agent left to run.         *)
(***************************************************************************)
Ready(c) == c \in 1..Len(calls) /\ (Execute(c) \/ Interrupt(c))
Unwinds(r) == /\ r \in Runs
              /\ \/ Begin(r) \/ KeepClosing(r)
                 \/ sessions[r].runner = "cancelling" /\ (Return(r) \/ Fail(r))

Fairness == /\ \A c \in Calls : WF_vars(Ready(c))
            /\ \A r \in Calls : WF_vars(Unwinds(r))

FairSpec == Spec /\ Fairness
-----------------------------------------------------------------------------
TypeOK ==
  /\ tasks \in [Tasks -> TaskInfo]
  /\ calls \in Seq(CallInfo) /\ Len(calls) <= MaxCalls
  /\ loop \in 0..MaxCalls
  /\ live \in Seq([task : Tasks, run : Nat \ {None}])
  /\ streamOf \in [Tasks -> Nat]
  /\ admission \in Seq(Calls)
  /\ sessions \in Seq(Sessions)
  /\ streams \in Seq(StreamInfo)
  /\ evicted \subseteq Runs
  /\ askedBy \in [Requests -> Nat]
  /\ settled \in [Requests -> Nat]

IsLive(r) == \E i \in 1..Len(live) : live[i].run = r

Pumps(c, r) == /\ calls[c].run = r
               /\ calls[c].pc \in {"draining", "publishing", "closing"}

Idle(t) == \A c \in 1..Len(calls) : ~InProgress(c, t)

\* The tasks whose calls the SDK runs one after the other.  The calls of the
\* others overlap: two of them may each start a run and register it, and the
\* second takes the entry and the stream of the first.
InTurn == Tasks \ Overlapping

\* The bound on live sessions holds through any burst of first messages, each
\* of which may have to wait for an eviction (executor.py _admit_lock: else
\* they would "collectively overshoot _MAX_LIVE"); and the slot that a victim
\* leaves is kept for the call that waits for its close, which would otherwise
\* find the table full again and evict another for the one admission.
CapacityHeld ==
  /\ Len(live) <= MaxLive
  /\ \A c \in 1..Len(calls) : calls[c].pc = "evicting" => Len(live) < MaxLive

\* No session is ever pumped by two calls, which would split its events
\* between two consumers (executor.py _execute, the is_parked guard).
OneConsumer ==
  \A c, d \in 1..Len(calls) : \A r \in Runs :
    Pumps(c, r) /\ Pumps(d, r) => c = d

\* A live session is parked or has a call at it.  cancel relies on this: of a
\* session that is not parked it leaves the final state to "a _pump there to
\* emit it", and _evict_if_full likewise.
LiveIsAttended ==
  \A i \in 1..Len(live) : live[i].task \in InTurn =>
    \/ IsParked(sessions[live[i].run])
    \/ \E c \in 1..Len(calls) : Pumps(c, live[i].run)

\* A run that goes on is in the table or on its way out: nothing drops a
\* session without seeing to its runner.  The exceptions are a victim whose
\* close was abandoned because the call evicting it was cancelled, and a task
\* whose first calls overlap, the second of which takes the entry of the first.
RunsAreHeld ==
  \A r \in Runs :
    Alive(sessions[r]) =>
      \/ IsLive(r)
      \/ \E c \in 1..Len(calls) : calls[c].run = r /\ calls[c].task \in Overlapping
      \/ sessions[r].runner = "cancelling"
      \/ sessions[r].closer \in {"asking", "winding", "joining", "abandoned"}

\* No task completes on the output of a run that was evicted, however the
\* eviction falls between the run's last events and its pump reading them.
CompletedWasNotEvicted ==
  \A c \in 1..Len(calls) :
    calls[c].pc = "completed" => calls[c].run \notin evicted

\* An answer that names a request settles that request or none, though the
\* run may have gone on to another prompt when it arrives.  In turn: of two
\* answers checked against one prompt, the second would settle the next.
EchoHonoured ==
  \A q \in Requests :
    /\ settled[q] # None /\ calls[settled[q]].echo # NoRequest
    /\ calls[settled[q]].task \in InTurn
    => calls[settled[q]].echo = q

\* One message never settles two prompts of a run, however often it arrives.
OneMessageOnePrompt ==
  \A p, q \in Requests :
    /\ settled[p] # None /\ settled[q] # None
    /\ askedBy[p] = askedBy[q]
    /\ calls[settled[p]].task \in InTurn
    /\ calls[settled[p]].message = calls[settled[q]].message
    => p = q

\* A task in input-required, with no call at work on it, has its session in
\* the table, parked on the prompt its caller was shown; unless that session
\* was evicted.
InputIsAnswerable ==
  \A t \in InTurn :
    tasks[t].status = "input" /\ Idle(t) /\ ~tasks[t].cancelled =>
      \/ /\ LiveRun(t) # None
         /\ IsParked(sessions[LiveRun(t)])
         /\ sessions[LiveRun(t)].lastRequest = tasks[t].shown
      \/ \E c \in 1..Len(calls) : calls[c].task = t /\ calls[c].run \in evicted

\* Once the dust of a tasks/cancel has settled the caller has been told an end:
\* cancel or the interrupted pump got it out before the queue closed.
CancelledIsTold ==
  \A t \in Tasks : tasks[t].cancelled /\ Idle(t) => tasks[t].endings > 0

\* A task's end is told once, until its caller cancels it.
OneEnding == \A t \in InTurn : ~tasks[t].cancelled => tasks[t].endings <= 1

\* A final state is the last word on a task.
FinalStays ==
  [][\A t \in Tasks : tasks[t].status \in Final
                        => tasks'[t].status = tasks[t].status]_vars

At(c, pcs) == c \in 1..Len(calls) /\ calls[c].pc \in pcs

\* Whoever needs a slot gets to the head of the lock and through it, for every
\* close ends; also when those ahead of it are cancelled.
AdmissionEnds ==
  \A c \in Calls : At(c, {"waiting", "evicting"})
                     ~> ~At(c, {"waiting", "evicting"})

\* A run that an eviction, a cancel or an interrupted pump began to stop ends,
\* whatever its agent does: asking it is followed by the hard cancel.  Unless
\* the call evicting it is cancelled while it asks, which abandons the close.
Doomed(r) == /\ r \in Runs
             /\ sessions[r].closer # "no" \/ sessions[r].runner = "cancelling"

Ended(r) == r \in Runs /\ (~Alive(sessions[r]) \/ sessions[r].closer = "abandoned")

DoomedRunEnds == \A r \in Calls : Doomed(r) ~> Ended(r)
=============================================================================
