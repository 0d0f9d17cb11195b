---------------------------- MODULE SessionState ----------------------------
(***************************************************************************)
(* What one BackendSession holds (src/a2acode/backends/session.py), and    *)
(* what each of its methods does to it, as operators on a record.  Session *)
(* runs one such record with its backend and its consumer; Executor runs a *)
(* function of them, one per run.                                          *)
(*                                                                         *)
(*   queue        the asyncio.Queue: items put and not yet taken           *)
(*   pending      the keys of _pending                                     *)
(*   waiting      the requests whose future is not done: the coroutines    *)
(*                suspended in request_permission                          *)
(*   own          the request the runner's own coroutine awaits, if any    *)
(*                (echo.py); ACP and Claude ask from tasks of their own    *)
(*   lastRequest  last_request_id                                          *)
(*   runner       "created" until its first step, then "running",          *)
(*                "cancelling" once CancelledError is on its way,          *)
(*                "finished"                                               *)
(*   canceller    set_canceller has been called                            *)
(*   done         the consumer has seen the end                            *)
(*   closer       where close() is on this session                         *)
(*                                                                         *)
(* Every operator stands for code with no suspension point inside: the     *)
(* queue is unbounded, so put() never suspends.                            *)
(***************************************************************************)
EXTENDS Naturals, Sequences

CONSTANTS Requests,      \* request ids (uuid4: each is used once)
          NoRequest      \* last_request_id before the first prompt

ASSUME NoRequestAssumption == NoRequest \notin Requests

\* The kinds of queue items.  Every BackendEvent other than PermissionRequest
\* is an Output here: drain treats them all alike.
Output   == [kind |-> "output",  id |-> NoRequest]
Prompt(r) == [kind |-> "request", id |-> r]
Failure  == [kind |-> "error",   id |-> NoRequest]
Sentinel == [kind |-> "done",    id |-> NoRequest]

Items == {Output, Failure, Sentinel} \cup {Prompt(r) : r \in Requests}

Closers == {"no",
            "asking",       \* waiting for the canceller to land
            "winding",      \* waiting for the run to wind down
            "joining",      \* runner cancelled, awaiting it
            "closed",       \* close() returned
            "abandoned"}    \* close() was itself cancelled

Sessions == [queue       : Seq(Items),
             pending     : SUBSET Requests,
             waiting     : SUBSET Requests,
             own         : Requests \cup {NoRequest},
             lastRequest : Requests \cup {NoRequest},
             runner      : {"created", "running", "cancelling", "finished"},
             canceller   : BOOLEAN,
             done        : BOOLEAN,
             closer      : Closers]

\* A session whose runner has been started: the task exists, its first step
\* is still in the event loop's ready queue.
NewSession == [queue       |-> <<>>,
               pending     |-> {},
               waiting     |-> {},
               own         |-> NoRequest,
               lastRequest |-> NoRequest,
               runner      |-> "created",
               canceller   |-> FALSE,
               done        |-> FALSE,
               closer      |-> "no"]

IsParked(s) == s.lastRequest # NoRequest /\ s.lastRequest \in s.pending

Alive(s) == s.runner # "finished"

\* The backend's code is executing: driving, or unwinding after a cancel.
Driving(s) == s.runner \in {"running", "cancelling"}

\* slip: a queue jumped by the newest item
BugPut(s, item) == [s EXCEPT !.queue = <<item>> \o @]

Put(s, item) == [s EXCEPT !.queue = Append(@, item)]

RunnerBegins(s) == [s EXCEPT !.runner = "running"]

SetCanceller(s) == [s EXCEPT !.canceller = TRUE]

Emit(s) == Put(s, Output)

\* slip: last_request_id set when the request is made, not when it is surfaced
BugAskLast(s, r) == [Put(s, Prompt(r)) EXCEPT !.pending = @ \cup {r},
                                              !.waiting = @ \cup {r},
                                              !.lastRequest = r]

\* request_permission up to "await future", from a task of the backend's ...
Ask(s, r) == [Put(s, Prompt(r)) EXCEPT !.pending = @ \cup {r},
                                       !.waiting = @ \cup {r}]

\* ... or from the runner itself, which then does nothing until it is settled.
AskInline(s, r) == [Ask(s, r) EXCEPT !.own = r]

Resolve(s, r) == [s EXCEPT !.pending = @ \ {r},
                           !.waiting = @ \ {r},
                           !.own     = IF @ = r THEN NoRequest ELSE @]

\* Task.cancel() on the runner.  A task that has not taken its first step ends
\* there: CancelledError is thrown before runner() reaches its try, so nothing
\* is put on the queue.  A future the runner itself awaits is cancelled with
\* it, and stays in _pending.
CancelRunner(s) ==
  CASE s.runner = "created"  -> [s EXCEPT !.runner = "finished"]
    [] s.runner = "finished" -> s
    [] OTHER -> [s EXCEPT !.runner  = "cancelling",
                          !.waiting = @ \ {s.own},
                          !.own     = NoRequest]

\* slip: the sentinel put only when drive() returns by itself
BugReturns(s) == IF s.runner = "cancelling" THEN [s EXCEPT !.runner = "finished"]
                 ELSE [Put(s, Sentinel) EXCEPT !.runner = "finished"]
\* The runner's finally.  The task is done in the step that puts the sentinel.
RunnerReturns(s) == [Put(s, Sentinel) EXCEPT !.runner = "finished"]

RunnerFails(s) == [Put(Put(s, Failure), Sentinel) EXCEPT !.runner = "finished"]

\* drain's get: the item at the head leaves the queue.
Take(s) == [s EXCEPT !.queue = Tail(@)]

\* slip: the first prompt stays the recorded one
BugPark(s, r) == [s EXCEPT !.lastRequest = IF @ = NoRequest THEN r ELSE @]

\* drain after its yield of a prompt: only now does the session count as parked.
Park(s, r) == [s EXCEPT !.lastRequest = r]

End(s) == [s EXCEPT !.queue = Tail(@), !.done = TRUE]

\* close's finally: futures still waited on are cancelled and every entry goes.
\* A runner suspended in its own request is woken with CancelledError.
ClearPending(s) ==
  [s EXCEPT !.pending = {},
            !.waiting = {},
            !.own     = NoRequest,
            !.runner  = IF s.own = NoRequest THEN @ ELSE "cancelling"]

\* slip: only the pending requests seen to
BugBeginClose(s) == [ClearPending(s) EXCEPT !.closer = "closed"]

\* close() up to its first suspension: a run that is over has only its pending
\* requests cleared, one that can be asked to stop is asked, any other is
\* cancelled.
BeginClose(s) ==
  CASE ~Alive(s) -> [ClearPending(s) EXCEPT !.closer = "closed"]
    [] Alive(s) /\ s.canceller -> [s EXCEPT !.closer = "asking"]
    [] OTHER -> [CancelRunner(s) EXCEPT !.closer = "joining"]

\* slip: the runner that did not wind down awaited without being cancelled
BugContinueClose(s) ==
  IF s.closer = "asking" THEN [s EXCEPT !.closer = "winding"]
  ELSE IF Alive(s) THEN [s EXCEPT !.closer = "joining"]
  ELSE [ClearPending(s) EXCEPT !.closer = "closed"]

\* What ends the wait close() is in: the canceller returned, failed or did not
\* land in _CANCEL_TIMEOUT; then the run ended by itself, or did not in as long
\* again, which brings the hard cancel; then the cancelled runner is done.
ContinueClose(s) ==
  IF s.closer = "asking" THEN [s EXCEPT !.closer = "winding"]
  ELSE IF Alive(s) THEN [CancelRunner(s) EXCEPT !.closer = "joining"]
  ELSE [ClearPending(s) EXCEPT !.closer = "closed"]

CloseGoesOn(s) == \/ s.closer \in {"asking", "winding"}
                  \/ s.closer = "joining" /\ ~Alive(s)

\* The task running close() is cancelled while it waits.  Asking or winding,
\* its finally runs and the runner is left to itself.  Joining, the cancel is
\* passed on to the runner it awaits and suppressed: close() goes on.
InterruptClose(s) ==
  IF s.closer = "joining" THEN CancelRunner(s)
  ELSE [ClearPending(s) EXCEPT !.closer = "abandoned"]
=============================================================================
