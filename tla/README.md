# A TLA+ verification of a2acode

a2acode serves a coding agent (Claude Code through its SDK, or any agent that
speaks ACP) as an A2A agent. A caller's message starts a run of the agent; when
the agent wants to do something that needs approval the task pauses as
`input-required`, and the caller's next message is the decision. Everything
runs on one asyncio event loop: there are no threads to race, but every `await`
is a point where other calls, the agent's notifications, a `tasks/cancel` or an
eviction may come in between.

This directory holds the models of the parts where that matters, the TLC runs
that check them on small instances and the TLAPS proofs of what holds for every
instance. Paths below are those of the repository (`src/` in `PROJECT.json` is
its root).

## 1. The system

| Component | State | Operations | Talks to |
|---|---|---|---|
| `BackendSession` (`backends/session.py`) | event queue, pending futures, runner task, canceller, `last_request_id`, `done`, `evicted` | `start`, `emit`, `request_permission`, `resolve`, `drain`, `set_canceller`, `abort`, `close` | the backend writes it, the executor drains and closes it |
| `ClaudeCodeExecutor` (`executor.py`) | `_live`, `_streams`, `_session_ids`, `_admit_lock` | `execute` (start or answer), `_pump`, `cancel`, `_evict_if_full`, `_discard`, `_remember_session` | the A2A SDK calls it; it publishes on the task's event queue |
| `_Stream` and `_pump`'s artifacts (`executor.py`) | chunks, one-chunk lookahead, artifact ids, what was asked and answered | one branch per event type | event queue |
| Verdict (`executor.py`, both backends) | none | `_verdict`, `_decision`, `_answers`, `select_option`, `can_use_tool` | reads one message, tells the agent |
| Attachments (`executor.py`, `attach.py`) | `_Budget` for one message | `_build_input`, `fit`, rendering | reads one message |
| `ACPBackend` (`backends/acp.py`) | `_agents` (LRU pool), `_pool_lock`; per agent: claims, lock, session id, broken | `drive`, `_acquire`, `_evict_if_full`, `_spawn`, `_open_session`, `aclose` | agent subprocesses |
| `_BridgeClient` (`backends/acp.py`) | bound session, `_updates` lock, terminals | notifications, permission requests, file and terminal requests of the agent | session, `Terminal` |
| `_ToolCalls` (`backends/acp.py`) | one record per tool call of the turn | `feed`, `flush` | bridge client |
| `Terminal` (`backends/terminal.py`) | process, reader task, bounded buffer | `wait`, `kill`, `close`, `output` | subprocess |
| `ClaudeBackend`, `PlanTracker` (`backends/claude.py`) | task lists per context (LRU), pending plan calls | `drive`, `_plan_for`, `absorb` | Claude SDK |
| `EchoBackend` (`backends/echo.py`) | none | `drive`, which asks inline | session |
| `lifespan` (`server.py`) | stores, backend, push client, engine | start-up, nested shutdown | all |
| auth, card, cli, tracing, diff | none that changes | stateless | |

What makes it hard:

* the consumer of a session comes and goes (a pause ends `_pump`, an answer
  starts it again) while the run stays, and the run may end, ask twice at once
  or be cancelled at any of these points;
* `close()` is itself a sequence of waits with timeouts that can be cancelled;
* the admission lock is held over a close that waits for another task's agent;
* an answer may be resent, or name a prompt the run has left behind;
* one text of the response is always held back, so that the last can be sent
  as the last, over pauses, thoughts, plans, evictions and runs that end at once;
* what a turn of a context inherits from the one before is kept in two caches
  of two components, each with its own bound, read at different times;
* a claimed agent must not be closed, a broken one must not be used, and a turn
  may be cancelled wherever it is;
* the agent's messages come when they like: a command approved in one turn may
  start in the next, and a tool call may give its outcome before its arguments;
* shutdown is a nest of closes, each of which may fail or be cancelled, while
  the turns under way go on.

`PROJECT.json` lists these hazards one by one (`hazards`), each at its line and
with the properties that would catch it going wrong. Two it does not list:

* `acp.py:895`: `session/load` makes an agent replay the conversation, and what
  it replays is told to the caller as output of the turn that loads. Whether an
  agent does so is the agent's affair; `AgentPool` models the load alone.
* A turn that is being admitted while the server shuts down pools its agent
  after `aclose` emptied the pool; nothing closes it before the process exits.
  `ReleasedInTheEnd` speaks of the agents there were when the pool was emptied.

What makes each component correct, in short. Session: the end always reaches
the consumer, nothing after it; a waiting request can always be answered or is
woken; a closed session is over. Executor: the bound on live sessions holds; an
answer settles the prompt it was given for; no run is dropped without being
stopped; every task is told its end, once. Response: what the agent said, all
of it, in order, once; an artifact is closed once, after its last chunk.
Verdict: no consent that the caller did not give. Caches: the contexts used
last are kept, and a turn works on the list of its own conversation. Agent
pool: a claimed agent is never evicted; one turn at a time is on a connection;
a turn goes on with the conversation it asked for or says it does not.
Lifespan: no process is forgotten, and one close that fails strands no other.
Bridge client: the caller hears of a tool before its results, and of all it
did; no command runs unattended.

## 2. The modules

| Module | Models | Role |
|---|---|---|
| `SessionState` | `session.py` | a `BackendSession` as a record, each method as an operator on it |
| `Session` | `session.py`, its uses | one session with its backend, consumer and closer as processes |
| `Conversation` | | what a session promises its consumer: the abstract specification `Session` implements |
| `Executor` | `executor.py` | tasks, calls of `execute` and `cancel`, the two tables, the lock; its sessions are `SessionState` records |
| `ResponseStream` | `executor.py`: `_Stream`, `_pump`, `_build_input`'s and `_verdict`'s callers | one task from the opening message over its pauses to its end, as its caller sees it |
| `Artifact` | | what a streamed artifact promises: the abstract specification `ResponseStream` implements for each of its artifacts |
| `Verdict` | `executor.py`, `acp.py`, `claude.py` | operators: what an answer is read as, what either agent is told |
| `Attachments` | `executor.py`, `attach.py`, `acp.py` | operators: a message split into prompt and attachments within the allowance, and the form each reaches the agent in |
| `OrderedDict` | the dictionaries of `executor.py` and `claude.py` | operators: assignment, removal, the bounded table whose oldest entry goes |
| `PlanTracker` | `claude.py`, `PlanTracker` | a tracker as a record, `absorb` as operators on it |
| `ClaudeTurns` | `executor.py`, `claude.py` | the turns of several contexts over the continuity cache and the table of trackers |
| `AgentPool` | `acp.py` from `_Agent` on | turns, agents, the pool and its locks |
| `Lifespan` | `server.py`, `lifespan` | start-up and shutdown around `AgentPool` |
| `ToolCalls` | `acp.py`, `_ToolCalls` and `events_from_update` | operators: what the caller is told when an update of a call arrives, and at the end of a turn |
| `Bridge` | `acp.py`, `_BridgeClient`; `terminal.py` | one connection over consecutive turns: the updates of tool calls and the commands the agent runs |
| `SessionProofs`, `ExecutorProofs`, `ExecutorTurnsProofs`, `ResponseStreamProofs`, `ClaudeTurnsProofs`, `AgentPoolProofs`, `LifespanProofs`, `BridgeProofs` | | theorems |
| `MCSession`, `MCExecutor`, `MCResponseStream`, `MCClaudeTurns`, `MCAgentPool`, `MCLifespan`, `MCBridge` | | sets of model values and symmetry for TLC |

What composes what: `Session` and `Executor` share `SessionState`: the same
operators are run once with every party of one session in full, and once with
many sessions and the executor's tables in full. `ResponseStream` takes the
task of `Executor` by itself and gives its events their content; it extends
`Verdict` and `Attachments`, whose operators are applied to every message the
model sends. `ClaudeTurns` extends `PlanTracker`, which extends `OrderedDict`.
`Lifespan` extends `AgentPool` and runs its actions. `Bridge` extends
`ToolCalls`. An operator whose comment says *slip* is a plausible mistake in the
code it stands before; nothing in a specification uses it.

**The grain of a step.** A step is the code between two suspension points, for
asyncio switches nowhere else. In `Executor` a call often passes through
several modelled steps without suspending (publishing an event suspends only
while the task's event queue is full). The variable `loop` names the call in
the middle of such a stretch and keeps all others out; with `Backpressure` set,
publications suspend and the loop is given away there.

**`SessionState`.** `queue` holds kinds of items: an output stands for every
event other than a permission request, as in `drain`. `pending` is the keys of
`_pending`, `waiting` those whose future is not done. `runner` tells a task
that has not taken its first step (`created`) from a running one, because a
cancel in that state skips `runner()`'s `finally`. `closer` is the progress of
`close()`: `asking` and `winding` are its two timed waits, `joining` the wait
for the cancelled runner.

**`Session`.** Backend: `Begin`, `Register`, `Speak`, `AskFromHandler` (ACP
and Claude, from a task of their own), `AskFromDrive` (echo, inline), `Return`,
`Fail`. Consumer: `TakeOutput`, `TakePrompt`, `Pause`, `TakeEnd` are `drain` as
`_pump` runs it, with the publication of a prompt between `yield` and the write
of `last_request_id`; `Answer` is `resolve`, `Abort` the cancelled pump.
Closer: `Close`, `KeepClosing`, `Interrupt`. `sent`, `received`, `asked`,
`decided` are history variables. With `EarlyCancel = FALSE` neither a close nor
an abort comes before the runner's first step: a cancel that early skips
`runner()`'s `try`, and with it the sentinel. It takes a close in the same turn
of the event loop as the start, when the consumer is itself at its first step;
the assumption is made in the runs and named in the one theorem that needs it.

**`Executor`.** `calls[c].pc` is where a call is: `greeting`, `waiting`,
`admitting`, `evicting` on the way to a new run; `answering` between the
published `working` and `resolve`; `draining`, `publishing`, `closing` in
`_pump`. `live` keeps `_live`'s insertion order, since `_evict_if_full` takes
the first parked entry, else the oldest. Stream objects are separate from the
table `_streams`, since `execute` holds one in a local over an `await`.
External: `Deliver` (new messages and resends, with or without the echoed
request id), the SDK's order of calls (one after the other for a task, except
for the tasks in `Overlapping`), and what `tasks/cancel` does around `cancel()`
for the tasks in `Cancels`: the call in progress gets its `CancelledError`, and
its event queue closes when it has unwound.

**`ResponseStream`.** `phase` is where the task's call is, `stream` the
`_Stream` its pump works on and `entry` the one `_streams` has, for an eviction
takes the second from under the first. A branch of `_pump` is an action
(`DrainText`, `DrainThought`, `DrainPlan`, `DrainAside`, `DrainAsk`,
`DrainResult`, `DrainError`, `DrainEnd`) that leaves what it has to publish in
`jobs`; `Publish` does one and makes the assignments that follow it in the
code. Texts are the numbers in which the agent said them. `kept` is the
caller's copy of the artifacts, as the A2A SDK's task store puts it together
(external). `Evict` and `Cancel` come anywhere. Messages come from `Openings`,
and answers from `Replies` and `Entries` to each list of `Offers`, so that
`Verdict` and `Attachments` are checked over all of them; the reference
definitions they are checked against (`Consents`, `Total`) are beside the
properties. `tool_names` is left out: it picks a word of a status line.
`ReusesLeft` says whether a run may start over a stream that an evicted run
left: with it, what the caller is shown is not that run's alone (see the run
`EvictedTextCompleted`), so the passing run has it `FALSE`.

**`ClaudeTurns`.** A turn is requested (`execute` reads `resume`), driven
(`_plan_for`, and the connection), ended (its `Result` is on the queue) and
remembered (`_remember_session`), or stopped on the way. `trackers` are objects, named by
the turn that made them; `plans` and `sessionIds` are `OrderedDict` tables.
External: the agent's own list of each conversation (`lists`), which a call
changes when its result comes, in any order; `PlanTracker` sees the same calls
and results. `usedIds`, `usedPlans`, `made`, `mixed` and `missed` are histories:
the last excepts a conversation whose list the tracker cannot have, by one of
its three bounds, by a stopped run, or because `_todos` ignores an empty list.

**`AgentPool`.** A turn is one run of `drive`. `agents` are the `_Agent`
objects ever made, `pool` the `_agents` dict in its order, `poolLock` and each
agent's `lock` FIFO queues with the holder in front. `stack` is the state of
the agent's `AsyncExitStack`; `torn` is one whose closing was cancelled.
`known` stands for the executor's `_session_ids` (written when the turn's
`Result` is emitted; a turn may start with the value or with none).

**`Lifespan`.** `Initialize`, `StartFails`, `Serve`, `ShutDown`; then
`TakePool` and `AgentPool`'s `StopAgent` are `backend.aclose()`, `CloseCut` its
cancellation at any point, and `ReleaseClient`, `DisposeEngine`, `ReleaseCut`
the two nested releases. Turns begin while it serves and go on until the
process exits: nothing waits for them. `aclose` queues for the pool lock like a
turn, so it may get it while turns wait behind it. The closes it then awaits are
one step for each agent, in any order: no property speaks of an agent half
closed by it, and `CloseCut` leaves any set of them unclosed.

**`ToolCalls` and `Bridge`.** An update of a call opens it or goes on with it,
carries arguments or not, and carries nothing more, text (worth announcing the
call for, and not told), or news (a diff or an outcome). `ToolCalls` has
`_fold` and `flush` as functions from `_calls` to its next value and what is
yielded; `raw_input` is missing from the state because a call that has its
arguments is announced in the step that brings them. `Bridge` runs them over
the turns of a connection: `Bind`, `SessionUpdate`, `EndTurn` (the flush and
the part of `unbind` before its `gather`), `CloseAll`, `UnbindEnds`,
`UnbindCancelled`. The lock `_updates` is no variable: nothing suspends while
it is held, the session's queue being unbounded, so it is never found taken.
A command's handler goes from `CreateTerminal` over the caller's decision
(`Allowed`, `Refused`) to `Spawned`, each of which may come in a later phase or
turn than the one before; `KillTerminal`, `ReleaseTerminal` and `Exits` end its
process. `heard` and `told` are histories of the turn, cleared when its unbind
is over. External: that the agent opens a call at most once in a turn, before
it goes on with it.

## 3. The runs

Passing runs, with the properties of `PROJECT.json`:

| Run | Instance | Distinct states | Shows |
|---|---|---|---|
| `Session` | 2 requests, 2 outputs | 22,209 | all safety properties of a session, the end of `close` and `drain`, the refinement of `Conversation` |
| `Executor` | 2 tasks, 2 requests, 3 calls, 1 slot, full queues | 194,239 | capacity and the slot kept by the lock, evictions, which answer settles which prompt, pauses that stay answerable, one ending |
| `ExecutorCancel` | 2 tasks, 1 request, 3 calls; one task cancelled at any time, the calls of the other overlapping | 664,807 | one consumer for each session, the caller is told, no run is lost |
| `ExecutorLiveness` | 2 tasks, 3 calls, both cancelled at any time, no prompts | 56,489 | admission ends; a run being stopped stops |
| `ResponseStream` | 3 texts, 1 thought, 2 plans, 1 status line, 2 pauses, 2 streams; messages of up to 2 parts, offers of up to 2 options | 1,104,063 | what the caller is shown at each point and at the end, what a run leaves, the reading of messages and answers, the refinement of `Artifact` |
| `ClaudeTurns` | 3 turns, 3 contexts, caches of 2 and 1, 3 calls, lists of 2, 2 calls without result | 2,093,407 | what the caches lose, whose list a turn works on, what is shown of it |
| `AgentPool` | 3 turns, 2 contexts, pool of 1, agents that load sessions; closed at any time | 835,716 | claims, eviction, locks, conversations |
| `Lifespan` | 2 turns, 2 contexts, pool of 1, agents that cannot load, 1 death, a database | 700,173 | no process forgotten, what shutdown releases, every turn ends |
| `Bridge` | 2 turns of 3 updates, 2 calls of which 1 is remembered, 2 commands for 1 terminal | 1,756,796 | tools introduced, nothing lost or told twice; which processes outlive a turn |

Bounds. One slot in the table or the pool is where eviction happens most: with
two tasks every admission of one is an eviction of the other. Two requests are
enough for a second prompt to be waiting while the first is answered, and for a
resent answer to meet it. Three calls give a task a start, an answer and a
resend, or a start, an answer and a competing task. Three texts let one be held
back, one be sent and one come after a pause; two pauses let a run be evicted
while its first answer is published and ask again; two streams let a run follow
an evicted one. Every kind of part, alone and before and after every other, meets
allowances that one text or two exhaust. A table of trackers smaller than the
continuity cache loses the one and keeps the other, and three turns let a
context come back after it, or, of three contexts, overflow the continuity cache
too; three calls outgrow a list of two. Three updates let a call
be announced bare, be corrected and say more, and a second call come between;
two turns let a command of the first be registered in the second. Three turns
on one agent give a holder, one queued behind it and one that wants it evicted.
All agents of a run load sessions, or none does, as one command is behind all of
them. `RightConversation` is checked for agents that can; those that cannot, whose
turns are `told`, run in `Lifespan` alone.
Two outputs give an output before and after a prompt. The bounds are in the
guards of `Speak`, `Deliver`, `Start` and `Request` (each turn runs once),
`Dies`, `Cancel` of `Executor` (`Cancels`), the `Drain` actions, `Open` and
`Begin` (`MaxStreams`), `Use` (`MaxCalls`), `Bind` and `SessionUpdate`.
Symmetry over tasks, requests, turns, contexts, calls and commands is used in
runs without liveness properties only, and not where one task is told from the
other. Deadlock is not checked: a system whose callers have stopped sending is
at rest.

Runs that must fail, each a statement of the repository the code does not keep:

| Run | Statement | What happens |
|---|---|---|
| `EvictedTextCompleted` | `executor.py:711-713`: an evicted run's `_pump` "fails the task rather than completing it with partial output" | a session evicted while its answer is published leaves a stream behind when its pump pauses again; the next run of the task completes with the evicted run's text before its own |
| `CancelledWhileEvicting` | `executor.py:583-584`: "a missing session means it already finished" | a call still in admission has none either; its `CancelledError` is suppressed in the victim's `close`: after `canceled` was published the call is admitted and runs, and the end of that run, `failed` or `completed`, replaces it |
| `RetiredAgentReused` | `acp.py:754-755`: "retire it rather than reuse it" | a turn queued on the agent's lock takes it after the turn ahead broke it |

A fourth is kept by `Bridge` as the exception in `OnlyStragglersOutlive`:
`README.md:226` and `test_terminal.py:3-4` say that what still runs "is killed
with the turn", but a command approved or spawned over the end of its turn is
registered after the unbind, and runs until the next turn of the connection
ends, if there is one.

**Fairness.** `Session`: the event loop runs what is ready (`Begin`, the
draining consumer, `close` once what it waits for is there, which for its timed
waits is at the latest the timeout), and a cancelled driver unwinds. Nothing is
assumed of a running agent or of a caller. `Executor`: the same for each call
and each closing run. `Lifespan` (`LifeSpec`): for each turn, while the process
lives; in addition an agent answers or fails each request, and a launch ends.
`drive` has no timeout of its own, so without this a turn waits for ever, and
during a launch the whole pool with it. Shutdown itself is not assumed to
proceed: `TurnsEnd` holds of a server that hangs in a close as well.

The models find it worth saying where a claim stops: a victim whose close is
abandoned because the evicting call was cancelled is stopped by nobody
(`DoomedRunEnds` excludes it, as `RunsAreHeld` does); a close in `lifespan` that
was itself cancelled releases nothing more (`ReleasedInTheEnd` excludes it); and
a task cancelled on the last chunks of a run that is over is reported by neither
side (`Cancel` in `ResponseStream`).

## 4. The proofs

`SessionProofs` proves for every set of requests, every `MaxOutput` and both
values of `EarlyCancel` (except where said):

* `TypeCorrect`: `TypeOK`.
* `RunsEndInTheSentinel`: `SentinelReaches`, assuming `EarlyCancel = FALSE`;
  without it a runner that never reached its `try` has none.
* `DrainLeavesNothing`: `NothingLeftBehind`.
* `NoPromptIsLost`: `WaitersAreReachable`.
* `DecisionsAreForWhatWasShown`: `OnlyShownIsDecided`.
* `ClosedIsOver`: `ClosedMeansOver`.
* `AbandoningWakes`: `AbandonedWakes`, an action property.
* `SessionKeepsPromise`: `KeepsPromise`, the refinement of `Conversation`.

None of the safety properties is inductive: they speak of the queue, while what
keeps them true is how the queue lies to everything ever sent. The inductive
invariant is in `Session`, below the properties:

* `QueueIsRest`: the queue is `sent` from `received + 1` on;
* `EndsAreLast`: an error is followed by the sentinel and the sentinel by
  nothing, and a run that sent one is over;
* `DoneIsEnd`: `done` says that the item received last is such an end;
* `OverIsSent`: a run that is over has sent the sentinel;
* `AskedOnce`: each request is sent once, and what waits was sent;
* `CloseIsClean`: a finished runner awaits nothing; `closed` leaves nothing;
* `PromptInHand`: of the prompts taken only the last may be undecided, it is
  the one surfaced or parked on, and it and those to come are pending.

`EndInv` is the first four with `TypeOK` (inductive by itself, enough for the
first two results); `IInv` adds the rest. Each conjunct has one lemma that every
step keeps it, split by actions; lemmas on `SessionState`'s operators say what
each does to the queue. The proofs rest on `NoRequestAssumption` and
`SessionAssumption` and on the library's theorems on sequences.

`AgentPoolProofs` proves, for any number of turns, contexts and agents and any
limit of the pool, `ClaimsAreAlwaysExact` (`ClaimsAreExact`),
`VictimsAreAlwaysIdle` (`VictimsAreIdle`) and `OneTurnAtATime`
(`OneTurnPerAgent`), from `PoolAssumption`. A counter alone is not inductive:
that a claim is given back once, wherever the turn is cancelled, is so because
the queue on `agent.lock` has the same turns in it. The inductive invariant
`IInv` says of each agent (`Sound`) that the queue has no turn twice, is as long
as the count of claims, holds exactly the turns that claim the agent, has the
one past the queue in front, and that the bound session is that one's while it
is at work; that the pool has no agent twice; and that an agent being closed to
make room is in no pool and in no turn's hands (`Gone`), which is why no turn
can come to it between the choice and the close. `Claiming`, `WentOn` and
`GivingBack` carry `Sound` over the three things a turn does with an agent,
`Elsewhere` over what it does to others, `Quiet` over the steps that touch no
claim; `Counted` turns a queue without repetition into the cardinality the
property asks for. `PoolIsSound` is the invariant itself.

`PoolStaysBounded` (`PoolIsBounded`) rests on `BoundInv`. The limit is tested
when the turn that launches has the pool's lock, and the process is up only
later, so the lock's queue must be known exactly (`LockInv`: it has the turns
that ask for it, each once, the one that has it in front, whether the launch
suspends or not), and what the test found must be kept over the launch
(`RoomInv`: there was room, or every agent was claimed, each by another turn,
so that with the launching one there were more turns than agents). That
counting is an injection from the pool into the turns under way. `peak` is the
most turns that were under way at once: overshoot is bounded by demand, not by
the limit.

`TalksAreKeptApart` (`RightConversation`) rests on `ConvInv`: each session, once
created, is at home in one context, and wherever it is named - by the agent that
holds it, by a turn that ran in it or is to resume it, by the executor's
notes - that context is the one it is named for. The home of a session is no
state of the code; the invariant says that there is an assignment of homes, and
each step that creates a session extends it.

`LifespanProofs` proves, for the same parameters, `NoneIsForgotten`
(`NoProcessIsForgotten`) and `AllIsReleased` (`ReleasedInTheEnd`) from `LifeInv`,
which is `IInv` of the pool with: where each open process is (`Kept`, by whether
it has a context); that what is in the pool after `aclose()` took it was made
after (`Emptied`); that the agents in the hands of `aclose()` are closed before
the client and the engine are (`Course`); and what is released at the end
(`LetGo`). The actions of the pool enter through lemmas on what a step of a turn
may do to the processes.

`ResponseStreamProofs` proves `ConsentIsAlwaysExplicit` (`ConsentIsExplicit`)
for any texts, answers and offers, from `OffersAssumption`: an agent names the
options of one request apart. The state keeps the options with the decision
that was read from them; the work is in `DecisionIsExplicit`, that each way a
decision is read and an option selected agrees with what the caller said. It
also proves `LeftoversAreAlwaysEvicted` (`LeftoversAreEvicted`) for any bounds
and for both values of `ReusesLeft`, from `LeftoversInv`: a live session was not
evicted, and a failed end is published alone, with the session in no table.

`StreamInv`, in the same module, is what the caller has of a stream against
what the agent said: for every place a pump can be at, the response is the
caller's copy, then what is queued to be flushed, then the chunk held back
(`Behind`), the thinking likewise without a held chunk, and the two flags are
set if and only if the caller has the artifact. `Publishing` and `Finishing`
list what may be left to publish, and with it which part of the text is where;
without them no step from `jobs` to `kept` could be followed. From it:
`ShownStaysCurrent` (`ShownIsCurrent`) and `CompletedStaysWhole`
(`CompletedIsWhole`), assuming `~ReusesLeft`, since a run over a stream that an
evicted one left presents that run's text as well (`EvictedTextCompleted`);
`StreamIsTyped` (`TypeOK`) and the refinement of `Artifact`,
`ArtifactsAreKept` (`KeepsArtifacts`), without that assumption: nothing is taken
back and nothing comes after a last chunk even then.

`BudgetIsAlwaysKept` (`BudgetIsKept`) is for messages of any length and any sizes,
from `OpeningsAssumption` (a message is a sequence of parts) and
`AllowanceAssumption`. `Built` and `Total` are recursive functions over a
sequence. The library's induction rule, with its operator parameter, cannot be
used, so the module has its own over a set (`Induct`, from the well-foundedness
of the naturals); `LoopExists` and `LoopsAgree` turn it into what is needed of a
loop, and `TotalIs` and `BuiltIsFair` apply them. The invariant of the loop of
`_build_input` is `IsFairTo`: what is left of an allowance is the allowance
without what the attachments so far took, and each of them had its share of what
was left when it came (`FitIsFair`).

`ClaudeTurnsProofs` proves `RecentAreAlwaysKept` (`RecentAreKept`) for any
limits of the two caches. The property itself carries the order of last use;
`CacheInv` adds that a cache is a sequence of entries keyed by contexts, and
that no use recorded is later than the clock, so that the entry written now
belongs at the end.

`ListIsAlwaysOwn` (`ListIsOwn`), in the same module and for any number of turns,
contexts and calls, needs far more than it says. That a tracker's steps are of
its conversation is a matter of which calls it noted (`WorkInv`: a noted call is
what the call in flight with that number asks for, a call asks for steps of its
conversation or for its own, and the agent's lists have steps of their own
conversation); that the tracker a turn works on is one of the turn's
conversation is a matter of two tables with two bounds (`LastInv`: for a context
whose turns never overlapped, the continuity cache, the table of plans and the
turn under way mean the same conversation, wherever one of them names any).
`CourseInv` holds them together: a tracker in use was made by a turn of the same
context that had a conversation. Contexts whose turns overlapped are `mixed`, and
the property excepts them.

`ShownIsAlwaysAgents` (`ShownIsAgents`) says that what the caller is shown is what
the agent has, and stands on those invariants and on `ShownInv`:

* `SyncInv` is the property made inductive. It is said of every tracker in use,
  in the table of plans or in the hands of a turn, and not of running turns only;
  and it knows more of a list kept task by task than its end: the tracker's ids
  name exactly the steps it shows (`Fit`), or the next update would go astray,
  and each step it lost has `MaxSteps` later ones of the conversation behind it
  (`Behind`). That is an injection into the steps made since, because it has to
  survive deletions: a list may become shorter than a tracker's bound after the
  tracker has lost steps of it.
* `ShapeInv`: a list is written whole, or kept task by task with ids apart and in
  the order its steps were made. The second is why the front of the list is what
  a full tracker may lose.
* `CallsInv` and `NotedInv`: a step is made once, by the one call that has its
  number, and a call without a result is still noted by its tracker, unless the
  tracker lost sight of the conversation. Without the second a result could
  change the agent's list and nothing that is shown.
* `HomeInv` and `OneInv`: a conversation belongs to one context, and a context
  that is worked on has no tracker in the table but the one it is worked on with,
  so that a result comes to the only tracker there is to keep in step.
* `NewInv`: a turn that begins a conversation finds an empty list and a new
  tracker.

What a step changes is summed up in one operator a kind (`Requests`, `Drives`,
`Rests`, `Uses`, `Settles`; `StepsAre` shows that these are all). The work is in
`SyncSettles`, that the branches of `_apply` do to the end of a list what the
agent did to the list: a task added (`CreateFits`, and `EvictedIsBehind` for the
one that makes room), done or deleted, in the end that is shown or before it
(`UpdateFits`), the list written (`TodosSyncs`). At the end `BehindIsNotLatest`
counts: an injection of `MaxSteps` steps into those made since leaves no place
among the last `MaxSteps`. Before it was proved, TLC found `ShownInv` to hold on
the instance of the run and on two others: one turn with six calls, three of
them without result at a time (1.3 million states), and two turns of one context
with five calls (14.5 million).

`ExecutorProofs` proves `CapacityIsHeld` (`CapacityHeld`) for any number of
tasks, calls, requests and cancels, overlapping or not, with full queues or not.
That `live` stays within the bound needs no lock: `Admit` tests it in the step
that registers. That the slot a victim leaves is kept for the call waiting on
its close does, and is not inductive. `LockInv` makes it so: in the line of
`_admit_lock` are exactly the calls that wait for it or have it, each once, and
only the first can have it; so while one registers its session no other waits
for a victim. It is kept by a lemma for each way in and out of the line
(`LockJoined`, `LockReleased`, `LockGivenUp`). The module also has `BaseInv` (ranges and
types of all the tables) and, for each action, a lemma `...Does` that says what
it changes.

`ExecutorTurnsProofs` proves what the executor promises its callers, for any
number of tasks, calls, runs and requests:

* `OneConsumerHolds`: `OneConsumer`, overlapping calls included.
* `LiveIsAttendedHolds`: `LiveIsAttended`.
* `RunsAreHeldHolds`: `RunsAreHeld`.
* `EchoIsHonoured`, `OneMessageOnePromptHolds`: `EchoHonoured`,
  `OneMessageOnePrompt`.
* `InputStaysAnswerable`: `InputIsAnswerable`.
* `OneEndingHolds`: `OneEnding`.
* `EndIsLastHolds`: once a task in turn is in a final state, no step changes
  anything of it unless its caller cancels it: not the calls queued behind the
  end, nor the close of the run, nor chunks still held. It is `FinalStays` with
  the condition under which that holds, stated next to its proof: no run lists
  it, and TLC found it to hold on the instances of `Executor` and
  `ExecutorCancel` (without symmetry, 768,649 and 664,807 states).
* `CompletedWasNotEvictedHolds`, `CancelledIsToldHolds`:
  `CompletedWasNotEvicted`, `CancelledIsTold`, assuming `~Backpressure`.

All but the last two come from one invariant, `ExecutorInv`, whose parts are each
proved from themselves and those before:

* `Ground`: what the rest stands on, of all tasks. Each run was started by the
  calls of one task, and one in the table is neither evicted nor being closed;
  calls of a task in turn come one after the other; a stream belongs to one
  task; what a session asks, shows and waits for is its own; a run is pumped by
  one call, and is not parked then.
* `WorkInv`: while a call is on its way to a run its task has no entry; one at
  work on a run finds it in the table unless it was evicted or its task
  cancelled, and an `answering` call finds it still parked; a run in the table is
  parked on what its task's stream has as `asked`, or is pumped.
* `SettledInv`: an accepted answer is to the prompt it names; what settled a
  request is on record in the stream for as long as its run is in the table,
  and no second copy of it is under way. Neither `EchoHonoured` nor
  `OneMessageOnePrompt` is inductive without: they speak of what has been
  settled, and the danger is in the copy that has been checked and not applied.
* `TasksInv`: a task is told its end when its state becomes final, with no call
  left at work on it; one that waits for its caller has its session parked on
  what was shown.
* `HeldInv`: a run that goes on is in the table or on its way out.

Most parts have an operator that says how any step changes what they speak of
(`CallsGo`, `RunsGo`, `SessionsGo`, ...); it is proved by going through the
actions, and the part then without looking at them. Two scopes come with the
properties and are no artefact of the proofs. `InTurn` is the tasks outside
`Overlapping`: the first messages of an overlapping task may each start a run,
the second of which takes the entry and the stream of the first. A task that
its caller cancelled is excepted from `OneEnding` and `InputIsAnswerable`: a
cancel answers for itself, also when the call it interrupts goes on (see
`CancelledWhileEvicting`). The last two need `~Backpressure`: with full event
queues a call gives the loop away over its last chunks, so a run that is over
can be evicted before its task completes, and a cancel there is told by neither
side; TLC finds both, in behaviours of at most fourteen states, when the run
`ExecutorCancel` is given the constant as `TRUE`. What
the hypothesis gives is `QuietInv`: a call over its last publications keeps the
loop.

`BridgeProofs` proves, for any number of commands, turns and updates,
`OvershootHeld` (`OvershootIsBounded`) and `StragglersOnly`
(`OnlyStragglersOutlive`), from `BridgeAssumption` (finitely many commands, a
limit of at least one). The second is inductive with the types of the commands'
variables. The first is not: what is counted must include the commands that
have passed the test of the limit and are still being spawned (`RoomIsTaken`),
for each of them will be registered without another test.

`CallsIntroduced` (`ToolsAreIntroduced`), `NothingLost` (`NothingSaidIsLost`) and
`NewsTold` (`NewsGoesThrough`), in the same module, are for any calls, any
updates in any order and any limits. The three hold together with `TalkInv`:

* `MemoryInv`: while a turn is bound, what `_calls` has is exactly the calls
  that count as the first `MaxToolCalls` the turn heard of (`Folded`), each once,
  and all it heard of while there is room;
* `SpeakInv`: what an entry says of its call is true (`EntryInv`): of one not
  announced nothing was told, and its updates had nothing to tell; of one
  announced bare no update gave arguments; the arguments of the others were told.
  And a call past the limit was told of if the agent opened it.

`Entered` and `Introduces` say in one line each what `_fold` makes of an entry
and when it tells a `ToolUse`; `FoldIs` shows that the code's branches come to
that, and `Landed` where what is told of one update ends up. The flush at the
end of a turn is a sequence indexed by rank; `NthIs` shows that each silent call
has exactly one rank.

Only model-checked: all liveness (`AdmissionEnds`, `DoomedRunEnds`, `TurnsEnd`
and the session's), which is out of the prover's reach. `FinalStays`,
`PartialIsNotPresented` and `RetiredIsNotReused` are violated. Every other
property that a run checks is a theorem. `ClaudeTurns` and `PlanTracker` are written for that: what is left of
the ids of a deleted task is told by the ranks of those that stay
(`OtherNames`), and how many steps were made since a step by a cardinality
(`Latest`), for the prover knows nothing of `SelectSeq`, whose definition is
recursive.

Each module has one type invariant, `TypeOK`, and no run lists it: that of
`Session`, of `AgentPool` and of `ResponseStream` is proved, as part of their
inductive invariants, and the types `Executor`, `ClaudeTurns` and `Lifespan` need
are in `BaseInv`, `CourseInv` with `WorkInv`, and `LifeInv`.

## 5. Not modelled

* `Terminal`'s reader with the bounded tail of the output, and `wait()` against
  the `kill()` and `close()` that await, and cancel, the same reader: `Bridge`
  has the process and not its reader.
* The file requests of `_BridgeClient` with the path confinement behind them,
  and the rest of `events_from_update`: one answer for one request, without
  state; likewise `EchoBackend`'s texts.
* Rendering (diffs, descriptions, the wording of attachments), the agent card,
  authentication, the command line and tracing have no state that changes.
* The A2A SDK, the ACP library, the Claude SDK and the operating system are
  external, modelled from how the code uses them.

What would add most from here: the reader of `Terminal` as part of `Bridge`.
