------------------------------- MODULE Bridge -------------------------------
(***************************************************************************)
(* _BridgeClient in src/a2acode/backends/acp.py with the processes of      *)
(* terminal.py: what one ACP connection carries over the turns it is bound *)
(* for.  A turn (drive, module AgentPool) binds the client to its session, *)
(* runs, and unbinds it; the next one does so when that is over, since     *)
(* both hold the agent's lock.  The agent sends what it likes when it      *)
(* likes; each of its messages is handled in a task of its own.            *)
(*                                                                         *)
(* A step is the code between two suspension points.  session_update and   *)
(* flush_tool_calls have none, the session's queue being unbounded: they   *)
(* never find the lock _updates taken, and updates are folded in the order *)
(* they arrive.  create_terminal has two, the caller's decision and spawn. *)
(*                                                                         *)
(* External: the agent, which opens a call at most once in a turn and      *)
(* before it goes on with it; the caller; the processes.                   *)
(***************************************************************************)
EXTENDS ToolCalls

CONSTANTS Commands,       \* terminal/create requests the agent may send
          MaxTerminals,   \* _MAX_TERMINALS
          MaxTurns,       \* bound: turns of the connection
          MaxUpdates      \* bound: tool call updates in a turn

ASSUME BridgeAssumption == /\ IsFiniteSet(Commands)
                           /\ MaxTerminals \in Nat \ {0}
                           /\ MaxTurns \in Nat /\ MaxUpdates \in Nat

VARIABLES phase,       \* what drive() is doing with the client
          turn,        \* turns so far
          calls,       \* _tool_calls
          heard,       \* history: the turn's updates
          told,        \* history: what the turn's session was told of them
          handler,     \* the create_terminal of each command
          process,     \* its process
          terminals,   \* _terminals
          closing,     \* the terminals unbind took
          late,        \* history: registered while nothing was bound, until the next unbind
          dropped,     \* history: taken by an unbind cancelled before its closes
          peak         \* history: the most commands being spawned at once

turnVars     == <<calls, heard, told>>
terminalVars == <<handler, process, terminals, late, peak>>
vars == <<phase, turn, turnVars, terminalVars, closing, dropped>>

Phases == {"between",     \* nothing bound, nobody in unbind
           "bound",
           "unbinding",   \* in gather; the closes have not begun
           "reaping"}     \* every process was killed; waiting for it to be gone

Handlers == {"idle",
             "asking",     \* waiting for the caller's decision
             "spawning",   \* awaiting spawn
             "open",       \* answered with a terminal id
             "over"}       \* answered with an error

Spawning == {c \in Commands : handler[c] = "spawning"}

Init == /\ phase = "between"
        /\ turn = 0
        /\ calls = <<>> /\ heard = <<>> /\ told = <<>>
        /\ handler = [c \in Commands |-> "idle"]
        /\ process = [c \in Commands |-> "none"]
        /\ terminals = {} /\ closing = {} /\ late = {} /\ dropped = {}
        /\ peak = 0
-----------------------------------------------------------------------------
(***************************************************************************)
(* The turn.                                                               *)
(***************************************************************************)
Bind == /\ phase = "between"
        /\ turn < MaxTurns
        /\ phase' = "bound"
        /\ turn' = turn + 1
        /\ calls' = <<>>
        /\ UNCHANGED <<heard, told, terminalVars, closing, dropped>>

\* _run_turn returned or raised: the calls it heard of are flushed, and unbind
\* runs up to its gather.  A second flush finds nothing (drive's finally).
EndTurn == /\ phase = "bound"
           /\ phase' = "unbinding"
           /\ told' = told \o Flush(calls).told
           /\ calls' = <<>>
           /\ closing' = terminals
           /\ terminals' = {}
           /\ late' = late \ terminals
           /\ UNCHANGED <<turn, heard, handler, process, dropped, peak>>

Killed(killed) == [c \in Commands |->
                     IF c \in killed /\ process[c] = "running" THEN "over"
                     ELSE process[c]]

\* The tasks gather made take their first step, up to the wait for the reader.
CloseAll == /\ phase = "unbinding"
            /\ phase' = "reaping"
            /\ process' = Killed(closing)
            /\ UNCHANGED <<turn, turnVars, handler, terminals, late, peak,
                           closing, dropped>>

\* The turn's histories are of no more use.
Unbound == /\ phase' = "between"
           /\ closing' = {}
           /\ heard' = <<>> /\ told' = <<>>
           /\ UNCHANGED <<turn, calls, terminalVars>>

\* All are gone, or were waited for long enough (_REAP_TIMEOUT).
UnbindEnds == phase = "reaping" /\ Unbound /\ UNCHANGED dropped

\* drive() is cancelled in unbind, and gather with it.  A task cancelled
\* before its first step never enters close().
UnbindCancelled == /\ phase \in {"unbinding", "reaping"}
                   /\ Unbound
                   /\ dropped' = IF phase = "unbinding" THEN dropped \cup closing
                                 ELSE dropped
-----------------------------------------------------------------------------
(***************************************************************************)
(* The agent's updates of its tool calls.  Between turns session_update    *)
(* returns at once; one sent in a turn may well arrive in the next.        *)
(***************************************************************************)
SessionUpdate(u) ==
  /\ phase = "bound"
  /\ Len(heard) < MaxUpdates
  /\ u.start => \A i \in DOMAIN heard : heard[i].call # u.call
  /\ LET fold == Fold(calls, u, Len(heard) + 1)
     IN calls' = fold.calls /\ told' = told \o fold.told
  /\ heard' = Append(heard, u)
  /\ UNCHANGED <<phase, turn, terminalVars, closing, dropped>>
-----------------------------------------------------------------------------
(***************************************************************************)
(* The agent's commands.                                                   *)
(***************************************************************************)
\* What everything about commands leaves alone.
TurnAside == <<phase, turn, turnVars, closing, dropped>>

\* create_terminal, up to the caller's decision; with nothing bound it is a
\* denial.
CreateTerminal(c) ==
  /\ handler[c] = "idle"
  /\ handler' = [handler EXCEPT ![c] = IF phase = "bound" THEN "asking" ELSE "over"]
  /\ UNCHANGED <<process, terminals, late, peak, TurnAside>>

\* slip: the limit is one too many.
BugAllowed(c) ==
  /\ handler[c] = "asking"
  /\ handler' = [handler EXCEPT ![c] = IF Cardinality(terminals) > MaxTerminals
                                       THEN "over" ELSE "spawning"]
  /\ peak' = IF Cardinality(Spawning') > peak THEN Cardinality(Spawning') ELSE peak
  /\ UNCHANGED <<process, terminals, late, TurnAside>>

\* The caller decides on the session that was bound when it was asked, which
\* may have ended meanwhile.  The limit is looked at before spawn is awaited.
Allowed(c) ==
  /\ handler[c] = "asking"
  /\ handler' = [handler EXCEPT ![c] = IF Cardinality(terminals) >= MaxTerminals
                                       THEN "over" ELSE "spawning"]
  /\ peak' = IF Cardinality(Spawning') > peak THEN Cardinality(Spawning') ELSE peak
  /\ UNCHANGED <<process, terminals, late, TurnAside>>

\* Denied; or close() of the session cancelled the wait; or spawn failed, as
\* it does for a working directory outside the workspace.
Refused(c) == /\ handler[c] \in {"asking", "spawning"}
              /\ handler' = [handler EXCEPT ![c] = "over"]
              /\ UNCHANGED <<process, terminals, late, peak, TurnAside>>

\* spawn returned: the terminal is registered, whatever is bound by now.
Spawned(c) == /\ handler[c] = "spawning"
              /\ handler' = [handler EXCEPT ![c] = "open"]
              /\ process' = [process EXCEPT ![c] = "running"]
              /\ terminals' = terminals \cup {c}
              /\ late' = IF phase = "bound" THEN late ELSE late \cup {c}
              /\ UNCHANGED <<peak, TurnAside>>

Exits(c) == /\ process[c] = "running"
            /\ process' = [process EXCEPT ![c] = "over"]
            /\ UNCHANGED <<handler, terminals, late, peak, TurnAside>>

\* kill_terminal: the terminal stays, for its output.
KillTerminal(c) == /\ c \in terminals
                   /\ process' = Killed({c})
                   /\ UNCHANGED <<handler, terminals, late, peak, TurnAside>>

\* slip: popped and not closed.
BugRelease(c) == /\ c \in terminals
                 /\ terminals' = terminals \ {c}
                 /\ UNCHANGED <<handler, process, late, peak, TurnAside>>

\* release_terminal: popped and closed, which kills in the same step.
ReleaseTerminal(c) == /\ c \in terminals
                      /\ terminals' = terminals \ {c}
                      /\ process' = Killed({c})
                      /\ UNCHANGED <<handler, late, peak, TurnAside>>

Command(c) == \/ CreateTerminal(c) \/ Allowed(c) \/ Refused(c) \/ Spawned(c)
              \/ Exits(c) \/ KillTerminal(c) \/ ReleaseTerminal(c)

Next == \/ Bind \/ EndTurn \/ CloseAll \/ UnbindEnds \/ UnbindCancelled
        \/ \E u \in Updates : SessionUpdate(u)
        \/ \E c \in Commands : Command(c)

Spec == Init /\ [][Next]_vars
-----------------------------------------------------------------------------
\* Every variable has its type; in particular no more calls are remembered
\* than the bound, each once.
TypeOK ==
  /\ phase \in Phases /\ turn \in 0..MaxTurns
  /\ calls \in Seq(Remembered) /\ Len(calls) <= MaxToolCalls
  /\ \A i, j \in DOMAIN calls : calls[i].call = calls[j].call => i = j
  /\ heard \in Seq(Updates) /\ Len(heard) <= MaxUpdates
  /\ handler \in [Commands -> Handlers]
  /\ process \in [Commands -> {"none", "running", "over"}]
  /\ terminals \subseteq Commands /\ closing \subseteq Commands
  /\ late \subseteq Commands /\ dropped \subseteq Commands
  /\ peak \in 0..Cardinality(Commands)

Ending == phase \in {"unbinding", "reaping"}

HeardBefore(i) == {heard[k].call : k \in 1..(i - 1)}

\* The calls among the first MaxToolCalls the turn heard of.
Folded(c) == \E i \in DOMAIN heard : /\ heard[i].call = c
                                     /\ Cardinality(HeardBefore(i) \ {c}) < MaxToolCalls
                                     /\ c \notin HeardBefore(i)

IsTold(c) == \E k \in DOMAIN told : told[k].call = c

\* Where the caller is told of a call by a ToolUse.
UsesOf(c) == {k \in DOMAIN told : told[k].call = c /\ told[k].kind = "use"}

\* What a caller is told of a call the turn remembers begins with a ToolUse;
\* there is at most one more, and only to give a bare one its arguments,
\* whatever comes first: arguments, a diff, an outcome or the end of the turn.
ToolsAreIntroduced ==
  \A c \in Calls : Folded(c) =>
    /\ \A k \in DOMAIN told : told[k].call = c => \E j \in UsesOf(c) : j <= k
    /\ \A j, k \in UsesOf(c) :
         j < k => told[j] = Use(c, FALSE) /\ told[k] = Use(c, TRUE)

\* When a turn is over, however it ended, its caller was told of every call
\* it remembers, and of the arguments of each that gave some, even when they
\* came after the outcome; past the bound, of every call the agent opened.
NothingSaidIsLost ==
  Ending => \A i \in DOMAIN heard :
    LET u == heard[i]
    IN /\ Folded(u.call) \/ u.start => IsTold(u.call)
       /\ Folded(u.call) /\ u.args => \E k \in DOMAIN told : told[k] = Use(u.call, TRUE)

\* A diff or an outcome is told at once, once, in the order the agent sent
\* them, past the bound too; neither a ToolUse that carries it nor the
\* correction that follows holds it back or tells it again.
NewsGoesThrough ==
  LET carriers == {i \in DOMAIN heard : heard[i].content = "news"}
      news     == {k \in DOMAIN told : told[k].kind = "news"}
  IN /\ \A k \in news : \E i \in carriers : told[k] = News(heard[i].call, i)
     /\ \A i \in carriers : \E k \in news : told[k] = News(heard[i].call, i)
     /\ \A j, k \in news : j < k => told[j].from < told[k].from

\* Whatever runs is a terminal of the turn, or about to be killed by its
\* unbind; the exceptions are a command whose spawn outlasted its turn, which
\* the unbind of the next turn kills, and one whose unbind was cancelled
\* before it began to close, which nothing does.
OnlyStragglersOutlive ==
  \A c \in Commands : process[c] = "running" =>
    \/ c \in terminals /\ (phase = "bound" \/ c \in late)
    \/ c \in closing /\ phase = "unbinding"
    \/ c \in dropped

\* The limit is tested before spawn is awaited, so it may be overshot, but by
\* no more than the commands that were being spawned at once.
OvershootIsBounded == Cardinality(terminals) <= MaxTerminals - 1 + peak
=============================================================================
