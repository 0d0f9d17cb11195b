------------------------------ MODULE ToolCalls ------------------------------
(***************************************************************************)
(* The tool calls of one turn, _ToolCalls in src/a2acode/backends/acp.py,  *)
(* as operators on the value of _calls, with events_from_update behind     *)
(* them: what the caller is told when an update of a call arrives.         *)
(*                                                                         *)
(* An update opens a call (ToolCallStart) or goes on with it; it may carry *)
(* arguments (a raw_input that is a mapping and not empty), and it may     *)
(* carry news: a diff, or a terminal status.  "text" is content that is    *)
(* neither: it is worth announcing a call for, and is then not told.       *)
(***************************************************************************)
EXTENDS Naturals, Sequences, FiniteSets

CONSTANTS Calls,         \* tool call ids
          MaxToolCalls   \* _MAX_TOOL_CALLS

ASSUME ToolCallsAssumption == MaxToolCalls \in Nat

Updates == [call : Calls, start : BOOLEAN, args : BOOLEAN,
            content : {"none", "text", "news"}]

\* What the caller is told: a ToolUse, with arguments or bare, or the news
\* that the n-th update of the turn carried (FileChange, ToolResult).
Use(c, args) == [kind |-> "use", call |-> c, args |-> args]
News(c, n)   == [kind |-> "news", call |-> c, from |-> n]

\* What _calls holds of a call, in the order the calls were first heard of.
\* raw_input is held from an update only to the ToolUse it leads to, which
\* is yielded for that same update, so it is not part of the state.
Remembered == [call : Calls, announced : BOOLEAN, bare : BOOLEAN]

Known(calls, c) == \E i \in DOMAIN calls : calls[i].call = c

Entry(calls, c) == CHOOSE i \in DOMAIN calls : calls[i].call = c
-----------------------------------------------------------------------------
\* events_from_update on an update as it came.
Mapped(u, n) ==
  (IF u.start THEN <<Use(u.call, u.args)>> ELSE <<>>)
    \o (IF u.content = "news" THEN <<News(u.call, n)>> ELSE <<>>)

\* setdefault: a call not heard of before takes its place at the end.
Opened(calls, c) ==
  IF Known(calls, c) THEN calls
  ELSE Append(calls, [call |-> c, announced |-> FALSE, bare |-> FALSE])

\* slip: the correction is the whole update over again.
BugReplay(calls, u, n) ==
  LET i       == Entry(calls, u.call)
      correct == calls[i].bare /\ u.args
  IN [calls |-> IF correct THEN [calls EXCEPT ![i].bare = FALSE] ELSE calls,
      told  |-> (IF correct THEN Mapped([u EXCEPT !.start = TRUE], n) ELSE <<>>)
                  \o Mapped(u, n)]

\* slip: an announced call is not corrected.
BugNoCorrection(calls, u, n) == [calls |-> calls, told |-> Mapped(u, n)]

\* _fold of an update of a call that has been announced.
Completed(calls, u, n) ==
  LET i       == Entry(calls, u.call)
      correct == calls[i].bare /\ u.args
  IN [calls |-> IF correct THEN [calls EXCEPT ![i].bare = FALSE] ELSE calls,
      told  |-> (IF correct THEN <<Use(u.call, TRUE)>> ELSE <<>>) \o Mapped(u, n)]

\* slip: the update that ends the wait is mapped as it came.
BugAnnounced(calls, u, n) ==
  IF ~u.args /\ u.content = "none" THEN [calls |-> calls, told |-> <<>>]
  ELSE [calls |-> [calls EXCEPT ![Entry(calls, u.call)] =
                     [call |-> u.call, announced |-> TRUE, bare |-> ~u.args]],
        told  |-> Mapped(u, n)]

\* _fold of an update of a call that has not: with nothing to say yet, it
\* waits; otherwise what it says is told behind the ToolUse.
Announced(calls, u, n) ==
  IF ~u.args /\ u.content = "none" THEN [calls |-> calls, told |-> <<>>]
  ELSE [calls |-> [calls EXCEPT ![Entry(calls, u.call)] =
                     [call |-> u.call, announced |-> TRUE, bare |-> ~u.args]],
        told  |-> Mapped([u EXCEPT !.start = TRUE], n)]

\* _fold: past the bound an update is mapped as it came, and forgotten.
Fold(calls, u, n) ==
  IF ~Known(calls, u.call) /\ Len(calls) >= MaxToolCalls
  THEN [calls |-> calls, told |-> Mapped(u, n)]
  ELSE LET held == Opened(calls, u.call)
       IN IF held[Entry(held, u.call)].announced
          THEN Completed(held, u, n) ELSE Announced(held, u, n)

\* The k-th of a set of numbers.
Nth(S, k) == CHOOSE i \in S : Cardinality({j \in S : j < i}) = k - 1

\* flush: the calls the agent never said more about, announced bare, in order.
Flush(calls) ==
  LET silent == {i \in DOMAIN calls : ~calls[i].announced}
  IN [calls |-> [i \in DOMAIN calls |->
                   IF i \in silent THEN [calls[i] EXCEPT !.announced = TRUE, !.bare = TRUE]
                   ELSE calls[i]],
      told  |-> [k \in 1..Cardinality(silent) |->
                   Use(calls[Nth(silent, k)].call, FALSE)]]
=============================================================================
