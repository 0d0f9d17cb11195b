---------------------------- MODULE ResponseStream ----------------------------
(***************************************************************************)
(* One task of ClaudeCodeExecutor (src/a2acode/executor.py) as its caller  *)
(* sees it: the message that opens a run, what _pump publishes of the run  *)
(* over its pauses (the _Stream of the task), and the messages that answer *)
(* the pauses.  Module Executor has the same task among others, with its   *)
(* events all of one kind.                                                 *)
(*                                                                         *)
(* A handler of _pump is one step up to the first event it publishes, and  *)
(* one step for each: publishing may suspend, and while it does the task   *)
(* may be cancelled or its session evicted.                                *)
(*                                                                         *)
(* External: the agent's events come in any order; the task's store keeps  *)
(* an artifact as the A2A SDK does: a chunk with append set is added to an *)
(* artifact that is there and dropped if there is none, one without it     *)
(* replaces what is there.                                                 *)
(***************************************************************************)
EXTENDS Attachments, Verdict

CONSTANTS Openings,     \* messages that open a run: sequences of parts
          Offers,       \* options an agent may offer with a request
          Replies,      \* texts that answer it
          Entries,      \* answers sent along
          Plans,        \* what an agent's plan may be rendered as
          EmptyPlan,    \* an emptied plan
          NoPlan,       \* no plan artifact
          MaxTexts,     \* bounds on what the agent says and asks in the task,
          MaxThoughts,
          MaxPlans,
          MaxAsides,
          MaxAsks,
          MaxStreams,   \* and on the _Stream objects it takes
          ReusesLeft    \* is a run started over a stream that an evicted run
                        \* left in _streams?

ASSUME StreamAssumption ==
  /\ EmptyPlan \in Plans /\ NoPlan \notin Plans
  /\ {MaxTexts, MaxThoughts, MaxPlans, MaxAsides, MaxAsks} \subseteq Nat
  /\ MaxStreams \in Nat \ {0}
  /\ ReusesLeft \in BOOLEAN

ASSUME OpeningsAssumption == Openings \subseteq Seq(AnyPart)

\* An agent names the options of one request apart.
ASSUME OffersAssumption ==
  \A offered \in Offers :
    /\ Len(offered) \in Nat
    /\ \A i \in 1..Len(offered) : /\ offered[i].kind \in Kinds
                                  /\ offered[i].id # NoOption
    /\ \A i, j \in 1..Len(offered) : offered[i].id = offered[j].id => i = j

VARIABLES phase,     \* where the task's call is
          opening,   \* the message that opens the run, while it is read
          answer,    \* the message that answers a pause, while it is read
          stream,    \* the _Stream of the pump
          entry,     \* _streams: the number of the task's stream, 0 for none
          jobs,      \* what the handler at work has yet to publish
          live,      \* is the session in _live?
          evicted,   \* session.evicted
          heard,     \* history: what the run's agent said since the pump has
                     \* its stream: texts, thoughts, latest plan and result
          spent,     \* bound: how much the agent said and asked
          kept,      \* the caller's copy of each stream's artifacts
          status,    \* the last state of the task it was told
          final      \* the text and the metadata of the completion

vars == <<phase, opening, answer, stream, entry, jobs, live, evicted, heard,
          spent, kept, status, final>>

Streams == 1..MaxStreams

Phases == {"opening",      \* execute has read the message
           "draining",     \* on session.drain()
           "publishing",   \* in the loop over it, publishing
           "paused",       \* nobody is at the task
           "answering",    \* the answer is read, `working` being published
           "finishing",    \* past the loop, publishing
           "over"}

Nothing == [read |-> FALSE]

\* _Stream(artifact_id): number stands for its artifact ids.
NewStream(n) == [number      |-> n,
                 chunks      |-> <<>>,
                 pending     |-> <<>>,
                 sentFirst   |-> FALSE,
                 sentThought |-> FALSE,
                 planShown   |-> FALSE,
                 metadata    |-> 0]

Unheard == [said |-> <<>>, thought |-> <<>>, plan |-> NoPlan, result |-> 0]

Absent == [there |-> FALSE, text |-> <<>>, closed |-> FALSE]
Nil    == [response |-> Absent, thinking |-> Absent, plan |-> NoPlan]

NotSpent == [texts |-> 0, thoughts |-> 0, plans |-> 0, asides |-> 0, asks |-> 0,
             results |-> 0, streams |-> 0]

Init == /\ phase = "over"
        /\ opening = Nothing /\ answer = Nothing
        /\ stream = NewStream(0)
        /\ entry = 0
        /\ jobs = <<>>
        /\ live = FALSE /\ evicted = FALSE
        /\ heard = Unheard
        /\ spent = NotSpent
        /\ kept = [n \in Streams |-> Nil]
        /\ status = "none"
        /\ final = Nothing

history == <<heard, spent>>
-----------------------------------------------------------------------------
(***************************************************************************)
(* execute: a message opens a run, or answers a pause.                     *)
(***************************************************************************)
\* A message to a new task, or to a paused one whose session was evicted.
Open(parts) ==
  /\ \/ status = "none"
     \/ phase = "paused" /\ ~live /\ (entry = 0 \/ ReusesLeft)
  /\ entry # 0 \/ spent.streams < MaxStreams
  /\ phase' = "opening"
  /\ opening' = [read |-> TRUE, parts |-> parts, built |-> Built(parts)]
  /\ status' = "working"
  /\ UNCHANGED <<answer, stream, entry, jobs, live, evicted, history, kept, final>>

\* _streams.setdefault: the entry's stream, or a new one.
Taken == IF entry # 0 THEN stream ELSE NewStream(spent.streams + 1)

TakeStream == /\ stream' = Taken
              /\ entry' = Taken.number
              /\ spent' = IF entry # 0 THEN spent
                          ELSE [spent EXCEPT !.streams = @ + 1]

\* The session is registered, and _pump begins.
Begin == /\ phase = "opening"
         /\ phase' = "draining"
         /\ opening' = Nothing
         /\ live' = TRUE /\ evicted' = FALSE
         /\ heard' = Unheard
         /\ TakeStream
         /\ UNCHANGED <<answer, jobs, kept, status, final>>

\* The caller decides; `working` is published before the decision is applied.
Answer(offered, text, entries) ==
  /\ phase = "paused" /\ live
  /\ phase' = "answering"
  /\ answer' = [read |-> TRUE, offered |-> offered, text |-> text,
                decision |-> Decision(text, entries, offered)]
  /\ status' = "working"
  /\ UNCHANGED <<opening, stream, entry, jobs, live, evicted, history, kept, final>>

\* It is applied, and the run pumped again.  A session evicted in the meantime
\* may still be winding down (the pump then takes a new stream), or have
\* nothing left to resolve.
Resume == /\ phase = "answering"
          /\ answer' = Nothing
          /\ \/ /\ entry # 0 \/ spent.streams < MaxStreams
                /\ phase' = "draining"
                /\ TakeStream
                /\ heard' = IF entry # 0 THEN heard ELSE Unheard
             \/ /\ ~live
                /\ phase' = "over"
                /\ UNCHANGED <<stream, entry, history>>
          /\ UNCHANGED <<opening, jobs, live, evicted, kept, status, final>>
-----------------------------------------------------------------------------
(***************************************************************************)
(* _pump: one handler for each kind of event.                              *)
(***************************************************************************)
Job(do, text, last, next) == [do |-> do, text |-> text, last |-> last,
                              next |-> next]

\* flush: a piece of the response, after which next is held back.
Flush(text, last, next) == Job("flush", text, last, next)
Tell(state) == Job(state, <<>>, FALSE, <<>>)

Spend(what) == spent' = [spent EXCEPT ![what] = @ + 1]

Publishes(list) == /\ jobs' = list
                   /\ phase' = IF list = <<>> THEN "draining" ELSE "publishing"

\* slip: the text held back is dropped when the next one comes
BugDrainText ==
  LET text == <<spent.texts + 1>>
  IN  /\ phase = "draining" /\ spent.texts < MaxTexts
      /\ Spend("texts")
      /\ heard' = [heard EXCEPT !.said = @ \o text]
      /\ stream' = [stream EXCEPT !.pending = text]
      /\ UNCHANGED <<phase, jobs, opening, answer, entry, live, evicted, kept,
                     status, final>>

\* TextDelta: one text is held back, so that the last can be sent as the last.
DrainText ==
  LET text == <<spent.texts + 1>>
  IN  /\ phase = "draining" /\ spent.texts < MaxTexts
      /\ Spend("texts")
      /\ heard' = [heard EXCEPT !.said = @ \o text]
      /\ IF stream.pending # <<>>
           THEN /\ stream' = [stream EXCEPT !.chunks = @ \o stream.pending]
                /\ Publishes(<<Flush(stream.pending, FALSE, text)>>)
           ELSE /\ stream' = [stream EXCEPT !.pending = text]
                /\ UNCHANGED <<phase, jobs>>
      /\ UNCHANGED <<opening, answer, entry, live, evicted, kept, status, final>>

DrainThought ==
  LET text == <<spent.thoughts + 1>>
  IN  /\ phase = "draining" /\ spent.thoughts < MaxThoughts
      /\ Spend("thoughts")
      /\ heard' = [heard EXCEPT !.thought = @ \o text]
      /\ Publishes(<<Job("think", text, FALSE, <<>>)>>)
      /\ UNCHANGED <<opening, answer, stream, entry, live, evicted, kept, status,
                     final>>

\* A plan replaces the one before; an emptied one is published only where
\* there is one to replace.
DrainPlan(body) ==
  /\ phase = "draining" /\ spent.plans < MaxPlans
  /\ Spend("plans")
  /\ heard' = [heard EXCEPT !.plan =
                  IF body = EmptyPlan /\ @ = NoPlan THEN NoPlan ELSE body]
  /\ stream' = [stream EXCEPT !.planShown = @ \/ body # EmptyPlan]
  /\ Publishes(IF body # EmptyPlan \/ stream.planShown
                 THEN <<Job("plan", body, TRUE, <<>>)>> ELSE <<>>)
  /\ UNCHANGED <<opening, answer, entry, live, evicted, kept, status, final>>

\* ToolUse, ToolResult and Notice are status lines, a FileChange an artifact of
\* its own: none touches the others.
DrainAside ==
  /\ phase = "draining" /\ spent.asides < MaxAsides
  /\ Spend("asides")
  /\ Publishes(<<Tell("working")>>)
  /\ UNCHANGED <<opening, answer, stream, entry, live, evicted, heard, kept,
                 status, final>>

\* PermissionRequest: all that was said is sent, then the caller is asked.
DrainAsk ==
  /\ phase = "draining" /\ spent.asks < MaxAsks
  /\ Spend("asks")
  /\ stream' = [stream EXCEPT !.chunks = @ \o stream.pending]
  /\ Publishes((IF stream.pending = <<>> THEN <<>>
                ELSE <<Flush(stream.pending, FALSE, <<>>)>>) \o <<Tell("input")>>)
  /\ UNCHANGED <<opening, answer, entry, live, evicted, heard, kept, status,
                 final>>

\* Result: one for a run, as a rule, but nothing here relies on it.
DrainResult ==
  /\ phase = "draining" /\ spent.results < MaxStreams
  /\ Spend("results")
  /\ stream' = [stream EXCEPT !.metadata = spent.results + 1]
  /\ heard' = [heard EXCEPT !.result = spent.results + 1]
  /\ UNCHANGED <<phase, jobs, opening, answer, entry, live, evicted, kept, status,
                 final>>

\* slip: a run that died leaves its stream
BugDrainError == /\ phase = "draining"
                 /\ phase' = "finishing"
                 /\ jobs' = <<Tell("failed")>>
                 /\ live' = FALSE
                 /\ UNCHANGED <<opening, answer, stream, entry, evicted, history,
                                kept, status, final>>

\* The run died: the session is discarded, and the task fails.
DrainError == /\ phase = "draining"
              /\ phase' = "finishing"
              /\ jobs' = <<Tell("failed")>>
              /\ entry' = 0 /\ live' = FALSE
              /\ UNCHANGED <<opening, answer, stream, evicted, history, kept,
                             status, final>>

\* slip: an artifact that nothing new goes to is left open
BugEnding == (IF stream.sentThought THEN <<Job("think", <<>>, TRUE, <<>>)>>
                                    ELSE <<>>)
             \o (IF stream.pending # <<>>
                   THEN <<Flush(stream.pending, TRUE, stream.pending)>>
                   ELSE <<>>)
             \o <<Tell("completed")>>

\* What is left to publish of a run that ended: the end of its thinking, the
\* text held back or the bare end of the response, and the completion.
Ending == (IF stream.sentThought THEN <<Job("think", <<>>, TRUE, <<>>)>>
                                 ELSE <<>>)
          \o (IF stream.pending # <<>>
                THEN <<Flush(stream.pending, TRUE, stream.pending)>>
              ELSE IF stream.sentFirst THEN <<Flush(<<>>, TRUE, <<>>)>>
              ELSE <<>>)
          \o <<Tell("completed")>>

\* The sentinel: an evicted run fails, any other is finished.
DrainEnd ==
  /\ phase = "draining"
  /\ phase' = "finishing"
  /\ jobs' = IF evicted THEN <<Tell("failed")>> ELSE Ending
  /\ stream' = IF evicted THEN stream
               ELSE [stream EXCEPT !.chunks = @ \o stream.pending]
  /\ UNCHANGED <<opening, answer, entry, live, evicted, history, kept, status, final>>
-----------------------------------------------------------------------------
(***************************************************************************)
(* Publishing.                                                             *)
(***************************************************************************)
\* slip: every chunk of the response sent as a new artifact
BugStored(artifact, text, append, last) ==
  [there |-> TRUE, text |-> text, closed |-> last]

\* The store: what a chunk does to an artifact.
Stored(artifact, text, append, last) ==
  CASE ~append         -> [there |-> TRUE, text |-> text, closed |-> last]
    [] append /\ artifact.there ->
         [artifact EXCEPT !.text = @ \o text, !.closed = @ \/ last]
    [] OTHER           -> artifact

\* What the caller has of stream n once the job is published.
KeptAfter(job, mine) ==
  CASE job.do = "flush" -> [mine EXCEPT !.response =
                              Stored(@, job.text, stream.sentFirst, job.last)]
    [] job.do = "think" -> [mine EXCEPT !.thinking =
                              Stored(@, job.text, stream.sentThought, job.last)]
    [] job.do = "plan"  -> [mine EXCEPT !.plan = job.text]
    [] OTHER            -> mine

States == {"working", "input", "completed", "failed"}

\* The event at the head is in the task's queue; sent_first and sent_thought
\* are set, and pending, only now.  A completion discards the session first.
Publish ==
  LET job == Head(jobs)
  IN  /\ phase \in {"publishing", "finishing"} /\ jobs # <<>>
      /\ jobs' = Tail(jobs)
      /\ kept' = [kept EXCEPT ![stream.number] = KeptAfter(job, @)]
      /\ stream' = [stream EXCEPT !.sentFirst   = @ \/ job.do = "flush",
                                  !.sentThought = @ \/ job.do = "think",
                                  !.pending     = IF job.do = "flush" THEN job.next
                                                  ELSE @]
      /\ status' = IF job.do \in States THEN job.do ELSE status
      /\ phase' = CASE job.do = "input" -> "paused"
                    [] job.do \in {"completed", "failed"} -> "over"
                    [] OTHER -> IF phase = "publishing" /\ Tail(jobs) = <<>>
                                  THEN "draining" ELSE phase
      /\ IF job.do = "completed"
           THEN /\ entry' = 0 /\ live' = FALSE
                /\ final' = [read |-> TRUE, text |-> stream.chunks,
                             metadata |-> stream.metadata]
           ELSE UNCHANGED <<entry, live, final>>
      /\ UNCHANGED <<opening, answer, evicted, history>>
-----------------------------------------------------------------------------
(***************************************************************************)
(* What comes in between.                                                  *)
(***************************************************************************)
\* Another task needs the slot: the session leaves both tables.
Evict == /\ live
         /\ evicted' = TRUE /\ live' = FALSE
         /\ entry' = 0
         /\ UNCHANGED <<phase, opening, answer, stream, jobs, history, kept,
                        status, final>>

\* tasks/cancel.  In the loop _pump tells the end, and where the session is
\* parked or in no table cancel() does; a run past the loop that still has its
\* session is told by neither.
Cancel == /\ phase # "over"
          /\ phase' = "over"
          /\ entry' = 0 /\ live' = FALSE
          /\ jobs' = <<>>
          /\ opening' = Nothing /\ answer' = Nothing
          /\ status' = IF phase = "finishing" /\ live THEN status ELSE "canceled"
          /\ UNCHANGED <<stream, evicted, history, kept, final>>

Next == \/ \E parts \in Openings : Open(parts)
        \/ Begin
        \/ \E offered \in Offers : \E text \in Replies : \E entries \in Entries :
             Answer(offered, text, entries)
        \/ Resume
        \/ DrainText \/ DrainThought \/ DrainAside \/ DrainAsk \/ DrainResult
        \/ \E body \in Plans : DrainPlan(body)
        \/ DrainError \/ DrainEnd
        \/ Publish
        \/ Evict \/ Cancel

Spec == Init /\ [][Next]_vars
-----------------------------------------------------------------------------
(***************************************************************************)
(* Properties.                                                             *)
(***************************************************************************)
\* Types: texts and thoughts are numbered as they come, a stream's number is
\* that of its artifacts.
Texts    == Seq(1..MaxTexts)
Thoughts == Seq(1..MaxThoughts)

TypeOK ==
  /\ phase \in Phases
  /\ entry \in {0, stream.number} /\ stream.number \in 0..MaxStreams
  /\ stream.chunks \in Texts /\ stream.pending \in Texts
  /\ live \in BOOLEAN /\ evicted \in BOOLEAN
  /\ heard.said \in Texts /\ heard.thought \in Thoughts
  /\ heard.plan \in Plans \cup {NoPlan}
  /\ \A n \in Streams : /\ kept[n].response.text \in Texts
                        /\ kept[n].thinking.text \in Thoughts
                        /\ kept[n].plan \in Plans \cup {NoPlan}
  /\ status \in States \cup {"none", "canceled"}

\* The caller's copy of what the pump publishes to now.
Shown == kept[stream.number]

InPump == phase \in {"draining", "publishing", "paused", "answering", "finishing"}

\* The caller is shown what the agent said, all of it and in its order, over
\* pauses, thoughts, plans and tools in between: it lags by the one text that
\* is held back and the one under way, and by nothing when it is asked for a
\* decision.  The checklist it sees is then the agent's last, an abandoned one
\* included (_pump: pending, flush, the plan's artifact).
ShownIsCurrent ==
  InPump =>
    LET sent == Shown.response.text
    IN  /\ sent = SubSeq(heard.said, 1, Len(sent))
        /\ Len(heard.said) - Len(sent) <= IF phase = "publishing" THEN 2 ELSE 1
        /\ phase \in {"paused", "answering"} => sent = heard.said
        /\ phase \in {"draining", "paused"} => Shown.plan = heard.plan

\* A completed task has the whole of the run in its completion message and in
\* its response, with the thinking beside it; both artifacts are closed, the
\* plan is the last one, and the metadata is the last result's.
CompletedIsWhole ==
  status = "completed" =>
    /\ final.text = heard.said /\ final.metadata = heard.result
    /\ Shown.response = [there  |-> heard.said # <<>>, text |-> heard.said,
                         closed |-> heard.said # <<>>]
    /\ Shown.thinking = [there  |-> heard.thought # <<>>, text |-> heard.thought,
                         closed |-> heard.thought # <<>>]
    /\ Shown.plan = heard.plan

\* What a run leaves in the tables once it is over: nothing, unless it was
\* evicted as its answer was applied, and then the stream its pump took.
LeftoversAreEvicted ==
  phase = "over" => ~live /\ (entry # 0 => evicted /\ status = "failed")

\* Each artifact of the task is what Artifact says one is.
Response(n) == INSTANCE Artifact WITH text   <- kept[n].response.text,
                                      closed <- kept[n].response.closed
Thinking(n) == INSTANCE Artifact WITH text   <- kept[n].thinking.text,
                                      closed <- kept[n].thinking.closed

\* The implementation of Artifact: over pauses, failures and evictions, nothing
\* that was shown of a response or of a thinking is taken back, and nothing is
\* added to one after its last chunk.
KeepsArtifacts ==
  /\ \A n \in Streams : Response(n)!Init /\ Thinking(n)!Init
  /\ [][\A n \in Streams : /\ Response(n)!Next \/ UNCHANGED kept[n].response
                           /\ Thinking(n)!Next \/ UNCHANGED kept[n].thinking]_kept

\* executor.py, _evict_if_full: a run that is evicted is failed "rather than
\* completing it with partial output".  What a completion presents was said by
\* the run that completed.
PartialIsNotPresented ==
  status = "completed" => final.text = heard.said
-----------------------------------------------------------------------------
(***************************************************************************)
(* What the two readings promise.                                          *)
(***************************************************************************)
\* The caller agreed: with an allow word that is the whole of its answer, or by
\* naming an option that was offered and allows.
Consents(text, offered) ==
  \/ text.begins = "allow" /\ ~text.more
  \/ /\ text.begins = "option"
     /\ \E i \in 1..Len(offered) : /\ offered[i].id = text.id
                                   /\ Allows(offered[i].kind)

KindOf(option, offered) ==
  IF option = NoOption THEN "cancelled"
  ELSE offered[CHOOSE i \in 1..Len(offered) : offered[i].id = option].kind

\* No agent is told to go ahead, and none is handed the caller's answers, unless
\* the caller agreed; what it named is what the ACP agent gets, a bare word gets
\* the narrowest grant on offer, and a refusal never one that allows.
ConsentIsExplicit ==
  answer.read =>
    LET agreed == Consents(answer.text, answer.offered)
        acp    == ToldACP(answer.decision, answer.offered)
        claude == ToldClaude(answer.decision, TRUE)
        kind   == KindOf(acp, answer.offered)
    IN  /\ Allows(kind) => agreed
        /\ Rejects(kind) => ~agreed
        /\ claude.allow = agreed
        /\ claude.answers > 0 \/ answer.decision.answers > 0 => agreed
        /\ answer.decision.answers <= MaxAnswers
        /\ Named(answer.text, answer.offered) # {} => acp = answer.text.id
        /\ /\ agreed /\ answer.text.begins = "allow"
           /\ OfKind(answer.offered, "allow_once") # {}
           => kind = "allow_once"

Total(attached, form) ==
  LET upTo[n \in 0..Len(attached)] ==
        IF n = 0 THEN 0
        ELSE upTo[n - 1] + IF attached[n].form = form THEN attached[n].size ELSE 0
  IN  upTo[Len(attached)]

\* The places of the attachments among the first n parts of a message.
Places(parts, n) == {i \in 1..n : IsAttached(parts[i])}

\* What remains for an attachment, after those before it.
Room(whole, before) ==
  IF whole.form = "text"
    THEN Lesser(MaxTextAttached, MaxTextTotal - Total(before, "text"))
  ELSE Lesser(MaxBinaryAttached, MaxBinaryTotal - Total(before, "binary"))

\* given presents as whole exactly what is whole, and is cut only for want of room.
IsFair(whole, given, before) ==
  /\ Form(given, TRUE) \in {"whole text", "image", "address", "size only"}
       <=> (whole.form = "link" \/ whole.size <= Room(whole, before))
  /\ ~given.truncated => given = whole
  /\ whole.form = "binary" => given.size \in {0, whole.size}

\* What the agent gets of a message stays within the allowances, has every
\* attachment of the message in its place, and presents as whole exactly what is
\* whole; something is cut or dropped only for want of room.
BudgetIsKept ==
  opening.read =>
    LET parts    == opening.parts
        attached == opening.built.attached
    IN  /\ Total(attached, "text") <= MaxTextTotal
        /\ Total(attached, "binary") <= MaxBinaryTotal
        /\ Len(attached) = Cardinality(Places(parts, Len(parts)))
        /\ \A i \in Places(parts, Len(parts)) :
             LET k == Cardinality(Places(parts, i))
             IN  IsFair(Received(parts[i]), attached[k], SubSeq(attached, 1, k - 1))
=============================================================================
