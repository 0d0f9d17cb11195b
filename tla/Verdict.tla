-------------------------------- MODULE Verdict --------------------------------
(***************************************************************************)
(* The caller's answer to a permission request: what _verdict, _decision    *)
(* and _answers read from it (src/a2acode/executor.py), and what the agent  *)
(* is told: select_option and request_permission of ACP (backends/acp.py),  *)
(* can_use_tool and allowed_input of Claude (backends/claude.py).           *)
(*                                                                         *)
(* A text is what it begins with and what follows: nothing but . and !, or  *)
(* more words.  The text that names an option has the option's id.  Answers *)
(* to the agent's questions are a sequence that says of each entry whether  *)
(* it has a question and a choice that is not empty.                        *)
(***************************************************************************)
EXTENDS Naturals, Sequences, FiniteSets

CONSTANT MaxAnswers     \* _MAX_ANSWERS

ASSUME AnswersAssumption == MaxAnswers \in Nat

NoOption == "none"

\* The kinds ACP knows, one that only says its polarity, and none at all.
Kinds == {"allow_once", "allow_always", "allow_other",
          "reject_once", "reject_always", "unspecified"}
Allows(kind)  == kind \in {"allow_once", "allow_always", "allow_other"}
Rejects(kind) == kind \in {"reject_once", "reject_always"}

\* begins: "allow" for one of _ALLOW_WORDS, "option" for _OPTION_PREFIX.
Text(begins, more, id) == [begins |-> begins, more |-> more, id |-> id]

\* slip: an answer that begins with an allow word taken for consent
BugIsAllow(text) == text.begins = "allow"

\* text.rstrip(".!") in _ALLOW_WORDS: the whole answer, not its beginning.
IsAllow(text) == text.begins = "allow" /\ ~text.more

\* The options the answer names, as the id was sent.
Named(text, offered) ==
  {i \in 1..Len(offered) : /\ text.begins = "option" /\ text.id # NoOption
                           /\ offered[i].id = text.id}

First(indices) == CHOOSE i \in indices : \A j \in indices : i <= j

\* _verdict: an option that was offered, else allow or deny.
ReadVerdict(text, offered) ==
  IF Named(text, offered) # {}
    THEN LET option == offered[First(Named(text, offered))]
         IN  [allow |-> Allows(option.kind), option |-> option.id]
    ELSE [allow |-> IsAllow(text), option |-> NoOption]

\* _answers: how many of the first _MAX_ANSWERS entries are good.
Answered(entries) ==
  Cardinality({i \in 1..Len(entries) : i <= MaxAnswers /\ entries[i]})

\* _decision: only an approval carries what the caller answered.
Decision(text, entries, offered) ==
  LET verdict == ReadVerdict(text, offered)
  IN  [allow   |-> verdict.allow,
       option  |-> verdict.option,
       answers |-> IF verdict.allow THEN Answered(entries) ELSE 0]

OfKind(offered, kind) == {i \in 1..Len(offered) : offered[i].kind = kind}

\* select_option: the option named; else one of the right polarity, the one
\* that holds once before the one that stays; else none.
Selected(decision, offered) ==
  LET once   == IF decision.allow THEN "allow_once" ELSE "reject_once"
      always == IF decision.allow THEN "allow_always" ELSE "reject_always"
      right  == {i \in 1..Len(offered) :
                   IF decision.allow THEN Allows(offered[i].kind)
                                     ELSE Rejects(offered[i].kind)}
      best == IF OfKind(offered, once) # {} THEN OfKind(offered, once)
              ELSE IF OfKind(offered, always) # {} THEN OfKind(offered, always)
              ELSE right
  IN  IF \E i \in 1..Len(offered) : offered[i].id = decision.option
        THEN decision.option
      ELSE IF best # {} THEN offered[First(best)].id
      ELSE NoOption

\* What each agent is told: the ACP agent an option, or that the request is
\* cancelled; Claude that its tool may run, with the answers as part of its
\* input if it is the one tool that asks, or not.
ToldACP(decision, offered) == Selected(decision, offered)

ToldClaude(decision, asking) ==
  [allow   |-> decision.allow,
   answers |-> IF asking /\ decision.allow THEN decision.answers ELSE 0]
=============================================================================
