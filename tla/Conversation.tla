---------------------------- MODULE Conversation ----------------------------
(***************************************************************************)
(* What a BackendSession promises the executor, with none of its queue,    *)
(* futures and tasks: the run's items are heard in the order they were     *)
(* said, none twice and none skipped; a prompt, once heard, holds back     *)
(* everything after it until it is settled; and a run says nothing after   *)
(* its sentinel.                                                           *)
(***************************************************************************)
EXTENDS SessionState

VARIABLES said,    \* the items the run has said
          heard,   \* how many of them the consumer has heard
          open     \* the prompt the consumer was given and has not settled

Init == said = <<>> /\ heard = 0 /\ open = NoRequest

Ended == said # <<>> /\ said[Len(said)] = Sentinel

Say == /\ ~Ended
       /\ \/ \E item \in Items : said' = Append(said, item)
          \/ said' = Append(Append(said, Failure), Sentinel)
       /\ UNCHANGED <<heard, open>>

Hear == /\ open = NoRequest
        /\ heard < Len(said)
        /\ heard' = heard + 1
        /\ open' = said[heard'].id
        /\ UNCHANGED said

\* The prompt is answered, or its consumer goes away.
Settle == /\ open # NoRequest
          /\ open' = NoRequest
          /\ UNCHANGED <<said, heard>>

Next == Say \/ Hear \/ Settle

Spec == Init /\ [][Next]_<<said, heard, open>>
=============================================================================
