------------------------------- MODULE Artifact -------------------------------
(***************************************************************************)
(* What a caller may rely on of an artifact that is streamed to it in      *)
(* chunks: what it has been given stays and is added to at the end, and    *)
(* after the last chunk nothing comes.                                     *)
(***************************************************************************)
EXTENDS Naturals, Sequences

VARIABLES text,    \* the pieces the caller has, in their order
          closed   \* whether it was told that it has all of them

Init == text = <<>> /\ closed = FALSE

Grows == /\ Len(text) <= Len(text')
         /\ SubSeq(text', 1, Len(text)) = text

Chunk     == ~closed /\ Grows /\ ~closed'
LastChunk == ~closed /\ Grows /\ closed'

Next == Chunk \/ LastChunk

Spec == Init /\ [][Next]_<<text, closed>>
=============================================================================
