------------------------------ MODULE Attachments ------------------------------
(***************************************************************************)
(* The message that opens a run: how _build_input (src/a2acode/executor.py) *)
(* splits it into prompt text and attachments within the allowance of       *)
(* _Budget, and in which form each attachment reaches the agent             *)
(* (backends/attach.py, prompt_blocks in backends/acp.py).                  *)
(*                                                                         *)
(* Contents are sizes.  A part of a message says what it is: words, a link, *)
(* structured data, or a file whose media type is textual or not and whose  *)
(* bytes do or do not decode.                                               *)
(***************************************************************************)
EXTENDS Naturals, Sequences, FiniteSets

CONSTANTS MaxTextAttached,    \* _MAX_TEXT_ATTACHED
          MaxTextTotal,       \* _MAX_TEXT_TOTAL
          MaxBinaryAttached,  \* _MAX_BINARY_ATTACHED
          MaxBinaryTotal      \* _MAX_BINARY_TOTAL

ASSUME AllowanceAssumption ==
  /\ MaxTextAttached \in Nat /\ MaxTextTotal \in Nat
  /\ MaxBinaryAttached \in Nat /\ MaxBinaryTotal \in Nat

\* image: whether the media type starts with image/.
Part(kind, size, textual, decodes, image) ==
  [kind |-> kind, size |-> size, textual |-> textual, decodes |-> decodes,
   image |-> image]

AnyPart == [kind : {"text", "url", "raw", "data", "other"}, size : Nat,
            textual : BOOLEAN, decodes : BOOLEAN, image : BOOLEAN]

Attachment(form, size, image) ==
  [form |-> form, size |-> size, image |-> image, truncated |-> FALSE]

\* _from_raw, _from_data and the url branch: declared text that does not decode
\* is the bytes that it is.
Received(part) ==
  CASE part.kind = "url"  -> Attachment("link", 0, part.image)
    [] part.kind = "data" -> Attachment("text", part.size, FALSE)
    [] part.kind = "raw"  -> Attachment(
         IF part.textual /\ part.decodes THEN "text" ELSE "binary",
         part.size, part.image)

Allowance == [text |-> MaxTextTotal, binary |-> MaxBinaryTotal]

Lesser(m, n) == IF m <= n THEN m ELSE n

\* slip: an attachment of bytes cut, as text is
BugFit(left, a) ==
  LET cap == IF a.form = "text" THEN Lesser(left.text, MaxTextAttached)
             ELSE Lesser(left.binary, MaxBinaryAttached)
      kept == Lesser(a.size, cap)
  IN  IF a.form = "link" THEN [left |-> left, kept |-> a]
      ELSE [left |-> IF a.form = "text" THEN [left EXCEPT !.text = @ - kept]
                                        ELSE [left EXCEPT !.binary = @ - kept],
            kept |-> [a EXCEPT !.size = kept, !.truncated = a.size > cap]]

\* _Budget.fit: text is cut to what remains and charged; bytes that do not fit
\* are dropped whole, and cost nothing.  A link is not put to it.
Fit(left, a) ==
  LET cap == IF a.form = "text" THEN Lesser(left.text, MaxTextAttached)
             ELSE Lesser(left.binary, MaxBinaryAttached)
  IN  CASE a.form = "link" -> [left |-> left, kept |-> a]
        [] a.form = "text" ->
             [left |-> [left EXCEPT !.text = @ - Lesser(a.size, cap)],
              kept |-> [a EXCEPT !.size = Lesser(a.size, cap),
                                 !.truncated = a.size > cap]]
        [] a.form = "binary" /\ a.size > cap ->
             [left |-> left,
              kept |-> [a EXCEPT !.form = "dropped", !.size = 0,
                                 !.truncated = TRUE]]
        [] OTHER -> [left |-> [left EXCEPT !.binary = @ - a.size], kept |-> a]

\* Words go to the prompt, what _build_input does not know nowhere.
IsAttached(part) == part.kind \in {"url", "raw", "data"}

\* The loop of _build_input over the first n parts.
Built(parts) ==
  LET after[n \in 0..Len(parts)] ==
        IF n = 0 THEN [left |-> Allowance, texts |-> 0, attached |-> <<>>]
        ELSE LET before == after[n - 1]
                 part == parts[n]
             IN  IF IsAttached(part)
                   THEN LET fitted == Fit(before.left, Received(part))
                        IN  [before EXCEPT !.left = fitted.left,
                                           !.attached = Append(@, fitted.kept)]
                 ELSE IF part.kind = "text" /\ part.size > 0
                   THEN [before EXCEPT !.texts = @ + 1]
                 ELSE before
  IN  after[Len(parts)]

\* How the agent gets an attachment: as an image if it reads images and there
\* are bytes to show, else as the text of render.
Form(a, readsImages) ==
  IF readsImages /\ a.form = "binary" /\ a.size > 0 /\ a.image THEN "image"
  ELSE CASE a.form = "link"    -> "address"
         [] a.form = "text"    -> IF a.truncated THEN "excerpt" ELSE "whole text"
         [] a.form = "dropped" -> "too large"
         [] a.form = "binary"  -> "size only"
=============================================================================
