---------------------------- MODULE MCOriginText ----------------------------
(***************************************************************************)
(* Normalizing an origin text (OriginText), on every text of bounded       *)
(* length, a code point at a time.                                         *)
(***************************************************************************)
EXTENDS OriginText

CONSTANT MaxText     \* bound: the length of the texts

VARIABLE text

TextInit == text = <<>>
TextNext == Len(text) < MaxText /\ \E c \in CodePoint : text' = Append(text, c)
TextSpec == TextInit /\ [][TextNext]_text

\* "Idempotent" (origin-text.ts:154): normalizing twice gives what normalizing
\* once gives.  An application normalizes at its import boundary and the library
\* again, and every anchor is an offset into the result.
NormalizeIsIdempotent == isNormalized(normalizeOriginText(text))
=============================================================================
