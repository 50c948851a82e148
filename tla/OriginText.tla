----------------------------- MODULE OriginText -----------------------------
(***************************************************************************)
(* The text of an origin document (lib/utils/origin-text.ts): what         *)
(* normalizing strips, composes and trims, and slices by code point.       *)
(*                                                                         *)
(* A text is a sequence of code points, and a code point is what the rules *)
(* tell apart.  Two stand for one code point each: "arrow" for U+2194, a   *)
(* pictograph that composes with a following "stroke" (U+0338) into        *)
(* "struck" (U+21AE), which is none.                                       *)
(***************************************************************************)
EXTENDS Integers, SequencesExt

LineBreak == {"cr", "nel"}
White == {"space", "lf"}
Visible == {"letter", "stroke", "struck", "pictograph", "arrow", "tone", "digit",
            "ideograph", "mongolian"}
Removable == {"joiner", "selector", "mongolianSelector", "tag", "control"}
CodePoint == LineBreak \cup White \cup Visible \cup Removable

\* The character classes the rules look at.
Pictograph == {"pictograph", "arrow"}
EmojiAdjacent == Pictograph \cup {"selector", "tone"}
SelectorBase == Pictograph \cup {"tone", "digit", "ideograph", "joiner", "selector", "tag"}
MongolianBase == {"mongolian", "mongolianSelector"}

\* Every form of line break becomes LF, a CR LF pair one.
foldLineBreaks(text) ==
    LET kept == {i \in DOMAIN text :
                    ~(text[i] = "lf" /\ i > 1 /\ text[i - 1] = "cr")}
        unix(c) == IF c \in LineBreak THEN "lf" ELSE c
    IN  [n \in 1 .. Len(SetToSortSeq(kept, <)) |-> unix(text[SetToSortSeq(kept, <)[n]])]

\* Whether a removable character does its work where it sits, after what has
\* been emitted and before next.
isLegitimateInContext(emitted, c, next) ==
    LET last(s) == IF s = <<>> THEN "none" ELSE s[Len(s)]
        before  == last(emitted)
        base    == SelectLastInSeq(emitted, LAMBDA x : x # "tag")
    IN  \/ c = "joiner" /\ (before \in EmojiAdjacent \/ next \in EmojiAdjacent \ Removable)
        \/ c = "selector" /\ before \in SelectorBase
        \/ c = "mongolianSelector" /\ before \in MongolianBase
        \/ c = "tag" /\ base # 0 /\ emitted[base] \in Pictograph

stripInvisibleCharacters(text) ==
    LET emitted[n \in 0 .. Len(text)] ==
            IF n = 0 THEN <<>>
            ELSE LET prev == emitted[n - 1]
                     next == IF n < Len(text) THEN text[n + 1] ELSE "none"
                 IN  IF text[n] \in Removable /\ ~isLegitimateInContext(prev, text[n], next)
                     THEN prev ELSE Append(prev, text[n])
    IN  emitted[Len(text)]

\* NFC, as far as it composes code points the rules tell apart.
compose(text) ==
    LET composed[n \in 0 .. Len(text)] ==
            IF n = 0 THEN <<>>
            ELSE LET prev == composed[n - 1]
                 IN  IF text[n] = "stroke" /\ prev # <<>> /\ prev[Len(prev)] = "arrow"
                     THEN Append(Front(prev), "struck")
                     ELSE Append(prev, text[n])
    IN  composed[Len(text)]

trim(text) ==
    LET inked == {i \in DOMAIN text : text[i] \notin White}
    IN  IF inked = {} THEN <<>>
        ELSE SubSeq(text, CHOOSE i \in inked : \A j \in inked : i <= j,
                          CHOOSE i \in inked : \A j \in inked : j <= i)

normalizeOriginText(text) ==
    trim(compose(stripInvisibleCharacters(foldLineBreaks(text))))

isNormalized(text) == normalizeOriginText(text) = text

\* Code points from (inclusive) to (exclusive), counted from 0.
sliceByCodePoints(text, from, to) == SubSeq(text, from + 1, to)
=============================================================================
