----------------------------- MODULE MCExtractJSON -----------------------------
(***************************************************************************)
(* Small texts for TLC, and the grammar of JSON on them.  The grammar is   *)
(* recursive and independent of the scanner.                               *)
(***************************************************************************)
EXTENDS ExtractJSON

CONSTANT MaxLen   \* bound on the length of texts

From(t, i) == SubSeq(t, i, Len(t))

\* plain characters, and a backslash with what it may escape
RECURSIVE IsBody(_)
IsBody(t) ==
    \/ t = <<>>
    \/ t[1] \notin {"quote", "backslash"} /\ IsBody(Tail(t))
    \/ Len(t) > 1 /\ t[1] = "backslash" /\ t[2] \in {"quote", "backslash"} /\ IsBody(From(t, 3))

Inside(t) == SubSeq(t, 2, Len(t) - 1)
IsString(t) ==
    Len(t) > 1 /\ t[1] = "quote" /\ t[Len(t)] = "quote" /\ IsBody(Inside(t))

RECURSIVE IsContent(_)
IsDocument(t) ==
    Len(t) > 1 /\ t[1] \in DOMAIN Close /\ t[Len(t)] = Close[t[1]] /\ IsContent(Inside(t))
IsContent(t) ==
    \/ t = <<>>
    \/ t[1] = "blank" /\ IsContent(Tail(t))
    \/ \E n \in 1..Len(t) :
          /\ IsString(SubSeq(t, 1, n)) \/ IsDocument(SubSeq(t, 1, n))
          /\ IsContent(From(t, n + 1))

\* documents only have blanks to lose, between their strings and brackets
RECURSIVE Squeeze(_)
Squeeze(t) ==
    IF t = <<>> THEN t
    ELSE IF t[1] = "blank" THEN Squeeze(Tail(t))
    ELSE LET n == CHOOSE k \in 1..Len(t) : (k = 1 /\ t[1] # "quote") \/ IsString(SubSeq(t, 1, k))
         IN  SubSeq(t, 1, n) \o Squeeze(From(t, n + 1))

\* every short text, and the longer ones that begin with a bracket and a string
SmallTexts ==
    UNION {[1..n -> Chars] : n \in 0..MaxLen}
        \cup {<<b, "quote">> \o t : b \in DOMAIN Close, t \in [1..MaxLen -> Chars]}

\* texts without strings
PlainTexts == UNION {[1..n -> {"{", "}", "prose"}] : n \in 0..MaxLen}
=============================================================================
