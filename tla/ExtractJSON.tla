------------------------------ MODULE ExtractJSON ------------------------------
(***************************************************************************)
(* ValidateWithFeedback and ExtractJSON (internal/schema/validator.go):    *)
(* how the model's answer becomes the JSON document that is validated.     *)
(*                                                                         *)
(* A text is a sequence of the characters that the scanner or json.Valid   *)
(* treats differently: brackets, quotes, backslashes, blanks, and prose,   *)
(* which is not JSON outside a string.  The scalars, colons and commas of  *)
(* a document are left out: the scanner passes over them.                  *)
(***************************************************************************)
EXTENDS Integers, Sequences

CONSTANTS
    Texts,       \* answers of the model
    Valid(_),    \* json.Valid: is it a document?
    Content(_),  \* may it stand between the brackets of a document,
    Body(_),     \* and between the quotes of a string?
    Compact(_)   \* json.Compact: the blanks outside strings go

Chars == {"{", "}", "[", "]", "quote", "backslash", "blank", "prose"}
Close == [c \in {"{", "["} |-> IF c = "{" THEN "}" ELSE "]"]

\* characters i to j of a text are a string
Quoted(t, i, j) ==
    i < j /\ t[i] = "quote" /\ t[j] = "quote" /\ Body(SubSeq(t, i + 1, j - 1))

\* The grammar of JSON that json.Valid implements, as far as it is needed: what a
\* document, the content of a document and the body of a string consist of.
ASSUME JSONGrammar ==
    /\ Texts \subseteq Seq(Chars)
    /\ \A t \in Texts : \A i \in 1..Len(t) + 1, j \in 0..Len(t) :
         /\ Valid(SubSeq(t, i, j)) =>
              /\ i < j /\ t[i] \in DOMAIN Close /\ t[j] = Close[t[i]]
              /\ Content(SubSeq(t, i + 1, j - 1))
         /\ Content(SubSeq(t, i, j)) =>
              \/ j < i
              \/ t[i] = "blank" /\ Content(SubSeq(t, i + 1, j))
              \/ \E n \in i..j : /\ Quoted(t, i, n) \/ Valid(SubSeq(t, i, n))
                                 /\ Content(SubSeq(t, n + 1, j))
         /\ Body(SubSeq(t, i, j)) =>
              \/ j < i
              \/ t[i] \notin {"quote", "backslash"} /\ Body(SubSeq(t, i + 1, j))
              \/ /\ i < j /\ t[i] = "backslash" /\ t[i + 1] \in {"quote", "backslash"}
                 /\ Body(SubSeq(t, i + 2, j))

VARIABLES
    raw,      \* the text
    pass,     \* what is tried next
    output,   \* ValidationResult.Output
    verdict   \* "none", "noJSON", "mismatch" or "valid"

vars == <<raw, pass, output, verdict>>

Init ==
    /\ raw \in Texts
    /\ pass = "objects"
    /\ output = <<>>
    /\ verdict = "none"

-----------------------------------------------------------------------------
(* The scanner *)

Places(c) == {i \in 1..Len(raw) : raw[i] = c}

\* strings.IndexByte, where there is one
First(S) == CHOOSE i \in S : \A j \in S : i <= j

\* One character: an escaped one is skipped, a backslash escapes only inside a
\* string, a quote opens or ends a string, and brackets of the wanted kind count
\* outside strings.
Step_NoEscape(m, ch, open) ==
    [depth    |-> m.depth + (IF m.inString THEN 0
                             ELSE IF ch = open THEN 1 ELSE IF ch = Close[open] THEN -1 ELSE 0),
     inString |-> IF ch = "quote" THEN ~m.inString ELSE m.inString,
     escaped  |-> FALSE]
Step(m, ch, open) ==
    [depth    |-> m.depth + (IF m.inString \/ m.escaped THEN 0
                             ELSE IF ch = open THEN 1 ELSE IF ch = Close[open] THEN -1 ELSE 0),
     inString |-> IF ch = "quote" /\ ~m.escaped THEN ~m.inString ELSE m.inString,
     escaped  |-> ch = "backslash" /\ m.inString /\ ~m.escaped]

\* the scanner's state after each character from start on
Walk(open, start) ==
    LET after[i \in start - 1..Len(raw)] ==
            IF i < start THEN [depth |-> 0, inString |-> FALSE, escaped |-> FALSE]
            ELSE Step(after[i - 1], raw[i], open)
    IN  after

\* the candidates, at which the depth comes back to zero, that are valid JSON
Ends(open, start) ==
    LET after == Walk(open, start)
    IN  {i \in start..Len(raw) : /\ after[i - 1].depth = 1 /\ after[i].depth = 0
                                 /\ Valid(SubSeq(raw, start, i))}

Accept(text) == output' = text /\ pass' = "schema" /\ UNCHANGED verdict

\* One turn of the outer loop
TryPattern(open, here, next) ==
    /\ pass = here
    /\ LET start == First(Places(open))
       IN  IF Places(open) # {} /\ Ends(open, start) # {}
           THEN Accept(Compact(SubSeq(raw, start, First(Ends(open, start)))))
           ELSE pass' = next /\ UNCHANGED <<output, verdict>>
    /\ UNCHANGED raw

ScanObjects == TryPattern("{", "objects", "arrays")
ScanArrays  == TryPattern("[", "arrays", "regexp")

-----------------------------------------------------------------------------
(* The regular expression, and ValidateWithFeedback *)

\* FindString of {.*} or [.*]: leftmost, and then as long as possible
Spans == {s \in (1..Len(raw)) \X (1..Len(raw)) :
            /\ s[1] < s[2]
            /\ raw[s[1]] \in DOMAIN Close
            /\ raw[s[2]] = Close[raw[s[1]]]}
Leftmost == {s \in Spans : \A t \in Spans : s[1] < t[1] \/ (s[1] = t[1] /\ s[2] >= t[2])}
Match == {SubSeq(raw, s[1], s[2]) : s \in Leftmost}

\* the match if it is valid, else no JSON, and the whole text goes into the feedback
Fallback ==
    /\ pass = "regexp"
    /\ IF \E m \in Match : Valid(m) THEN \E m \in Match : Accept(m)
       ELSE output' = raw /\ verdict' = "noJSON" /\ pass' = "done"
    /\ UNCHANGED raw

\* Validator.Validate: whatever the schema says about the document
CheckSchema ==
    /\ pass = "schema"
    /\ verdict' \in {"valid", "mismatch"}
    /\ pass' = "done"
    /\ UNCHANGED <<raw, output>>

Returned == pass = "done" /\ UNCHANGED vars

Next == ScanObjects \/ ScanArrays \/ Fallback \/ CheckSchema \/ Returned

Spec == Init /\ [][Next]_vars

-----------------------------------------------------------------------------
(* Properties *)

\* the JSON documents that begin at the first bracket of a kind
Documents(open) ==
    IF Places(open) = {} THEN {}
    ELSE {d \in {SubSeq(raw, First(Places(open)), j) : j \in 1..Len(raw)} : Valid(d)}

\* The scan agrees with the grammar.  Depth counting and string tracking find the
\* object that begins at the first "{" if there is one there, else the array that
\* begins at the first "[": quotes, escapes and brackets inside strings, broken
\* candidates and the text around the document never make them cut it short, run
\* over it or miss it, and the regular expression finds nothing the scan missed.
\* Documents that begin elsewhere are not found: see FindsFirst.
ScanMatchesGrammar ==
    pass \in {"schema", "done"} =>
        LET objects == Documents("{") arrays == Documents("[")
        IN  IF objects \cup arrays = {} THEN verdict = "noJSON"
            ELSE /\ verdict # "noJSON"
                 /\ {output} = {Compact(d) : d \in IF objects # {} THEN objects ELSE arrays}

\* "Finds first valid JSON object/array in LLM output": if a document begins anywhere
\* in the text, the one that begins first is extracted.
FindsFirst ==
    pass \in {"schema", "done"} =>
        LET places == (1..Len(raw)) \X (1..Len(raw))
            found  == {s \in places : Valid(SubSeq(raw, s[1], s[2]))}
        IN  IF found = {} THEN verdict = "noJSON"
            ELSE /\ verdict # "noJSON"
                 /\ \E s \in found : /\ \A t \in found : s[1] <= t[1]
                                     /\ output = Compact(SubSeq(raw, s[1], s[2]))
=============================================================================
