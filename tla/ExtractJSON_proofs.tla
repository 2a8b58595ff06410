--------------------------- MODULE ExtractJSON_proofs ---------------------------
(* Theorems about ExtractJSON, for texts of any length and any json.Valid that  *)
(* keeps to the grammar of JSON.                                                *)
EXTENDS ExtractJSON, SequenceTheorems, WellFoundedInduction, TLAPS

-----------------------------------------------------------------------------
(* Induction on natural numbers, about sets instead of predicates *)

LEMMA Least ==
  ASSUME NEW T, T \subseteq Nat, T # {}
  PROVE  \E n \in T : \A m \in T : n <= m
<1>1. PICK n \in T : \A m \in T : ~ (<<m, n>> \in OpToRel(<, Nat))
  BY NatLessThanWellFounded, WFMin
<1>2. \A m \in T : ~ (m < n)
  BY <1>1 DEF OpToRel
<1> QED BY <1>2

LEMMA Induction ==
  ASSUME NEW n \in Nat, NEW Good, 0 \in Good, \A i \in 1..n : i - 1 \in Good => i \in Good
  PROVE  \A i \in 0..n : i \in Good
<1> DEFINE Bad == {i \in 0..n : i \notin Good}
<1> SUFFICES ASSUME Bad # {} PROVE FALSE
  OBVIOUS
<1>1. Bad \subseteq Nat
  OBVIOUS
<1>2. PICK i \in Bad : \A j \in Bad : i <= j
  BY <1>1, Least
<1>3. i \in 0..n /\ i \notin Good
  OBVIOUS
<1>4. i - 1 \notin Bad
  BY <1>2, <1>3
<1>5. i \in 1..n /\ i - 1 \in Good
  BY <1>3, <1>4
<1> QED BY <1>3, <1>5

\* strings.IndexByte finds the first place.
LEMMA FirstIsFirst ==
  ASSUME NEW n \in Nat, NEW S, S \subseteq 1..n, S # {}
  PROVE  First(S) \in S /\ \A j \in S : First(S) <= j
<1>1. S \subseteq Nat
  OBVIOUS
<1>2. \E i \in S : \A j \in S : i <= j
  BY <1>1, Least
<1> QED BY <1>2 DEF First

-----------------------------------------------------------------------------
(* The scanner, character by character *)

At(d, s, e) == [depth |-> d, inString |-> s, escaped |-> e]

\* Inside a string the depth stays, and only a quote that is not escaped ends it;
\* outside, brackets of the wanted kind count and a quote begins a string.
LEMMA StepCases ==
  ASSUME NEW d \in Int, NEW open \in DOMAIN Close, NEW ch
  PROVE  /\ ch \notin {"quote", "backslash"} =>
               Step(At(d, TRUE, FALSE), ch, open) = At(d, TRUE, FALSE)
         /\ ch = "backslash" => Step(At(d, TRUE, FALSE), ch, open) = At(d, TRUE, TRUE)
         /\ ch = "quote" => Step(At(d, TRUE, FALSE), ch, open) = At(d, FALSE, FALSE)
         /\ Step(At(d, TRUE, TRUE), ch, open) = At(d, TRUE, FALSE)
         /\ ch = "quote" => Step(At(d, FALSE, FALSE), ch, open) = At(d, TRUE, FALSE)
         /\ ch = open => Step(At(d, FALSE, FALSE), ch, open) = At(d + 1, FALSE, FALSE)
         /\ ch = Close[open] => Step(At(d, FALSE, FALSE), ch, open) = At(d - 1, FALSE, FALSE)
         /\ ch \notin {"quote", open, Close[open]} =>
               Step(At(d, FALSE, FALSE), ch, open) = At(d, FALSE, FALSE)
<1>1. /\ open \in {"{", "["} /\ Close[open] \in {"}", "]"}
      /\ open # Close[open] /\ open # "quote" /\ Close[open] # "quote"
  BY DEF Close
<1>2. /\ Step(At(d, TRUE, FALSE), ch, open)
            = [depth |-> d + 0, inString |-> ch # "quote", escaped |-> ch = "backslash"]
      /\ Step(At(d, TRUE, TRUE), ch, open)
            = [depth |-> d + 0, inString |-> TRUE, escaped |-> FALSE]
      /\ Step(At(d, FALSE, FALSE), ch, open)
            = [depth |-> d + (IF ch = open THEN 1 ELSE IF ch = Close[open] THEN -1 ELSE 0),
               inString |-> ch = "quote", escaped |-> FALSE]
  BY DEF Step, At
<1>3. d + 0 = d /\ d + (-1) = d - 1
  OBVIOUS
<1>4. Step(At(d, TRUE, TRUE), ch, open) = At(d, TRUE, FALSE)
  BY <1>2, <1>3 DEF At
<1>5. ASSUME ch = "quote" PROVE Step(At(d, TRUE, FALSE), ch, open) = At(d, FALSE, FALSE)
  BY <1>2, <1>3, <1>5 DEF At
<1>6. ASSUME ch = "backslash" PROVE Step(At(d, TRUE, FALSE), ch, open) = At(d, TRUE, TRUE)
  BY <1>2, <1>3, <1>6 DEF At
<1>7. ASSUME ch \notin {"quote", "backslash"}
      PROVE  Step(At(d, TRUE, FALSE), ch, open) = At(d, TRUE, FALSE)
  BY <1>2, <1>3, <1>7 DEF At
<1>8. ASSUME ch = "quote" PROVE Step(At(d, FALSE, FALSE), ch, open) = At(d, TRUE, FALSE)
  BY <1>1, <1>2, <1>3, <1>8 DEF At
<1>9. ASSUME ch = open PROVE Step(At(d, FALSE, FALSE), ch, open) = At(d + 1, FALSE, FALSE)
  BY <1>1, <1>2, <1>9 DEF At
<1>10. ASSUME ch = Close[open] PROVE Step(At(d, FALSE, FALSE), ch, open) = At(d - 1, FALSE, FALSE)
  BY <1>1, <1>2, <1>3, <1>10 DEF At
<1>11. ASSUME ch \notin {"quote", open, Close[open]}
       PROVE  Step(At(d, FALSE, FALSE), ch, open) = At(d, FALSE, FALSE)
  BY <1>2, <1>3, <1>11 DEF At
<1> QED BY <1>4, <1>5, <1>6, <1>7, <1>8, <1>9, <1>10, <1>11

\* The states of Walk follow each other by Step.
IsWalk(after, open, start) ==
    /\ after[start - 1] = At(0, FALSE, FALSE)
    /\ \A i \in start..Len(raw) : after[i] = Step(after[i - 1], raw[i], open)

LEMMA WalkSteps ==
  ASSUME raw \in Seq(Chars), NEW open, NEW start \in 1..Len(raw)
  PROVE  IsWalk(Walk(open, start), open, start)
<1> DEFINE low == start - 1
           n == Len(raw) - low
           Rule(g, i) == IF i < start THEN At(0, FALSE, FALSE)
                         ELSE Step(g[i - 1], raw[i], open)
           States(g, k) == g = [i \in low..low + k |-> Rule(g, i)]
           Some == {k \in 0..n : \E g : States(g, k)}
<1>0. low \in Nat /\ n \in Nat /\ low + n = Len(raw) /\ start = low + 1
  OBVIOUS
<1>1. \E g : States(g, n)
  <2> HIDE DEF low, n
  <2>1. 0 \in Some
    <3> DEFINE g == [i \in low..low + 0 |-> At(0, FALSE, FALSE)]
    <3>0. \A i \in low..low + 0 : i < start
      BY <1>0
    <3>1. \A i \in low..low + 0 : g[i] = Rule(g, i)
      BY <3>0
    <3>2. States(g, 0)
      BY <3>1
    <3> HIDE DEF g
    <3>3. \E h : States(h, 0)
      BY <3>2
    <3>4. 0 \in 0..n
      BY <1>0
    <3> QED BY <3>3, <3>4
  <2>2. ASSUME NEW k \in 1..n, k - 1 \in Some PROVE k \in Some
    <3>0. k \in Nat /\ k > 0 /\ low + k \in Nat /\ low + (k - 1) = low + k - 1
      BY <1>0
    <3>1. PICK h : States(h, k - 1)
      BY <2>2
    <3> DEFINE m == low + k
               g == [i \in low..m |-> IF i = m THEN Rule(h, m) ELSE h[i]]
    <3>2. ASSUME NEW i \in low..m PROVE g[i] = Rule(g, i)
      <4>1. CASE i = low
        <5>1. i # m /\ i < start /\ i \in low..low + (k - 1)
          BY <1>0, <3>0, <4>1
        <5>2. g[i] = h[i] /\ h[i] = At(0, FALSE, FALSE)
          BY <3>1, <5>1
        <5> QED BY <5>1, <5>2
      <4>2. CASE i # low /\ i # m
        <5>1. i \in low..low + (k - 1) /\ i - 1 \in low..m /\ i - 1 # m /\ ~ (i < start)
          BY <1>0, <3>0, <4>2
        <5>2. g[i] = h[i] /\ g[i - 1] = h[i - 1] /\ h[i] = Rule(h, i)
          BY <3>1, <4>2, <5>1
        <5> QED BY <5>1, <5>2
      <4>3. CASE i = m
        <5>1. m - 1 \in low..m /\ m - 1 # m /\ ~ (m < start)
          BY <1>0, <3>0
        <5>2. g[m] = Rule(h, m) /\ g[m - 1] = h[m - 1]
          BY <4>3, <5>1
        <5> QED BY <4>3, <5>1, <5>2
      <4> QED BY <4>1, <4>2, <4>3
    <3>3. States(g, k)
      BY <3>2
    <3> HIDE DEF g
    <3>4. \E e : States(e, k)
      BY <3>3
    <3>5. k \in 0..n
      BY <1>0
    <3> QED BY <3>4, <3>5
  <2> HIDE DEF Some
  <2>3. \A k \in 0..n : k \in Some
    BY <1>0, <2>1, <2>2, Induction
  <2>4. n \in Some
    BY <1>0, <2>3
  <2> QED BY <2>4 DEF Some
<1> DEFINE f == CHOOSE g : g = [i \in start - 1..Len(raw) |-> Rule(g, i)]
<1>2. \E g : g = [i \in start - 1..Len(raw) |-> Rule(g, i)]
  BY <1>0, <1>1
<1>3. f = [i \in start - 1..Len(raw) |-> Rule(f, i)]
  BY <1>2
<1>4. Walk(open, start) = f
  BY DEF Walk, At
<1> HIDE DEF f
<1>5. \A i \in start - 1..Len(raw) : f[i] = Rule(f, i)
  BY <1>3
<1>6. /\ start - 1 \in start - 1..Len(raw) /\ start - 1 < start
      /\ \A i \in start..Len(raw) : i \in start - 1..Len(raw) /\ ~ (i < start)
  OBVIOUS
<1> QED BY <1>4, <1>5, <1>6 DEF IsWalk

\* One step of a walk, from h to k.
OneStep(after, open, d, h, k) ==
    /\ after[h] = At(d, TRUE, FALSE) =>
         /\ raw[k] \notin {"quote", "backslash"} => after[k] = At(d, TRUE, FALSE)
         /\ raw[k] = "backslash" => after[k] = At(d, TRUE, TRUE)
         /\ raw[k] = "quote" => after[k] = At(d, FALSE, FALSE)
    /\ after[h] = At(d, TRUE, TRUE) => after[k] = At(d, TRUE, FALSE)
    /\ after[h] = At(d, FALSE, FALSE) =>
         /\ raw[k] = "quote" => after[k] = At(d, TRUE, FALSE)
         /\ raw[k] = open => after[k] = At(d + 1, FALSE, FALSE)
         /\ raw[k] = Close[open] => after[k] = At(d - 1, FALSE, FALSE)
         /\ raw[k] \notin {"quote", open, Close[open]} => after[k] = At(d, FALSE, FALSE)

LEMMA WalkCases ==
  ASSUME NEW open \in DOMAIN Close, NEW start, NEW after, IsWalk(after, open, start),
         NEW k \in start..Len(raw), NEW h, h = k - 1, NEW d \in Int
  PROVE  OneStep(after, open, d, h, k)
<1> DEFINE ch == raw[k]
<1>1. after[k] = Step(after[h], ch, open)
  BY DEF IsWalk
<1> HIDE DEF ch
<1>2. /\ ch \notin {"quote", "backslash"} =>
            Step(At(d, TRUE, FALSE), ch, open) = At(d, TRUE, FALSE)
      /\ ch = "backslash" => Step(At(d, TRUE, FALSE), ch, open) = At(d, TRUE, TRUE)
      /\ ch = "quote" => Step(At(d, TRUE, FALSE), ch, open) = At(d, FALSE, FALSE)
      /\ Step(At(d, TRUE, TRUE), ch, open) = At(d, TRUE, FALSE)
      /\ ch = "quote" => Step(At(d, FALSE, FALSE), ch, open) = At(d, TRUE, FALSE)
      /\ ch = open => Step(At(d, FALSE, FALSE), ch, open) = At(d + 1, FALSE, FALSE)
      /\ ch = Close[open] => Step(At(d, FALSE, FALSE), ch, open) = At(d - 1, FALSE, FALSE)
      /\ ch \notin {"quote", open, Close[open]} =>
            Step(At(d, FALSE, FALSE), ch, open) = At(d, FALSE, FALSE)
  BY StepCases
<1> QED BY <1>1, <1>2 DEF ch, OneStep

-----------------------------------------------------------------------------
(* The scanner on strings and documents *)

\* the grammar, by the places where a part of the text begins and ends
V(i, j) == Valid(SubSeq(raw, i, j))
C(i, j) == Content(SubSeq(raw, i, j))
B(i, j) == Body(SubSeq(raw, i, j))

LEMMA Grammar ==
  ASSUME raw \in Texts, NEW i \in 1..Len(raw) + 1, NEW j \in 0..Len(raw)
  PROVE  /\ V(i, j) => /\ i < j /\ raw[i] \in DOMAIN Close /\ raw[j] = Close[raw[i]]
                       /\ C(i + 1, j - 1)
         /\ C(i, j) => \/ j < i
                       \/ raw[i] = "blank" /\ C(i + 1, j)
                       \/ \E n \in i..j : /\ \/ /\ i < n /\ raw[i] = "quote" /\ raw[n] = "quote"
                                                /\ B(i + 1, n - 1)
                                             \/ V(i, n)
                                          /\ C(n + 1, j)
         /\ B(i, j) => \/ j < i
                       \/ raw[i] \notin {"quote", "backslash"} /\ B(i + 1, j)
                       \/ /\ i < j /\ raw[i] = "backslash" /\ B(i + 2, j)
  BY JSONGrammar DEF V, C, B, Quoted

\* The body of a string leaves the scanner inside the string, at the same depth.
Keeps(after, i, j, d) ==
    /\ after[j] = At(d, TRUE, FALSE)
    /\ \A k \in i..j : after[k].depth = d

LEMMA BodyKeeps ==
  ASSUME raw \in Texts, NEW open \in DOMAIN Close, NEW start \in 1..Len(raw),
         NEW after, IsWalk(after, open, start),
         NEW a \in start..Len(raw) + 1, NEW b \in start - 1..Len(raw), NEW c \in Int,
         a <= b + 1, B(a, b), after[a - 1] = At(c, TRUE, FALSE)
  PROVE  Keeps(after, a, b, c)
<1> DEFINE Good(i, j, d) == (B(i, j) /\ after[i - 1] = At(d, TRUE, FALSE)) => Keeps(after, i, j, d)
           Bad == {l \in Nat : \E i \in start..Len(raw) + 1, j \in start - 1..Len(raw), d \in Int :
                                  i <= j + 1 /\ l = (j + 1) - i /\ ~ Good(i, j, d)}
<1>0. Len(raw) \in Nat
  BY JSONGrammar
<1>1. SUFFICES Bad = {}
  <2> DEFINE m == (b + 1) - a
  <2>1. m \in Nat
    BY <1>0
  <2>2. m \notin Bad
    BY <1>1
  <2>3. Good(a, b, c)
    <3> HIDE DEF Good
    <3> QED BY <2>1, <2>2
  <2> QED BY <2>3
<1>2. SUFFICES ASSUME Bad # {} PROVE FALSE
  OBVIOUS
<1>3. PICK l \in Bad : \A m \in Bad : l <= m
  <2>1. Bad \subseteq Nat
    OBVIOUS
  <2> HIDE DEF Bad
  <2> QED BY <1>2, <2>1, Least
<1>4. PICK i \in start..Len(raw) + 1, j \in start - 1..Len(raw), d \in Int :
         i <= j + 1 /\ l = (j + 1) - i /\ ~ Good(i, j, d)
  BY <1>3
<1>5. B(i, j) /\ after[i - 1] = At(d, TRUE, FALSE) /\ ~ Keeps(after, i, j, d)
  BY <1>4
<1>6. ASSUME NEW h \in start..Len(raw) + 1, i < h, h <= j + 1 PROVE Good(h, j, d)
  <2> DEFINE m == (j + 1) - h
  <2>1. m \in Nat /\ m < l /\ l \in Nat
    BY <1>0, <1>4, <1>6
  <2>2. m \notin Bad
    <3> HIDE DEF Bad, m
    <3> QED BY <1>3, <2>1
  <2> HIDE DEF Good
  <2> QED BY <1>6, <2>1, <2>2
<1>7. CASE j < i
  <2>1. j = i - 1 /\ \A k \in i..j : FALSE
    BY <1>0, <1>4, <1>7
  <2> QED BY <1>5, <2>1 DEF Keeps
<1>8. CASE i <= j /\ raw[i] \notin {"quote", "backslash"} /\ B(i + 1, j)
  <2>0. /\ i \in start..Len(raw) /\ i + 1 \in start..Len(raw) + 1 /\ (i + 1) - 1 = i
        /\ i < i + 1 /\ i + 1 <= j + 1
    BY <1>0, <1>8
  <2>1. after[i] = At(d, TRUE, FALSE)
    <3>1. OneStep(after, open, d, i - 1, i)
      BY <2>0, WalkCases
    <3> QED BY <1>5, <1>8, <3>1 DEF OneStep
  <2>2. Keeps(after, i + 1, j, d)
    <3>1. Good(i + 1, j, d)
      BY <1>6, <2>0
    <3> QED BY <1>8, <2>0, <2>1, <3>1
  <2>3. \A k \in i..j : k = i \/ k \in i + 1..j
    BY <1>0
  <2>4. after[i].depth = d
    BY <2>1 DEF At
  <2> QED BY <1>5, <2>2, <2>3, <2>4 DEF Keeps
<1>9. CASE i < j /\ raw[i] = "backslash" /\ B(i + 2, j)
  <2>0. /\ i \in start..Len(raw) /\ i + 1 \in start..Len(raw) /\ (i + 1) - 1 = i
        /\ i + 2 \in start..Len(raw) + 1 /\ (i + 2) - 1 = i + 1
        /\ i < i + 2 /\ i + 2 <= j + 1
    BY <1>0, <1>9
  <2>1. after[i] = At(d, TRUE, TRUE)
    <3>1. OneStep(after, open, d, i - 1, i)
      BY <2>0, WalkCases
    <3> QED BY <1>5, <1>9, <3>1 DEF OneStep
  <2>2. after[i + 1] = At(d, TRUE, FALSE)
    <3>1. OneStep(after, open, d, i, i + 1)
      BY <2>0, WalkCases
    <3> QED BY <2>1, <3>1 DEF OneStep
  <2>3. Keeps(after, i + 2, j, d)
    <3>1. Good(i + 2, j, d)
      BY <1>6, <2>0
    <3> QED BY <1>9, <2>0, <2>2, <3>1
  <2>4. \A k \in i..j : k = i \/ k = i + 1 \/ k \in i + 2..j
    BY <1>0
  <2>5. after[i].depth = d /\ after[i + 1].depth = d
    BY <2>1, <2>2 DEF At
  <2> QED BY <1>5, <2>3, <2>4, <2>5 DEF Keeps
<1> QED
  <2>1. i \in 1..Len(raw) + 1 /\ j \in 0..Len(raw)
    BY <1>0
  <2> QED BY <1>0, <1>5, <1>7, <1>8, <1>9, <2>1, Grammar

\* Characters i to j lead back to depth d outside strings and never below it, and,
\* if they begin with a wanted bracket, are deeper until the last one.
Balanced(after, i, j, d) ==
    /\ after[j] = At(d, FALSE, FALSE)
    /\ \A k \in i..j : after[k].depth \in Int /\ after[k].depth >= d
Nested(after, open, i, j, d) ==
    /\ Balanced(after, i, j, d)
    /\ raw[i] = open => Balanced(after, i, j - 1, d + 1)

\* A document is nested if what is between its brackets is balanced.
LEMMA DocumentStep ==
  ASSUME raw \in Texts, NEW open \in DOMAIN Close, NEW start \in 1..Len(raw),
         NEW after, IsWalk(after, open, start),
         NEW i \in start..Len(raw) + 1, NEW j \in start - 1..Len(raw), NEW d \in Int,
         V(i, j), after[i - 1] = At(d, FALSE, FALSE),
         \A e \in Int : C(i + 1, j - 1) /\ after[i] = At(e, FALSE, FALSE) =>
                          Balanced(after, i + 1, j - 1, e)
  PROVE  Nested(after, open, i, j, d)
<1>0. Len(raw) \in Nat
  BY JSONGrammar
<1>1. /\ i < j /\ raw[i] \in DOMAIN Close /\ raw[j] = Close[raw[i]] /\ C(i + 1, j - 1)
  <2>1. i \in 1..Len(raw) + 1 /\ j \in 0..Len(raw)
    BY <1>0
  <2> QED BY <2>1, Grammar
<1>2. /\ i \in start..Len(raw) /\ j \in start..Len(raw) /\ d + 1 \in Int /\ (d + 1) - 1 = d
      /\ \A k \in i..j : k = i \/ k = j \/ k \in i + 1..j - 1
      /\ \A k \in i..j - 1 : k = i \/ k \in i + 1..j - 1
      /\ d >= d /\ d + 1 >= d + 1 /\ d + 1 >= d
  <2>1. i < j
    BY <1>1
  <2>2. i \in start..Len(raw) /\ j \in start..Len(raw)
    BY <1>0, <2>1
  <2>3. /\ \A k \in i..j : k = i \/ k = j \/ k \in i + 1..j - 1
        /\ \A k \in i..j - 1 : k = i \/ k \in i + 1..j - 1
    BY <2>1, <2>2
  <2>4. /\ d + 1 \in Int /\ (d + 1) - 1 = d
        /\ d >= d /\ d + 1 >= d + 1 /\ d + 1 >= d
    OBVIOUS
  <2> QED BY <2>2, <2>3, <2>4
<1>3. CASE raw[i] = open
  <2>1. after[i] = At(d + 1, FALSE, FALSE)
    <3>1. OneStep(after, open, d, i - 1, i)
      BY <1>2, WalkCases
    <3> QED BY <1>3, <3>1 DEF OneStep
  <2>2. Balanced(after, i + 1, j - 1, d + 1)
    BY <1>1, <1>2, <2>1
  <2>3. after[j] = At(d, FALSE, FALSE)
    <3>1. OneStep(after, open, d + 1, j - 1, j)
      BY <1>2, WalkCases
    <3>2. after[j] = At((d + 1) - 1, FALSE, FALSE)
      BY <1>1, <1>3, <2>2, <3>1 DEF OneStep, Balanced
    <3> QED BY <1>2, <3>2
  <2>4. after[i].depth = d + 1 /\ after[j].depth = d
    BY <2>1, <2>3 DEF At
  <2>5. Balanced(after, i, j - 1, d + 1)
    BY <1>2, <2>2, <2>4 DEF Balanced
  <2>6. \A k \in i + 1..j - 1 : after[k].depth \in Int /\ after[k].depth >= d
    BY <2>2 DEF Balanced
  <2>7. Balanced(after, i, j, d)
    BY <1>2, <2>3, <2>4, <2>6 DEF Balanced
  <2> QED BY <2>5, <2>7 DEF Nested
<1>4. CASE raw[i] # open
  <2>0. raw[i] \notin {"quote", open, Close[open]} /\ raw[j] \notin {"quote", open, Close[open]}
    BY <1>1, <1>4 DEF Close
  <2>1. after[i] = At(d, FALSE, FALSE)
    <3>1. OneStep(after, open, d, i - 1, i)
      BY <1>2, WalkCases
    <3> QED BY <2>0, <3>1 DEF OneStep
  <2>2. Balanced(after, i + 1, j - 1, d)
    BY <1>1, <2>1
  <2>3. after[j] = At(d, FALSE, FALSE)
    <3>1. OneStep(after, open, d, j - 1, j)
      BY <1>2, WalkCases
    <3> QED BY <2>0, <2>2, <3>1 DEF OneStep, Balanced
  <2>4. after[i].depth = d /\ after[j].depth = d
    BY <2>1, <2>3 DEF At
  <2>5. Balanced(after, i, j, d)
    BY <1>2, <2>2, <2>3, <2>4 DEF Balanced
  <2> QED BY <1>4, <2>5 DEF Nested
<1> QED BY <1>3, <1>4

\* Content is balanced if its first document and the rest of it are.
LEMMA ContentStep ==
  ASSUME raw \in Texts, NEW open \in DOMAIN Close, NEW start \in 1..Len(raw),
         NEW after, IsWalk(after, open, start),
         NEW i \in start..Len(raw) + 1, NEW j \in start - 1..Len(raw), NEW d \in Int,
         i <= j + 1, C(i, j), after[i - 1] = At(d, FALSE, FALSE),
         \A n \in i..j : V(i, n) => Balanced(after, i, n, d),
         \A n \in i..j : C(n + 1, j) /\ after[n] = At(d, FALSE, FALSE) =>
                           Balanced(after, n + 1, j, d)
  PROVE  Balanced(after, i, j, d)
<1>0. Len(raw) \in Nat
  BY JSONGrammar
<1>1. ASSUME NEW n \in i..j, Balanced(after, i, n, d), C(n + 1, j)
      PROVE  Balanced(after, i, j, d)
  <2>1. Balanced(after, n + 1, j, d)
    BY <1>1 DEF Balanced
  <2>2. \A k \in i..j : k \in i..n \/ k \in n + 1..j
    BY <1>0
  <2> QED BY <1>1, <2>1, <2>2 DEF Balanced
<1>2. CASE j < i
  <2>1. j = i - 1 /\ \A k \in i..j : FALSE
    BY <1>0, <1>2
  <2> QED BY <2>1 DEF Balanced
<1>3. CASE i <= j /\ raw[i] = "blank" /\ C(i + 1, j)
  <2>1. /\ i \in start..Len(raw) /\ i \in i..j /\ d >= d
        /\ \A k \in i..i : k = i
        /\ raw[i] \notin {"quote", open, Close[open]}
    <3>1. i \in start..Len(raw) /\ i \in i..j /\ d >= d /\ \A k \in i..i : k = i
      BY <1>0, <1>3
    <3>2. "blank" \notin {"quote", open, Close[open]}
      BY DEF Close
    <3> QED BY <1>3, <3>1, <3>2
  <2>2. OneStep(after, open, d, i - 1, i)
    BY <2>1, WalkCases
  <2>3. after[i] = At(d, FALSE, FALSE) /\ after[i].depth = d
    BY <2>1, <2>2 DEF OneStep, At
  <2>4. Balanced(after, i, i, d)
    BY <2>1, <2>3 DEF Balanced
  <2> QED BY <1>1, <1>3, <2>1, <2>4
<1>4. ASSUME NEW n \in i..j, V(i, n), C(n + 1, j)
      PROVE  Balanced(after, i, j, d)
  BY <1>1, <1>4
<1>5. ASSUME NEW n \in i..j, i < n, raw[i] = "quote", raw[n] = "quote", B(i + 1, n - 1), C(n + 1, j)
      PROVE  Balanced(after, i, j, d)
  <2>1. /\ i \in start..Len(raw) /\ n \in start..Len(raw) /\ i + 1 \in start..Len(raw) + 1
        /\ n - 1 \in start - 1..Len(raw) /\ i + 1 <= (n - 1) + 1 /\ (i + 1) - 1 = i
        /\ \A k \in i..n : k = i \/ k = n \/ k \in i + 1..n - 1
        /\ d >= d
    BY <1>0, <1>5
  <2>2. after[i] = At(d, TRUE, FALSE)
    <3>1. OneStep(after, open, d, i - 1, i)
      BY <2>1, WalkCases
    <3> QED BY <1>5, <3>1 DEF OneStep
  <2>3. /\ after[n - 1] = At(d, TRUE, FALSE)
        /\ \A k \in i + 1..n - 1 : after[k].depth = d
    <3>1. after[(i + 1) - 1] = At(d, TRUE, FALSE)
      BY <2>1, <2>2
    <3>2. Keeps(after, i + 1, n - 1, d)
      BY <1>5, <2>1, <3>1, BodyKeeps
    <3> QED BY <3>2 DEF Keeps
  <2>4. after[n] = At(d, FALSE, FALSE)
    <3>1. OneStep(after, open, d, n - 1, n)
      BY <2>1, WalkCases
    <3> QED BY <1>5, <2>3, <3>1 DEF OneStep
  <2>5. after[i].depth = d /\ after[n].depth = d
    BY <2>2, <2>4 DEF At
  <2>6. Balanced(after, i, n, d)
    BY <2>1, <2>3, <2>4, <2>5 DEF Balanced
  <2> QED BY <1>1, <1>5, <2>6
<1> QED
  <2>1. i \in 1..Len(raw) + 1 /\ j \in 0..Len(raw) /\ (j < i \/ i <= j)
    BY <1>0
  <2> QED BY <1>2, <1>3, <1>4, <1>5, <2>1, Grammar

\* Documents are nested: by induction on the length, together with content.
LEMMA DocumentNested ==
  ASSUME raw \in Texts, NEW open \in DOMAIN Close, NEW start \in 1..Len(raw),
         NEW after, IsWalk(after, open, start),
         NEW a \in start..Len(raw) + 1, NEW b \in start - 1..Len(raw), NEW c \in Int,
         a <= b + 1, V(a, b), after[a - 1] = At(c, FALSE, FALSE)
  PROVE  Nested(after, open, a, b, c)
<1> DEFINE GoodC(i, j, d) == C(i, j) /\ after[i - 1] = At(d, FALSE, FALSE) => Balanced(after, i, j, d)
           GoodV(i, j, d) == V(i, j) /\ after[i - 1] = At(d, FALSE, FALSE) => Nested(after, open, i, j, d)
           Good(i, j, d) == GoodC(i, j, d) /\ GoodV(i, j, d)
           Bad == {l \in Nat : \E i \in start..Len(raw) + 1, j \in start - 1..Len(raw), d \in Int :
                                  i <= j + 1 /\ l = (j + 1) - i /\ ~ Good(i, j, d)}
<1>0. Len(raw) \in Nat
  BY JSONGrammar
<1>1. SUFFICES Bad = {}
  <2> DEFINE m == (b + 1) - a
  <2>1. m \in Nat
    BY <1>0
  <2>2. m \notin Bad
    BY <1>1
  <2>3. Good(a, b, c)
    <3> HIDE DEF Good
    <3> QED BY <2>1, <2>2
  <2> QED BY <2>3
<1>2. SUFFICES ASSUME Bad # {} PROVE FALSE
  OBVIOUS
<1>3. PICK l \in Bad : \A m \in Bad : l <= m
  <2>1. Bad \subseteq Nat
    OBVIOUS
  <2> HIDE DEF Bad
  <2> QED BY <1>2, <2>1, Least
<1>4. ASSUME NEW i \in start..Len(raw) + 1, NEW j \in start - 1..Len(raw), NEW d \in Int,
             i <= j + 1, (j + 1) - i < l
      PROVE  Good(i, j, d)
  <2> DEFINE m == (j + 1) - i
  <2>1. m \in Nat /\ m < l /\ l \in Nat
    BY <1>0, <1>4
  <2>2. m \notin Bad
    <3> HIDE DEF Bad, m
    <3> QED BY <1>3, <2>1
  <2> HIDE DEF Good
  <2> QED BY <1>4, <2>1, <2>2
<1>5. ASSUME NEW i \in start..Len(raw) + 1, NEW j \in start - 1..Len(raw), NEW d \in Int,
             i <= j + 1, (j + 1) - i <= l
      PROVE  GoodV(i, j, d)
  <2> SUFFICES ASSUME V(i, j), after[i - 1] = At(d, FALSE, FALSE)
               PROVE  Nested(after, open, i, j, d)
    OBVIOUS
  <2>1. i < j
    <3>1. i \in 1..Len(raw) + 1 /\ j \in 0..Len(raw)
      BY <1>0
    <3> QED BY <3>1, Grammar
  <2>2. /\ i + 1 \in start..Len(raw) + 1 /\ j - 1 \in start - 1..Len(raw)
        /\ i + 1 <= (j - 1) + 1 /\ ((j - 1) + 1) - (i + 1) < l /\ (i + 1) - 1 = i
    BY <1>0, <1>3, <1>5, <2>1
  <2>3. ASSUME NEW e \in Int, C(i + 1, j - 1), after[i] = At(e, FALSE, FALSE)
        PROVE  Balanced(after, i + 1, j - 1, e)
    <3>1. Good(i + 1, j - 1, e)
      <4> HIDE DEF Good
      <4> QED BY <1>4, <2>2
    <3>2. after[(i + 1) - 1] = At(e, FALSE, FALSE)
      BY <2>2, <2>3
    <3> QED BY <2>3, <3>1, <3>2
  <2> QED BY <2>3, DocumentStep
<1>6. ASSUME NEW i \in start..Len(raw) + 1, NEW j \in start - 1..Len(raw), NEW d \in Int,
             i <= j + 1, (j + 1) - i <= l
      PROVE  GoodC(i, j, d)
  <2> SUFFICES ASSUME C(i, j), after[i - 1] = At(d, FALSE, FALSE)
               PROVE  Balanced(after, i, j, d)
    OBVIOUS
  <2>1. ASSUME NEW n \in i..j, V(i, n) PROVE Balanced(after, i, n, d)
    <3>1. n \in start - 1..Len(raw) /\ i <= n + 1 /\ (n + 1) - i <= l
      BY <1>0, <1>3, <1>6
    <3>2. GoodV(i, n, d)
      <4> HIDE DEF GoodV
      <4> QED BY <1>5, <3>1
    <3> QED BY <2>1, <3>2 DEF Nested
  <2>2. ASSUME NEW n \in i..j, C(n + 1, j), after[n] = At(d, FALSE, FALSE)
        PROVE  Balanced(after, n + 1, j, d)
    <3>1. /\ n + 1 \in start..Len(raw) + 1 /\ n + 1 <= j + 1 /\ (j + 1) - (n + 1) < l
          /\ (n + 1) - 1 = n
      BY <1>0, <1>3, <1>6
    <3>2. Good(n + 1, j, d)
      <4> HIDE DEF Good
      <4> QED BY <1>4, <3>1
    <3>3. after[(n + 1) - 1] = At(d, FALSE, FALSE)
      BY <2>2, <3>1
    <3> QED BY <2>2, <3>2, <3>3
  <2> QED BY <1>6, <2>1, <2>2, ContentStep
<1>7. PICK i \in start..Len(raw) + 1, j \in start - 1..Len(raw), d \in Int :
         i <= j + 1 /\ l = (j + 1) - i /\ ~ Good(i, j, d)
  BY <1>3
<1>8. GoodC(i, j, d) /\ GoodV(i, j, d)
  <2>1. (j + 1) - i <= l
    BY <1>0, <1>7
  <2> HIDE DEF GoodC, GoodV
  <2> QED BY <1>5, <1>6, <1>7, <2>1
<1> QED BY <1>7, <1>8

\* The scan from a bracket ends where the document that begins there ends, and
\* there is at most one such place.
LEMMA ScanFinds ==
  ASSUME raw \in Texts, NEW open \in DOMAIN Close, NEW start \in 1..Len(raw), raw[start] = open
  PROVE  /\ Ends(open, start) = {j \in 1..Len(raw) : V(start, j)}
         /\ \A j, k \in Ends(open, start) : j = k
<1> DEFINE after == Walk(open, start)
<1>0. Len(raw) \in Nat /\ raw \in Seq(Chars)
  BY JSONGrammar
<1>1. IsWalk(after, open, start)
  BY <1>0, WalkSteps
<1>2. after[start - 1] = At(0, FALSE, FALSE)
  BY <1>1 DEF IsWalk
<1> HIDE DEF after
<1>3. ASSUME NEW j \in 1..Len(raw), V(start, j)
      PROVE  /\ start < j
             /\ Balanced(after, start, j - 1, 1) /\ after[j].depth = 0
  <2>1. start < j
    <3>1. start \in 1..Len(raw) + 1 /\ j \in 0..Len(raw)
      BY <1>0
    <3> QED BY <1>3, <3>1, Grammar
  <2>2. /\ start \in start..Len(raw) + 1 /\ j \in start - 1..Len(raw) /\ start <= j + 1
        /\ 0 \in Int /\ 0 + 1 = 1
    BY <1>0, <2>1
  <2>3. Nested(after, open, start, j, 0)
    BY <1>1, <1>2, <1>3, <2>2, DocumentNested
  <2>4. Balanced(after, start, j, 0) /\ Balanced(after, start, j - 1, 0 + 1)
    BY <2>3 DEF Nested
  <2>5. Balanced(after, start, j - 1, 1)
    BY <2>2, <2>4
  <2>6. after[j].depth = 0
    BY <2>4 DEF Balanced, At
  <2> QED BY <2>1, <2>5, <2>6
<1>4. Ends(open, start) = {j \in start..Len(raw) : /\ after[j - 1].depth = 1 /\ after[j].depth = 0
                                                   /\ V(start, j)}
  BY DEF Ends, after, V
<1>5. ASSUME NEW j \in 1..Len(raw), V(start, j) PROVE j \in Ends(open, start)
  <2>1. start < j /\ Balanced(after, start, j - 1, 1) /\ after[j].depth = 0
    BY <1>3, <1>5
  <2>2. after[j - 1].depth = 1
    BY <2>1 DEF Balanced, At
  <2>3. j \in start..Len(raw)
    BY <1>0, <2>1
  <2> QED BY <1>4, <1>5, <2>1, <2>2, <2>3
<1>6. ASSUME NEW j \in Ends(open, start) PROVE j \in 1..Len(raw) /\ V(start, j)
  BY <1>0, <1>4
<1>7. ASSUME NEW j \in Ends(open, start), NEW k \in Ends(open, start), j < k PROVE FALSE
  <2>1. j \in start..Len(raw) /\ k \in 1..Len(raw) /\ V(start, k) /\ after[j].depth = 0
    BY <1>4, <1>6
  <2>2. Balanced(after, start, k - 1, 1)
    BY <1>3, <2>1
  <2>3. j \in start..k - 1
    BY <1>7, <2>1
  <2>4. 0 >= 1
    BY <2>1, <2>2, <2>3 DEF Balanced
  <2> QED BY <2>4
<1>8. \A j, k \in Ends(open, start) : j = k
  <2> SUFFICES ASSUME NEW j \in Ends(open, start), NEW k \in Ends(open, start) PROVE j = k
    OBVIOUS
  <2>1. j \in Int /\ k \in Int
    BY <1>6
  <2>2. ~ (j < k) /\ ~ (k < j)
    BY <1>7
  <2> QED BY <2>1, <2>2
<1>9. Ends(open, start) = {j \in 1..Len(raw) : V(start, j)}
  BY <1>5, <1>6
<1> QED BY <1>8, <1>9

-----------------------------------------------------------------------------
(* What a turn of the outer loop and the regular expression find *)

\* The scan finds a document if there is one, and there is no other.
LEMMA TurnFinds ==
  ASSUME raw \in Texts, NEW open \in DOMAIN Close, NEW start, start = First(Places(open))
  PROVE  IF Places(open) # {} /\ Ends(open, start) # {}
         THEN Documents(open) = {SubSeq(raw, start, First(Ends(open, start)))}
         ELSE Documents(open) = {}
<1>0. Len(raw) \in Nat
  BY JSONGrammar
<1>1. CASE Places(open) = {}
  BY <1>1 DEF Documents
<1>2. CASE Places(open) # {}
  <2>1. start \in 1..Len(raw) /\ raw[start] = open
    <3>1. Places(open) \subseteq 1..Len(raw)
      BY DEF Places
    <3>2. start \in Places(open)
      BY <1>0, <1>2, <3>1, FirstIsFirst
    <3> QED BY <3>2 DEF Places
  <2>2. /\ Ends(open, start) = {j \in 1..Len(raw) : V(start, j)}
        /\ \A j, k \in Ends(open, start) : j = k
    BY <2>1, ScanFinds
  <2>3. Documents(open) = {d \in {SubSeq(raw, start, j) : j \in 1..Len(raw)} : Valid(d)}
    BY <1>2 DEF Documents
  <2>4. Documents(open) = {SubSeq(raw, start, j) : j \in Ends(open, start)}
    <3>1. ASSUME NEW d \in Documents(open)
          PROVE  d \in {SubSeq(raw, start, j) : j \in Ends(open, start)}
      <4>1. PICK j \in 1..Len(raw) : d = SubSeq(raw, start, j)
        BY <2>3
      <4>2. j \in Ends(open, start)
        BY <2>2, <2>3, <4>1 DEF V
      <4> QED BY <4>1, <4>2
    <3>2. ASSUME NEW j \in Ends(open, start) PROVE SubSeq(raw, start, j) \in Documents(open)
      BY <2>2, <2>3 DEF V
    <3> QED BY <3>1, <3>2
  <2>5. CASE Ends(open, start) = {}
    BY <2>4, <2>5
  <2>6. CASE Ends(open, start) # {}
    <3> DEFINE last == First(Ends(open, start))
    <3>1. Ends(open, start) \subseteq 1..Len(raw)
      BY <2>2
    <3>2. last \in Ends(open, start)
      BY <1>0, <2>6, <3>1, FirstIsFirst
    <3>3. Ends(open, start) = {last}
      BY <2>2, <3>2
    <3> HIDE DEF last
    <3>4. Documents(open) = {SubSeq(raw, start, last)}
      BY <2>4, <3>3
    <3> QED BY <1>2, <2>6, <3>4 DEF last
  <2> QED BY <2>5, <2>6
<1> QED BY <1>1, <1>2

\* A match of the regular expression begins at the first bracket of its kind, so
\* it is valid only if the scan found it before.
LEMMA MatchIsScanned ==
  ASSUME raw \in Texts, NEW m \in Match, Valid(m)
  PROVE  \E open \in DOMAIN Close : m \in Documents(open)
<1>0. Len(raw) \in Nat
  BY JSONGrammar
<1>1. PICK s \in Leftmost : m = SubSeq(raw, s[1], s[2])
  BY DEF Match
<1> DEFINE i == s[1]
           j == s[2]
           open == raw[i]
           start == First(Places(open))
<1>2. /\ i \in 1..Len(raw) /\ j \in 1..Len(raw) /\ i < j
      /\ open \in DOMAIN Close /\ raw[j] = Close[open]
  BY DEF Leftmost, Spans
<1>3. \A t \in Spans : i < t[1] \/ i = t[1]
  BY DEF Leftmost
<1> HIDE DEF i, j
<1>4. i \in Places(open) /\ Places(open) \subseteq 1..Len(raw)
  BY <1>2 DEF Places
<1>5. start \in Places(open) /\ start <= i
  BY <1>0, <1>4, FirstIsFirst
<1>6. start \in 1..Len(raw) /\ raw[start] = open
  BY <1>5 DEF Places
<1> HIDE DEF start
<1>7. start < j
  BY <1>2, <1>5, <1>6
<1>8. <<start, j>> \in Spans
  <2> DEFINE t == <<start, j>>
  <2>1. t \in (1..Len(raw)) \X (1..Len(raw)) /\ t[1] = start /\ t[2] = j
    BY <1>2, <1>6
  <2> HIDE DEF t
  <2>2. t \in Spans
    BY <1>2, <1>6, <1>7, <2>1 DEF Spans
  <2> QED BY <2>2 DEF t
<1>9. start = i
  <2>1. i < start \/ i = start
    BY <1>3, <1>8
  <2> QED BY <1>2, <1>5, <1>6, <2>1
<1>10. m \in {SubSeq(raw, start, k) : k \in 1..Len(raw)}
  BY <1>1, <1>2, <1>9 DEF i, j
<1>11. m \in Documents(open)
  BY <1>4, <1>10 DEF Documents, start
<1> QED BY <1>2, <1>11

-----------------------------------------------------------------------------
(* The extractor *)

\* What is known when a pass begins: the earlier ones found nothing because there
\* is nothing, and until the end nothing is decided.
Inv ==
    /\ raw \in Texts
    /\ pass \in {"objects", "arrays", "regexp", "schema", "done"}
    /\ pass # "done" => verdict = "none"
    /\ pass \in {"arrays", "regexp"} => Documents("{") = {}
    /\ pass = "regexp" => Documents("[") = {}
    /\ ScanMatchesGrammar

LEMMA InvInit == Init => Inv
  BY DEF Init, Inv, ScanMatchesGrammar

\* The documents depend on the text alone, which no step changes.
LEMMA SameDocuments ==
  ASSUME raw' = raw, NEW open
  PROVE  Documents(open)' = Documents(open)
  BY DEF Documents, Places

LEMMA InvNext == Inv /\ [Next]_vars => Inv'
<1> SUFFICES ASSUME Inv, [Next]_vars PROVE Inv'
  OBVIOUS
<1> DEFINE objects == Documents("{")
           arrays == Documents("[")
<1>0. raw' = raw
  BY DEF Next, vars, ScanObjects, ScanArrays, TryPattern, Fallback, CheckSchema, Returned
<1>1. Documents("{")' = objects /\ Documents("[")' = arrays
  BY <1>0, SameDocuments
<1>2. raw' \in Texts
  BY <1>0 DEF Inv
<1>3. "{" \in DOMAIN Close /\ "[" \in DOMAIN Close /\ \A open \in DOMAIN Close : open \in {"{", "["}
  BY DEF Close
<1>4. CASE ScanObjects
  <2> DEFINE start == First(Places("{"))
  <2>1. pass = "objects" /\ verdict = "none" /\ verdict' = "none"
    BY <1>4 DEF Inv, ScanObjects, TryPattern, Accept
  <2>2. CASE Places("{") # {} /\ Ends("{", start) # {}
    <3> DEFINE d == SubSeq(raw, start, First(Ends("{", start)))
    <3>1. objects = {d}
      BY <1>3, <2>2, TurnFinds DEF Inv
    <3>2. pass' = "schema" /\ output' = Compact(d)
      BY <1>4, <2>2 DEF ScanObjects, TryPattern, Accept
    <3> HIDE DEF d, objects, arrays
    <3>3. /\ objects \cup arrays # {}
          /\ {output'} = {Compact(e) : e \in IF objects # {} THEN objects ELSE arrays}
      BY <2>1, <3>1, <3>2
    <3>4. ScanMatchesGrammar'
      BY <1>1, <2>1, <3>2, <3>3 DEF ScanMatchesGrammar
    <3> QED BY <1>2, <2>1, <3>2, <3>4 DEF Inv
  <2>3. CASE ~ (Places("{") # {} /\ Ends("{", start) # {})
    <3>1. objects = {}
      BY <1>3, <2>3, TurnFinds DEF Inv
    <3>2. pass' = "arrays"
      BY <1>4, <2>3 DEF ScanObjects, TryPattern
    <3> QED BY <1>1, <1>2, <2>1, <3>1, <3>2 DEF Inv, ScanMatchesGrammar
  <2> QED BY <2>2, <2>3
<1>5. CASE ScanArrays
  <2> DEFINE start == First(Places("["))
  <2>1. pass = "arrays" /\ verdict = "none" /\ verdict' = "none" /\ objects = {}
    BY <1>5 DEF Inv, ScanArrays, TryPattern, Accept
  <2>2. CASE Places("[") # {} /\ Ends("[", start) # {}
    <3> DEFINE d == SubSeq(raw, start, First(Ends("[", start)))
    <3>1. arrays = {d}
      BY <1>3, <2>2, TurnFinds DEF Inv
    <3>2. pass' = "schema" /\ output' = Compact(d)
      BY <1>5, <2>2 DEF ScanArrays, TryPattern, Accept
    <3> HIDE DEF d, objects, arrays
    <3>3. /\ objects \cup arrays # {}
          /\ {output'} = {Compact(e) : e \in IF objects # {} THEN objects ELSE arrays}
      BY <2>1, <3>1, <3>2
    <3>4. ScanMatchesGrammar'
      BY <1>1, <2>1, <3>2, <3>3 DEF ScanMatchesGrammar
    <3> QED BY <1>2, <2>1, <3>2, <3>4 DEF Inv
  <2>3. CASE ~ (Places("[") # {} /\ Ends("[", start) # {})
    <3>1. arrays = {}
      BY <1>3, <2>3, TurnFinds DEF Inv
    <3>2. pass' = "regexp"
      BY <1>5, <2>3 DEF ScanArrays, TryPattern
    <3> QED BY <1>1, <1>2, <2>1, <3>1, <3>2 DEF Inv, ScanMatchesGrammar
  <2> QED BY <2>2, <2>3
<1>6. CASE Fallback
  <2>1. objects = {} /\ arrays = {}
    BY <1>6 DEF Inv, Fallback
  <2>2. \A m \in Match : ~ Valid(m)
    BY <1>3, <2>1, MatchIsScanned DEF Inv
  <2>3. pass' = "done" /\ verdict' = "noJSON"
    BY <1>6, <2>2 DEF Fallback
  <2> QED BY <1>1, <1>2, <2>1, <2>3 DEF Inv, ScanMatchesGrammar
<1>7. CASE CheckSchema
  <2>1. /\ pass = "schema" /\ verdict = "none" /\ verdict' \in {"valid", "mismatch"}
        /\ pass' = "done" /\ output' = output
    BY <1>7 DEF Inv, CheckSchema
  <2>2. ScanMatchesGrammar
    BY DEF Inv
  <2> HIDE DEF objects, arrays
  <2>3. ScanMatchesGrammar'
    BY <1>1, <2>1, <2>2 DEF ScanMatchesGrammar, objects, arrays
  <2> QED BY <1>2, <2>1, <2>3 DEF Inv
<1>8. CASE Returned \/ UNCHANGED vars
  <2>1. UNCHANGED vars
    BY <1>8 DEF Returned
  <2> QED BY <1>1, <2>1 DEF Inv, ScanMatchesGrammar, vars
<1> QED BY <1>4, <1>5, <1>6, <1>7, <1>8 DEF Next

\* For every text and any json.Valid that keeps to the grammar, ExtractJSON takes
\* the document that begins at the first "{", else the one at the first "[", and
\* otherwise says that there is none.
THEOREM ScannerMatchesGrammar == Spec => []ScanMatchesGrammar
<1>1. Inv => ScanMatchesGrammar
  BY DEF Inv
<1> QED BY <1>1, InvInit, InvNext, PTL DEF Spec
=============================================================================
