--------------------------- MODULE RateLimiter_proofs ---------------------------
(* Theorems about RateLimiter, for any limits, keys, handlers and sizes of      *)
(* requests, any length of a window and of a second, and any length of the      *)
(* clock.                                                                       *)
EXTENDS RateLimiter, SequenceTheorems, WellFoundedInduction, TLAPS

(***************************************************************************)
(* What the limiter's loops compute is proved by induction on the places   *)
(* of a slice.  The induction is about a set of places, not a predicate,   *)
(* so that it is a first-order fact.                                       *)
(***************************************************************************)
LEMMA Least ==
  ASSUME NEW T, T \subseteq Nat, T # {}
  PROVE  \E n \in T : \A m \in T : n <= m
<1>1. PICK n \in T : \A m \in T : ~ (<<m, n>> \in OpToRel(<, Nat))
  BY NatLessThanWellFounded, WFMin
<1>2. \A m \in T : ~ (m < n)
  BY <1>1 DEF OpToRel
<1> QED BY <1>2

LEMMA Induction ==
  ASSUME NEW n \in Nat, NEW Good, 0 \in Good, \A i \in 1..n : i - 1 \in Good => i \in Good
  PROVE  \A i \in 0..n : i \in Good
<1> DEFINE Bad == {i \in 0..n : i \notin Good}
<1> SUFFICES ASSUME Bad # {} PROVE FALSE
  OBVIOUS
<1>1. Bad \subseteq Nat
  OBVIOUS
<1>2. PICK i \in Bad : \A j \in Bad : i <= j
  BY <1>1, Least
<1>3. i \in 0..n /\ i \notin Good
  OBVIOUS
<1>4. i - 1 \notin Bad
  BY <1>2, <1>3
<1>5. i \in 1..n /\ i - 1 \in Good
  BY <1>3, <1>4
<1> QED BY <1>3, <1>5

-----------------------------------------------------------------------------
(* The sum of check *)

\* The partial sums of a slice exist, and Total is the last of them.
LEMMA TotalSums ==
  ASSUME NEW s \in Seq(Nat), NEW n, n = Len(s)
  PROVE  \E f \in [0..n -> Nat] : /\ f[0] = 0
                                  /\ \A i \in 1..n : f[i] = f[i - 1] + s[i]
                                  /\ Total(s) = f[n]
<1> DEFINE Sums(f, m) == f = [i \in 0..m |-> IF i = 0 THEN 0 ELSE f[i - 1] + s[i]]
           Some == {m \in 0..n : \E f : Sums(f, m)}
<1>0. n \in Nat /\ \A i \in 1..n : s[i] \in Nat
  OBVIOUS
<1>1. \E f : Sums(f, n)
  <2>1. 0 \in Some
    <3> DEFINE f == [i \in 0..0 |-> 0]
    <3>1. f = [i \in 0..0 |-> IF i = 0 THEN 0 ELSE f[i - 1] + s[i]]
      OBVIOUS
    <3> HIDE DEF f
    <3> QED BY <1>0, <3>1
  <2>2. ASSUME NEW m \in 1..n, m - 1 \in Some PROVE m \in Some
    <3>1. PICK g : Sums(g, m - 1)
      BY <2>2
    <3> DEFINE f == [i \in 0..m |-> IF i = m THEN g[m - 1] + s[m] ELSE g[i]]
    <3>2. \A i \in 0..m : f[i] = IF i = 0 THEN 0 ELSE f[i - 1] + s[i]
      BY <1>0, <3>1
    <3>3. Sums(f, m)
      BY <3>2
    <3> HIDE DEF f
    <3>4. \E h : Sums(h, m)
      BY <3>3
    <3>5. m \in 0..n
      BY <1>0
    <3> QED BY <3>4, <3>5
  <2> HIDE DEF Some
  <2>3. \A m \in 0..n : m \in Some
    BY <1>0, <2>1, <2>2, Induction
  <2>4. n \in Some
    BY <1>0, <2>3
  <2> QED BY <2>4 DEF Some
<1> DEFINE f == CHOOSE f : Sums(f, n)
<1>2. Sums(f, n)
  BY <1>1
<1>3. Total(s) = f[n]
  BY DEF Total
<1> HIDE DEF f
<1>4. /\ f = [i \in 0..n |-> f[i]] /\ f[0] = 0
      /\ \A i \in 1..n : f[i] = f[i - 1] + s[i]
  <2>1. \A i \in 0..n : f[i] = IF i = 0 THEN 0 ELSE f[i - 1] + s[i]
    BY <1>2
  <2>2. f = [i \in 0..n |-> f[i]]
    BY <1>2
  <2>3. 0 \in 0..n /\ \A i \in 1..n : i \in 0..n /\ i # 0
    BY <1>0
  <2> QED BY <2>1, <2>2, <2>3
<1>5. \A i \in 0..n : f[i] \in Nat
  <2> DEFINE Good == {i \in 0..n : f[i] \in Nat}
  <2>1. 0 \in Good
    BY <1>0, <1>4
  <2>2. ASSUME NEW i \in 1..n, i - 1 \in Good PROVE i \in Good
    <3>1. i \in 0..n /\ s[i] \in Nat /\ f[i - 1] \in Nat
      BY <1>0, <2>2
    <3>2. f[i] = f[i - 1] + s[i]
      BY <1>4
    <3> QED BY <3>1, <3>2
  <2> HIDE DEF Good
  <2>3. \A i \in 0..n : i \in Good
    BY <1>0, <2>1, <2>2, Induction
  <2> QED BY <2>3 DEF Good
<1> QED BY <1>3, <1>4, <1>5

LEMMA TotalIsNat == ASSUME NEW s \in Seq(Nat) PROVE Total(s) \in Nat
<1>1. Len(s) \in 0..Len(s)
  OBVIOUS
<1> QED BY <1>1, TotalSums

\* The end of a slice has no more tokens than the slice.
LEMMA TotalSuffix ==
  ASSUME NEW s \in Seq(Nat), NEW t \in Seq(Nat), NEW d \in Nat, Len(s) = d + Len(t),
         \A i \in 1..Len(t) : t[i] = s[d + i]
  PROVE  Total(t) <= Total(s)
<1> DEFINE n == Len(t)
<1>0. n \in Nat /\ \A i \in 1..d + n : s[i] \in Nat
  OBVIOUS
<1>1. PICK f \in [0..d + n -> Nat] : /\ \A i \in 1..d + n : f[i] = f[i - 1] + s[i]
                                     /\ Total(s) = f[d + n]
  BY TotalSums
<1>2. PICK g \in [0..n -> Nat] : /\ g[0] = 0
                                 /\ \A i \in 1..n : g[i] = g[i - 1] + t[i]
                                 /\ Total(t) = g[n]
  BY TotalSums
<1> DEFINE Good == {i \in 0..n : g[i] <= f[d + i]}
<1>3. \A i \in 1..n : t[i] = s[d + i]
  OBVIOUS
<1> HIDE DEF n
<1>4. 0 \in Good
  BY <1>0, <1>1, <1>2
<1>5. ASSUME NEW i \in 1..n, i - 1 \in Good PROVE i \in Good
  <2>1. g[i - 1] <= f[d + (i - 1)] /\ d + (i - 1) = d + i - 1
    BY <1>0, <1>5
  <2>2. /\ i \in 0..n /\ i - 1 \in 0..n
        /\ d + i \in 1..d + n /\ d + i - 1 \in 0..d + n
    BY <1>0
  <2>3. g[i] = g[i - 1] + s[d + i]
    BY <1>2, <1>3
  <2>4. f[d + i] = f[d + i - 1] + s[d + i]
    BY <1>1, <2>2
  <2>5. g[i - 1] \in Nat /\ f[d + i - 1] \in Nat /\ s[d + i] \in Nat
    BY <1>0, <2>2
  <2>6. g[i] <= f[d + i]
    BY <2>1, <2>3, <2>4, <2>5
  <2> QED BY <2>2, <2>6
<1> HIDE DEF Good
<1>6. \A i \in 0..n : i \in Good
  BY <1>0, <1>4, <1>5, Induction
<1>7. g[n] <= f[d + n]
  BY <1>0, <1>6 DEF Good
<1> QED BY <1>1, <1>2, <1>7

\* A request more adds its tokens.
LEMMA TotalAppend ==
  ASSUME NEW s \in Seq(Nat), NEW t \in Seq(Nat), Len(t) = Len(s) + 1,
         \A i \in 1..Len(s) : t[i] = s[i]
  PROVE  Total(s) \in Nat /\ Total(t) = Total(s) + t[Len(t)]
<1> DEFINE n == Len(s)
<1>0. n \in Nat /\ Len(t) = n + 1 /\ \A i \in 1..n : t[i] = s[i]
  <2>1. Len(s) \in Nat
    OBVIOUS
  <2> QED BY <2>1
<1>1. PICK f \in [0..n -> Nat] : /\ f[0] = 0
                                 /\ \A i \in 1..n : f[i] = f[i - 1] + s[i]
                                 /\ Total(s) = f[n]
  BY TotalSums
<1>2. PICK g \in [0..n + 1 -> Nat] : /\ g[0] = 0
                                     /\ \A i \in 1..n + 1 : g[i] = g[i - 1] + t[i]
                                     /\ Total(t) = g[n + 1]
  BY TotalSums
<1> HIDE DEF n
<1> DEFINE Good == {i \in 0..n : g[i] = f[i]}
<1>3. 0 \in Good
  BY <1>0, <1>1, <1>2
<1>4. ASSUME NEW i \in 1..n, i - 1 \in Good PROVE i \in Good
  <2>1. i \in 0..n /\ i \in 1..n + 1
    BY <1>0
  <2>2. g[i] = g[i - 1] + t[i]
    BY <1>2, <2>1
  <2>3. f[i] = f[i - 1] + s[i]
    BY <1>1
  <2> QED BY <1>0, <1>4, <2>1, <2>2, <2>3
<1> HIDE DEF Good
<1>5. \A i \in 0..n : i \in Good
  BY <1>0, <1>3, <1>4, Induction
<1>6. g[n] = f[n]
  BY <1>0, <1>5 DEF Good
<1>7. n + 1 \in 1..n + 1 /\ (n + 1) - 1 = n /\ n \in 0..n
  BY <1>0
<1>8. g[n + 1] = g[n] + t[n + 1]
  BY <1>2, <1>7
<1>9. f[n] \in Nat
  BY <1>7
<1> QED BY <1>0, <1>1, <1>2, <1>6, <1>8, <1>9

-----------------------------------------------------------------------------
(* Pruning *)

Sorted(s) == \A i, j \in 1..Len(s) : i <= j => s[i] <= s[j]

\* p is the end of s
IsEnd(p, s) ==
    /\ Len(p) <= Len(s)
    /\ \A i \in 1..Len(p) : p[i] = s[Len(s) - Len(p) + i]

\* The slices that pruneTime's loop passes through exist.
LEMMA PruneSlices ==
  ASSUME NEW s \in Seq(Int), NEW n, n = Len(s)
  PROVE  \E f : /\ f[0] = <<>>
                /\ \A i \in 1..n : f[i] = IF Recent(s[i]) THEN Append(f[i - 1], s[i])
                                          ELSE f[i - 1]
                /\ pruneTime(s) = f[n]
<1> DEFINE Body(g, i) == IF i = 0 THEN <<>>
                         ELSE IF Recent(s[i]) THEN Append(g[i - 1], s[i]) ELSE g[i - 1]
           Slices(g, m) == g = [i \in 0..m |-> Body(g, i)]
           Some == {m \in 0..n : \E g : Slices(g, m)}
<1>0. n \in Nat
  OBVIOUS
<1>1. \E g : Slices(g, n)
  <2>1. 0 \in Some
    <3> DEFINE g == [i \in 0..0 |-> <<>>]
    <3>1. \A i \in 0..0 : g[i] = Body(g, i)
      OBVIOUS
    <3>2. Slices(g, 0)
      BY <3>1
    <3> HIDE DEF g
    <3> QED BY <1>0, <3>2
  <2>2. ASSUME NEW m \in 1..n, m - 1 \in Some PROVE m \in Some
    <3>1. PICK h : Slices(h, m - 1)
      BY <2>2
    <3> DEFINE g == [i \in 0..m |-> IF i = m THEN Body(h, m) ELSE h[i]]
    <3>2. ASSUME NEW i \in 0..m PROVE g[i] = Body(g, i)
      <4>1. CASE i = 0
        BY <1>0, <3>1, <4>1
      <4>2. CASE i \in 1..m - 1
        <5>1. i - 1 \in 0..m /\ i # m /\ i - 1 # m /\ i \in 0..m - 1 /\ i # 0
          BY <1>0, <4>2
        <5>2. g[i] = h[i] /\ g[i - 1] = h[i - 1] /\ h[i] = Body(h, i)
          BY <3>1, <5>1
        <5> QED BY <5>1, <5>2
      <4>3. CASE i = m
        <5>1. m - 1 \in 0..m /\ m - 1 # m /\ m # 0 /\ m \in 0..m
          BY <1>0
        <5>2. g[m] = Body(h, m) /\ g[m - 1] = h[m - 1]
          BY <5>1
        <5> QED BY <4>3, <5>1, <5>2
      <4> QED BY <1>0, <4>1, <4>2, <4>3
    <3>3. Slices(g, m)
      BY <3>2
    <3> HIDE DEF g
    <3>4. \E e : Slices(e, m)
      BY <3>3
    <3>5. m \in 0..n
      BY <1>0
    <3> QED BY <3>4, <3>5
  <2> HIDE DEF Some
  <2>3. \A m \in 0..n : m \in Some
    BY <1>0, <2>1, <2>2, Induction
  <2>4. n \in Some
    BY <1>0, <2>3
  <2> QED BY <2>4 DEF Some
<1> DEFINE f == CHOOSE g : Slices(g, n)
<1>2. Slices(f, n)
  BY <1>1
<1>3. pruneTime(s) = f[n]
  BY DEF pruneTime
<1> HIDE DEF f
<1>4. \A i \in 0..n : f[i] = Body(f, i)
  BY <1>2
<1>5. 0 \in 0..n /\ \A i \in 1..n : i \in 0..n /\ i # 0
  BY <1>0
<1> QED BY <1>3, <1>4, <1>5

\* Times come in order, so what pruneTime drops is at the front: what is left is
\* the end of the slice, and holds the recent times and no others.
LEMMA PruneIsEnd ==
  ASSUME now \in Int, NEW s \in Seq(Int), Sorted(s)
  PROVE  /\ pruneTime(s) \in Seq(Int)
         /\ IsEnd(pruneTime(s), s)
         /\ \A i \in 1..Len(s) : Recent(s[i]) <=> i > Len(s) - Len(pruneTime(s))
<1> DEFINE n == Len(s)
<1>0. /\ n \in Nat /\ Window \in Int
      /\ \A i \in 1..n : s[i] \in Int
      /\ \A i, j \in 1..n : i <= j => s[i] <= s[j]
  BY LimiterAssumption DEF Sorted
<1>1. PICK f : /\ f[0] = <<>>
               /\ \A i \in 1..n : f[i] = IF Recent(s[i]) THEN Append(f[i - 1], s[i])
                                         ELSE f[i - 1]
               /\ pruneTime(s) = f[n]
  BY PruneSlices
<1> HIDE DEF n
<1> DEFINE Right(i) == /\ f[i] \in Seq(Int) /\ Len(f[i]) <= i
                       /\ \A j \in 1..Len(f[i]) : f[i][j] = s[i - Len(f[i]) + j]
                       /\ \A j \in 1..i : Recent(s[j]) <=> j > i - Len(f[i])
           Good == {i \in 0..n : Right(i)}
<1>2. Right(0)
  <2>1. f[0] \in Seq(Int) /\ Len(f[0]) = 0
    BY <1>1
  <2> QED BY <2>1
<1>3. ASSUME NEW i \in 1..n, Right(i - 1) PROVE Right(i)
  <2> DEFINE p == f[i - 1]
  <2>1. /\ i \in Nat /\ i \in 0..n /\ p \in Seq(Int) /\ Len(p) \in Nat /\ Len(p) <= i - 1
        /\ \A j \in 1..Len(p) : p[j] = s[i - 1 - Len(p) + j]
        /\ \A j \in 1..i - 1 : Recent(s[j]) <=> j > i - 1 - Len(p)
    <3>1. /\ p \in Seq(Int) /\ Len(p) <= i - 1
          /\ \A j \in 1..Len(p) : p[j] = s[i - 1 - Len(p) + j]
          /\ \A j \in 1..i - 1 : Recent(s[j]) <=> j > i - 1 - Len(p)
      BY <1>3
    <3> HIDE DEF p
    <3> QED BY <1>0, <3>1
  <2>2. f[i] = IF Recent(s[i]) THEN Append(p, s[i]) ELSE p
    BY <1>1
  <2>3. s[i] \in Int
    BY <1>0
  <2> HIDE DEF p
  <2>4. CASE Recent(s[i])
    <3>1. /\ f[i] \in Seq(Int) /\ Len(f[i]) = Len(p) + 1
          /\ \A j \in 1..Len(p) : f[i][j] = p[j]
          /\ f[i][Len(p) + 1] = s[i]
      BY <2>1, <2>2, <2>3, <2>4, AppendProperties
    <3>2. \A j \in 1..Len(f[i]) : f[i][j] = s[i - Len(f[i]) + j]
      <4> SUFFICES ASSUME NEW j \in 1..Len(p) + 1
                   PROVE  f[i][j] = s[i - (Len(p) + 1) + j]
        BY <3>1
      <4>1. CASE j = Len(p) + 1
        <5>1. i - (Len(p) + 1) + j = i
          BY <2>1, <4>1
        <5> QED BY <3>1, <4>1, <5>1
      <4>2. CASE j \in 1..Len(p)
        <5>1. i - (Len(p) + 1) + j = i - 1 - Len(p) + j
          BY <2>1, <4>2
        <5> QED BY <2>1, <3>1, <4>2, <5>1
      <4> QED BY <2>1, <4>1, <4>2
    <3>3. \A j \in 1..i : Recent(s[j]) <=> j > i - Len(f[i])
      <4> SUFFICES ASSUME NEW j \in 1..i PROVE Recent(s[j]) <=> j > i - (Len(p) + 1)
        BY <3>1
      <4>1. CASE j = i
        BY <2>1, <2>4, <4>1
      <4>2. CASE j \in 1..i - 1
        BY <2>1, <4>2
      <4> QED BY <2>1, <4>1, <4>2
    <3>4. Len(f[i]) <= i
      BY <2>1, <3>1
    <3> QED BY <3>1, <3>2, <3>3, <3>4
  <2>5. CASE ~ Recent(s[i])
    <3>1. \A j \in 1..i : ~ Recent(s[j])
      BY <1>0, <2>1, <2>3, <2>5 DEF Recent
    <3>2. Len(p) = 0
      <4> SUFFICES ASSUME Len(p) # 0 PROVE FALSE
        OBVIOUS
      <4>1. i - 1 \in 1..i - 1 /\ i - 1 > i - 1 - Len(p) /\ i - 1 \in 1..i
        BY <2>1
      <4> QED BY <2>1, <3>1, <4>1
    <3>3. f[i] = p
      BY <2>2, <2>5
    <3>4. f[i] \in Seq(Int) /\ Len(f[i]) = 0
      BY <2>1, <3>2, <3>3
    <3>5. \A j \in 1..i : Recent(s[j]) <=> j > i - 0
      BY <2>1, <3>1
    <3> QED BY <2>1, <3>4, <3>5
  <2> QED BY <2>4, <2>5
<1>4. Right(n)
  <2> HIDE DEF Right
  <2>1. 0 \in Good /\ \A i \in 1..n : i - 1 \in Good => i \in Good
    BY <1>0, <1>2, <1>3
  <2> HIDE DEF Good
  <2>2. \A i \in 0..n : i \in Good
    BY <1>0, <2>1, Induction
  <2> QED BY <1>0, <2>2 DEF Good
<1> QED BY <1>1, <1>4 DEF n, IsEnd

(***************************************************************************)
(* One key's window.  a is what was admitted, r and k the requests and     *)
(* tokens that are kept: each is the end of a, place by place, and what is *)
(* no longer in r is older than a minute.  Times come in order.            *)
(***************************************************************************)
InOrder(a, r, k) ==
    /\ a \in Seq(Int \X Nat) /\ r \in Seq(Int) /\ k \in Seq(Nat)
    /\ Len(r) <= Len(k) /\ Len(k) <= Len(a) /\ Len(r) <= RPM
    /\ \A i \in 1..Len(r) : r[i] = a[Len(a) - Len(r) + i][1]
    /\ \A i \in 1..Len(k) : k[i] = a[Len(a) - Len(k) + i][2]
    /\ \A i, j \in 1..Len(a) : i <= j => a[i][1] <= a[j][1]

InStep(a, r, k, t) ==
    /\ InOrder(a, r, k)
    /\ \A i \in 1..Len(a) : a[i][1] <= t
    /\ \A i \in 1..Len(a) - Len(r) : a[i][1] <= t - Window

\* Pruning keeps a window in step, also where the debug endpoint prunes only the
\* requests; after both have been pruned there is one token count per request.
LEMMA PruneInStep ==
  ASSUME now \in Int, NEW a, NEW r, NEW k, InStep(a, r, k, now)
  PROVE  /\ InStep(a, pruneTime(r), k, now)
         /\ InStep(a, pruneTime(r), pruneTokens(pruneTime(r), k), now)
         /\ Len(pruneTokens(pruneTime(r), k)) = Len(pruneTime(r))
         /\ Len(pruneTime(r)) <= Len(r)
         /\ IsEnd(pruneTime(r), r)
         /\ \A i \in 1..Len(r) : Recent(r[i]) <=> i > Len(r) - Len(pruneTime(r))
<1> DEFINE p == pruneTime(r)
           q == pruneTokens(p, k)
<1>0. /\ a \in Seq(Int \X Nat) /\ r \in Seq(Int) /\ k \in Seq(Nat)
      /\ \A i \in 1..Len(a) : a[i][1] \in Int
      /\ \A i \in 1..Len(k) : k[i] \in Nat
  <2>1. a \in Seq(Int \X Nat) /\ r \in Seq(Int) /\ k \in Seq(Nat)
    BY DEF InStep, InOrder
  <2>2. \A i \in 1..Len(a) : a[i] \in Int \X Nat
    BY <2>1
  <2>3. \A i \in 1..Len(k) : k[i] \in Nat
    BY <2>1
  <2> QED BY <2>1, <2>2, <2>3
<1>1. /\ Len(a) \in Nat /\ Len(r) \in Nat /\ Len(k) \in Nat /\ RPM \in Nat /\ Window \in Nat
      /\ Len(r) <= Len(k) /\ Len(k) <= Len(a) /\ Len(r) <= RPM
  BY <1>0, LimiterAssumption DEF InStep, InOrder
<1>2. Sorted(r)
  <2> SUFFICES ASSUME NEW i \in 1..Len(r), NEW j \in 1..Len(r), i <= j PROVE r[i] <= r[j]
    BY DEF Sorted
  <2>1. /\ Len(a) - Len(r) + i \in 1..Len(a) /\ Len(a) - Len(r) + j \in 1..Len(a)
        /\ Len(a) - Len(r) + i <= Len(a) - Len(r) + j
    BY <1>1
  <2> QED BY <2>1 DEF InStep, InOrder
<1>3. /\ p \in Seq(Int) /\ IsEnd(p, r)
      /\ \A i \in 1..Len(r) : Recent(r[i]) <=> i > Len(r) - Len(p)
  BY <1>0, <1>2, PruneIsEnd
<1> HIDE DEF p
<1>4. Len(p) \in Nat /\ Len(p) <= Len(r)
  BY <1>3 DEF IsEnd
<1>5. \A i \in 1..Len(p) : p[i] = a[Len(a) - Len(p) + i][1]
  <2> SUFFICES ASSUME NEW i \in 1..Len(p) PROVE p[i] = a[Len(a) - Len(p) + i][1]
    OBVIOUS
  <2>1. /\ Len(r) - Len(p) + i \in 1..Len(r)
        /\ Len(a) - Len(r) + (Len(r) - Len(p) + i) = Len(a) - Len(p) + i
    BY <1>1, <1>4
  <2> QED BY <1>3, <2>1 DEF InStep, InOrder, IsEnd
<1>6. \A i \in 1..Len(a) - Len(p) : a[i][1] <= now - Window
  <2> SUFFICES ASSUME NEW i \in 1..Len(a) - Len(p) PROVE a[i][1] <= now - Window
    OBVIOUS
  <2>1. CASE i <= Len(a) - Len(r)
    BY <1>1, <2>1 DEF InStep, InOrder
  <2>2. CASE ~ (i <= Len(a) - Len(r))
    <3> DEFINE j == i - (Len(a) - Len(r))
    <3>1. j \in 1..Len(r) /\ ~ (j > Len(r) - Len(p)) /\ Len(a) - Len(r) + j = i
      BY <1>1, <1>4, <2>2
    <3> HIDE DEF j
    <3>2. ~ Recent(r[j]) /\ r[j] = a[i][1]
      BY <1>3, <3>1 DEF InStep, InOrder
    <3>3. i \in 1..Len(a)
      BY <1>1, <1>4
    <3>4. a[i][1] \in Int /\ ~ (a[i][1] > now - Window)
      BY <1>0, <3>2, <3>3 DEF Recent
    <3> QED BY <1>1, <3>4
  <2> QED BY <2>1, <2>2
<1>7. InStep(a, p, k, now)
  BY <1>0, <1>1, <1>3, <1>4, <1>5, <1>6 DEF InStep, InOrder
<1>8. /\ q \in Seq(Nat) /\ Len(q) = Len(p)
      /\ \A i \in 1..Len(q) : q[i] = k[Len(k) - Len(p) + i]
  <2>1. CASE Len(k) > Len(p)
    <3>1. q = SubSeq(k, Len(k) - Len(p) + 1, Len(k))
      BY <2>1 DEF pruneTokens
    <3>2. \A i \in Len(k) - Len(p) + 1..Len(k) : k[i] \in Nat
      <4>1. \A i \in Len(k) - Len(p) + 1..Len(k) : i \in 1..Len(k)
        BY <1>1, <1>4, <2>1
      <4> QED BY <1>0, <4>1
    <3>3. /\ q \in Seq(Nat)
          /\ Len(q) = IF Len(k) - Len(p) + 1 <= Len(k)
                      THEN Len(k) - (Len(k) - Len(p) + 1) + 1 ELSE 0
          /\ \A i \in 1..Len(k) - (Len(k) - Len(p) + 1) + 1 :
                q[i] = k[(Len(k) - Len(p) + 1) + i - 1]
      BY <1>1, <1>4, <3>1, <3>2, SubSeqProperties
    <3>4. Len(q) = Len(p) /\ Len(k) - (Len(k) - Len(p) + 1) + 1 = Len(p)
      BY <1>1, <1>4, <3>3
    <3>5. \A i \in 1..Len(p) : (Len(k) - Len(p) + 1) + i - 1 = Len(k) - Len(p) + i
      BY <1>1, <1>4
    <3> QED BY <3>3, <3>4, <3>5
  <2>2. CASE Len(k) = Len(p)
    <3>1. q = k
      BY <1>1, <1>4, <2>2 DEF pruneTokens
    <3>2. \A i \in 1..Len(p) : Len(k) - Len(p) + i = i
      BY <1>4, <2>2
    <3> QED BY <1>0, <2>2, <3>1, <3>2
  <2> QED BY <1>1, <1>4, <2>1, <2>2
<1> HIDE DEF q
<1>9. \A i \in 1..Len(q) : q[i] = a[Len(a) - Len(q) + i][2]
  <2> SUFFICES ASSUME NEW i \in 1..Len(q) PROVE q[i] = a[Len(a) - Len(q) + i][2]
    OBVIOUS
  <2>1. /\ Len(k) - Len(p) + i \in 1..Len(k)
        /\ Len(a) - Len(k) + (Len(k) - Len(p) + i) = Len(a) - Len(q) + i
    BY <1>1, <1>4, <1>8
  <2> QED BY <1>8, <2>1 DEF InStep, InOrder
<1>10. InStep(a, p, q, now)
  BY <1>0, <1>1, <1>3, <1>4, <1>5, <1>6, <1>8, <1>9 DEF InStep, InOrder
<1> QED BY <1>3, <1>4, <1>7, <1>8, <1>10 DEF p, q

\* So does admitting a request.
LEMMA AppendInStep ==
  ASSUME now \in Int, NEW a, NEW r, NEW k, InStep(a, r, k, now),
         Len(r) = Len(k), Len(r) < RPM, NEW n \in Nat
  PROVE  InStep(Append(a, <<now, n>>), Append(r, now), Append(k, n), now)
<1> DEFINE b == Append(a, <<now, n>>)
           u == Append(r, now)
           v == Append(k, n)
<1>0. /\ a \in Seq(Int \X Nat) /\ r \in Seq(Int) /\ k \in Seq(Nat)
      /\ \A i \in 1..Len(a) : a[i][1] \in Int
  BY DEF InStep, InOrder
<1>1. /\ Len(a) \in Nat /\ Len(r) \in Nat /\ RPM \in Nat /\ Window \in Nat
      /\ Len(r) <= Len(a) /\ Len(k) = Len(r)
  BY <1>0, LimiterAssumption DEF InStep, InOrder
<1>2. /\ b \in Seq(Int \X Nat) /\ Len(b) = Len(a) + 1 /\ b[Len(a) + 1] = <<now, n>>
      /\ \A i \in 1..Len(a) : b[i] = a[i]
  <2>1. <<now, n>> \in Int \X Nat
    OBVIOUS
  <2> QED BY <1>0, <2>1, AppendProperties
<1>3. /\ u \in Seq(Int) /\ Len(u) = Len(r) + 1 /\ u[Len(r) + 1] = now
      /\ \A i \in 1..Len(r) : u[i] = r[i]
  BY <1>0, <1>1, AppendProperties
<1>4. /\ v \in Seq(Nat) /\ Len(v) = Len(r) + 1 /\ v[Len(r) + 1] = n
      /\ \A i \in 1..Len(r) : v[i] = k[i]
  BY <1>0, <1>1, AppendProperties
<1> HIDE DEF b, u, v
<1>11. Len(b) = Len(a) + 1 /\ Len(u) = Len(r) + 1 /\ Len(v) = Len(r) + 1
  BY <1>2, <1>3, <1>4
<1>5. ASSUME NEW i \in 1..Len(r) + 1
      PROVE  u[i] = b[Len(b) - Len(u) + i][1] /\ v[i] = b[Len(b) - Len(v) + i][2]
  <2>1. CASE i = Len(r) + 1
    <3>1. Len(b) - Len(u) + i = Len(a) + 1 /\ Len(v) = Len(u)
      BY <1>1, <1>11, <2>1
    <3> QED BY <1>2, <1>3, <1>4, <2>1, <3>1
  <2>2. CASE i \in 1..Len(r)
    <3>1. /\ Len(b) - Len(u) + i = Len(a) - Len(r) + i /\ Len(v) = Len(u)
          /\ Len(a) - Len(r) + i \in 1..Len(a)
      BY <1>1, <1>11, <2>2
    <3>2. r[i] = a[Len(a) - Len(r) + i][1] /\ k[i] = a[Len(a) - Len(r) + i][2]
      BY <1>1, <2>2 DEF InStep, InOrder
    <3> QED BY <1>2, <1>3, <1>4, <2>2, <3>1, <3>2
  <2> QED BY <1>1, <2>1, <2>2
<1>6. \A i \in 1..Len(b) : b[i][1] \in Int /\ b[i][1] <= now
  <2> SUFFICES ASSUME NEW i \in 1..Len(a) + 1 PROVE b[i][1] \in Int /\ b[i][1] <= now
    BY <1>2
  <2>1. CASE i = Len(a) + 1
    BY <1>2, <2>1
  <2>2. CASE i \in 1..Len(a)
    BY <1>0, <1>2, <2>2 DEF InStep, InOrder
  <2> QED BY <1>1, <2>1, <2>2
<1>7. ASSUME NEW i \in 1..Len(b), NEW j \in 1..Len(b), i <= j
      PROVE  b[i][1] <= b[j][1]
  <2>1. CASE j = Len(a) + 1
    <3>1. b[j][1] = now
      BY <1>2, <2>1
    <3> QED BY <1>6, <3>1
  <2>2. CASE j # Len(a) + 1
    <3>1. i \in 1..Len(a) /\ j \in 1..Len(a)
      BY <1>1, <1>11, <1>7, <2>2
    <3> QED BY <1>2, <1>7, <3>1 DEF InStep, InOrder
  <2> QED BY <2>1, <2>2
<1>8. ASSUME NEW i \in 1..Len(b) - Len(u) PROVE b[i][1] <= now - Window
  <2>1. i \in 1..Len(a) - Len(r) /\ i \in 1..Len(a)
    BY <1>1, <1>11
  <2> QED BY <1>2, <2>1 DEF InStep, InOrder
<1>9. Len(u) <= Len(v) /\ Len(v) <= Len(b) /\ Len(u) <= RPM
  BY <1>1, <1>11
<1>10. InStep(b, u, v, now)
  BY <1>2, <1>3, <1>4, <1>5, <1>6, <1>7, <1>8, <1>9 DEF InStep, InOrder
<1> QED BY <1>10 DEF b, u, v

\* So does the clock.
LEMMA TickInStep ==
  ASSUME NEW t \in Int, NEW a, NEW r, NEW k, InStep(a, r, k, t)
  PROVE  InStep(a, r, k, t + 1)
<1>1. /\ a \in Seq(Int \X Nat) /\ r \in Seq(Int) /\ k \in Seq(Nat)
      /\ Len(r) <= Len(k) /\ Len(k) <= Len(a) /\ Window \in Int
  BY LimiterAssumption DEF InStep, InOrder
<1>2. /\ \A i \in 1..Len(a) : a[i][1] \in Int
      /\ \A i \in 1..Len(a) - Len(r) : i \in 1..Len(a)
  BY <1>1
<1>3. ASSUME NEW i \in 1..Len(a) PROVE a[i][1] <= t + 1
  <2>1. a[i][1] <= t
    BY DEF InStep, InOrder
  <2> QED BY <1>2, <2>1
<1>4. ASSUME NEW i \in 1..Len(a) - Len(r) PROVE a[i][1] <= (t + 1) - Window
  <2>1. a[i][1] <= t - Window
    BY DEF InStep, InOrder
  <2>2. a[i][1] \in Int
    BY <1>2
  <2> QED BY <1>1, <2>1, <2>2
<1> QED BY <1>3, <1>4 DEF InStep

-----------------------------------------------------------------------------
(* The invariant, and what a step does to one key *)

LimiterInv ==
    /\ now \in Nat
    /\ requests \in [Keys -> Seq(Int)] /\ tokens \in [Keys -> Seq(Nat)]
    /\ admitted \in [Keys -> Seq(Int \X Nat)]
    /\ promise \in [Keys -> Int \cup {None}]
    /\ serving \in [Handlers -> Keys \cup {None}]
    /\ \A k \in Keys : InStep(admitted[k], requests[k], tokens[k], now)

Idle(k) ==
    /\ requests'[k] = requests[k] /\ tokens'[k] = tokens[k]
    /\ admitted'[k] = admitted[k] /\ promise'[k] = promise[k]
    /\ now' \in {now, now + 1}

Pruned(k) ==
    /\ requests'[k] = pruneTime(requests[k])
    /\ tokens'[k] \in {tokens[k], pruneTokens(pruneTime(requests[k]), tokens[k])}
    /\ admitted'[k] = admitted[k] /\ now' = now
    /\ \/ promise'[k] = promise[k]
       \/ OverRPM(k) /\ promise'[k] = now + RetryAfter(k)

Admits(k, n) ==
    /\ ~OverRPM(k) /\ ~OverTPM(k, n)
    /\ requests'[k] = Append(pruneTime(requests[k]), now)
    /\ tokens'[k] = Append(pruneTokens(pruneTime(requests[k]), tokens[k]), n)
    /\ admitted'[k] = Append(admitted[k], <<now, n>>)
    /\ promise'[k] = None /\ now' = now

LEMMA KeySteps ==
  ASSUME LimiterInv, [Next]_vars, NEW k \in Keys
  PROVE  Idle(k) \/ Pruned(k) \/ \E n \in Sizes : Admits(k, n)
<1> USE DEF LimiterInv
<1>1. ASSUME NEW h \in Handlers, NEW j \in Keys, NEW n \in Sizes, CheckAllowed(h, j, n)
      PROVE  Idle(k) \/ Admits(k, n)
  BY <1>1 DEF CheckAllowed, Idle, Admits
<1>2. ASSUME NEW h \in Handlers, NEW j \in Keys, NEW n \in Sizes, CheckOverTPM(h, j, n)
      PROVE  Idle(k) \/ Pruned(k)
  BY <1>2 DEF CheckOverTPM, Prune, Idle, Pruned
<1>3. ASSUME NEW h \in Handlers, NEW j \in Keys, CheckOverRPM(h, j)
      PROVE  Idle(k) \/ Pruned(k)
  BY <1>3 DEF CheckOverRPM, Prune, Idle, Pruned
<1>4. ASSUME NEW h \in Handlers, Stats(h) PROVE Idle(k) \/ Pruned(k)
  BY <1>4 DEF Stats, Prune, Idle, Pruned
<1>5. CASE Debug
  BY <1>5 DEF Debug, Pruned
<1>6. CASE Tick
  BY <1>6 DEF Tick, windows, Idle
<1>7. CASE UNCHANGED vars
  BY <1>7 DEF vars, windows, Idle
<1> QED BY <1>1, <1>2, <1>3, <1>4, <1>5, <1>6, <1>7 DEF Next

LEMMA InStepNext ==
  ASSUME LimiterInv, [Next]_vars, NEW k \in Keys
  PROVE  InStep(admitted[k], requests[k], tokens[k], now)'
<1>1. now \in Int /\ Window \in Int /\ InStep(admitted[k], requests[k], tokens[k], now)
  BY LimiterAssumption DEF LimiterInv
<1>2. CASE Idle(k)
  BY <1>1, <1>2, TickInStep DEF Idle
<1>3. CASE Pruned(k)
  BY <1>1, <1>3, PruneInStep DEF Pruned
<1>4. ASSUME NEW n \in Sizes, Admits(k, n)
      PROVE  InStep(admitted[k], requests[k], tokens[k], now)'
  <2> DEFINE p == pruneTime(requests[k])
             q == pruneTokens(p, tokens[k])
  <2>1. InStep(admitted[k], p, q, now) /\ Len(q) = Len(p)
    BY <1>1, PruneInStep
  <2>2. n \in Nat /\ Len(p) < RPM
    <3>1. Len(p) \in Nat /\ RPM \in Nat /\ n \in Nat
      BY <2>1, LimiterAssumption DEF InStep, InOrder
    <3> QED BY <1>4, <3>1 DEF Admits, OverRPM
  <2> HIDE DEF p, q
  <2>3. InStep(Append(admitted[k], <<now, n>>), Append(p, now), Append(q, n), now)
    BY <1>1, <2>1, <2>2, AppendInStep
  <2> QED BY <1>4, <2>3 DEF Admits, p, q
<1> QED BY <1>2, <1>3, <1>4, KeySteps

LEMMA LimiterInit == Init => LimiterInv
  BY LimiterAssumption DEF Init, LimiterInv, InStep, InOrder

\* time.Until rounded up is never early.
LEMMA RoundedUp ==
  ASSUME NEW a \in Int, NEW b \in Int
  PROVE  ((a - b) \div Second + 1) * Second \in Int
         /\ a <= b + ((a - b) \div Second + 1) * Second
<1>1. \A d \in Int : (d \div Second + 1) * Second > d /\ (d \div Second + 1) * Second \in Int
  BY LimiterAssumption
<1>2. a - b \in Int
  OBVIOUS
<1> DEFINE e == ((a - b) \div Second + 1) * Second
<1>3. e > a - b /\ e \in Int
  BY <1>1, <1>2
<1> HIDE DEF e
<1>4. a <= b + e
  BY <1>3
<1> QED BY <1>3, <1>4 DEF e

\* RetryAfter(k) is a number when there is something to wait for.
LEMMA RetryAfterEnough ==
  ASSUME LimiterInv, NEW k \in Keys, OverRPM(k)
  PROVE  /\ now + RetryAfter(k) \in Int
         /\ pruneTime(requests[k]) # <<>>
         /\ pruneTime(requests[k])[1] + Window <= now + RetryAfter(k)
<1> DEFINE p == pruneTime(requests[k])
<1>1. now \in Int /\ Window \in Int /\ RPM \in Nat /\ RPM > 0
  BY LimiterAssumption DEF LimiterInv
<1>2. p \in Seq(Int)
  BY <1>1, PruneInStep DEF LimiterInv, InStep, InOrder
<1>3. Len(p) >= RPM
  BY DEF OverRPM
<1>4. RetryAfter(k) = ((p[1] + Window - now) \div Second + 1) * Second
  BY DEF RetryAfter
<1> HIDE DEF p
<1>5. p[1] \in Int /\ p # <<>>
  BY <1>1, <1>2, <1>3
<1> DEFINE out == p[1] + Window
<1>6. out \in Int /\ RetryAfter(k) = ((out - now) \div Second + 1) * Second
  BY <1>1, <1>4, <1>5
<1> HIDE DEF out
<1>7. RetryAfter(k) \in Int /\ out <= now + RetryAfter(k)
  BY <1>1, <1>6, RoundedUp
<1> QED BY <1>1, <1>5, <1>7 DEF p, out

LEMMA LimiterNext == LimiterInv /\ [Next]_vars => LimiterInv'
<1> SUFFICES ASSUME LimiterInv, [Next]_vars PROVE LimiterInv'
  OBVIOUS
<1>1. \A k \in Keys : InStep(admitted[k], requests[k], tokens[k], now)'
  BY InStepNext
<1>2. /\ \A k \in Keys : /\ requests'[k] \in Seq(Int) /\ tokens'[k] \in Seq(Nat)
                         /\ admitted'[k] \in Seq(Int \X Nat)
      /\ \A k \in Keys : promise'[k] \in Int \cup {None}
  <2>1. ASSUME NEW k \in Keys PROVE promise'[k] \in Int \cup {None}
    <3>1. promise[k] \in Int \cup {None}
      BY DEF LimiterInv
    <3>2. OverRPM(k) => now + RetryAfter(k) \in Int
      BY RetryAfterEnough
    <3> QED BY <3>1, <3>2, KeySteps DEF Idle, Pruned, Admits
  <2> QED BY <1>1, <2>1 DEF InStep, InOrder
<1>3. /\ requests' = [k \in Keys |-> requests'[k]] /\ tokens' = [k \in Keys |-> tokens'[k]]
      /\ admitted' = [k \in Keys |-> admitted'[k]] /\ promise' = [k \in Keys |-> promise'[k]]
      /\ now' \in Nat
  BY DEF LimiterInv, Next, vars, windows, CheckAllowed, CheckOverTPM, CheckOverRPM, Stats,
         Prune, Debug, Tick
<1>4. serving' \in [Handlers -> Keys \cup {None}]
  <2>1. serving \in [Handlers -> Keys \cup {None}]
    BY DEF LimiterInv
  <2>2. \/ serving' = serving
        \/ \E h \in Handlers, j \in Keys \cup {None} : serving' = [serving EXCEPT ![h] = j]
    <3>1. ASSUME NEW h \in Handlers, NEW j \in Keys,
                 \/ \E n \in Sizes : CheckAllowed(h, j, n) \/ CheckOverTPM(h, j, n)
                 \/ CheckOverRPM(h, j)
          PROVE  \E i \in Keys \cup {None} : serving' = [serving EXCEPT ![h] = i]
      BY <3>1 DEF CheckAllowed, CheckOverTPM, CheckOverRPM, Busy
    <3>2. ASSUME NEW h \in Handlers, Stats(h)
          PROVE  serving' = [serving EXCEPT ![h] = None]
      BY <3>2 DEF Stats, Busy
    <3>3. Debug \/ Tick \/ UNCHANGED vars => serving' = serving
      BY DEF Debug, Tick, vars
    <3> QED BY <3>1, <3>2, <3>3 DEF Next
  <2> QED BY <2>1, <2>2
<1>5. /\ requests' \in [Keys -> Seq(Int)] /\ tokens' \in [Keys -> Seq(Nat)]
      /\ admitted' \in [Keys -> Seq(Int \X Nat)] /\ promise' \in [Keys -> Int \cup {None}]
  BY <1>2, <1>3
<1> QED BY <1>1, <1>3, <1>4, <1>5 DEF LimiterInv

LEMMA LimiterInvariant == Spec => []LimiterInv
  BY LimiterInit, LimiterNext, PTL DEF Spec

-----------------------------------------------------------------------------
(* Results *)

LEMMA LastOfPlaces ==
  ASSUME NEW s \in Seq(Int \X Nat), NEW n \in 0..Len(s)
  PROVE  /\ LastOf(s, n) \in Seq(Int \X Nat) /\ Len(LastOf(s, n)) = n
         /\ \A i \in 1..n : LastOf(s, n)[i] = s[Len(s) - n + i]
<1> DEFINE m == Len(s) - n + 1
<1>1. Len(s) \in Nat /\ n \in Nat /\ n <= Len(s) /\ m \in Int
  OBVIOUS
<1>2. \A i \in m..Len(s) : s[i] \in Int \X Nat
  <2>1. \A i \in m..Len(s) : i \in 1..Len(s)
    BY <1>1
  <2> QED BY <2>1
<1>3. /\ SubSeq(s, m, Len(s)) \in Seq(Int \X Nat)
      /\ Len(SubSeq(s, m, Len(s))) = IF m <= Len(s) THEN Len(s) - m + 1 ELSE 0
      /\ \A i \in 1..Len(s) - m + 1 : SubSeq(s, m, Len(s))[i] = s[m + i - 1]
  BY <1>1, <1>2, SubSeqProperties
<1>4. Len(s) - m + 1 = n /\ (m > Len(s) => n = 0)
  BY <1>1
<1>5. \A i \in 1..n : m + i - 1 = Len(s) - n + i
  BY <1>1
<1>6. LastOf(s, n) = SubSeq(s, m, Len(s))
  BY DEF LastOf
<1>7. Len(LastOf(s, n)) = n
  BY <1>1, <1>3, <1>4, <1>6
<1> HIDE DEF m
<1> QED BY <1>3, <1>4, <1>5, <1>6, <1>7

\* The two slices of a window stay in step: what check sums are the tokens of the
\* requests it counts, however often the debug endpoint pruned only the requests.
THEOREM WindowsAligned == Spec => []Aligned
<1>1. LimiterInv => Aligned
  <2> SUFFICES ASSUME LimiterInv, NEW k \in Keys
               PROVE  LET n == Len(requests[k]) IN
                      /\ n <= Len(tokens[k]) /\ Len(tokens[k]) <= Len(admitted[k])
                      /\ requests[k] = [i \in 1..n |-> LastOf(admitted[k], n)[i][1]]
                      /\ tokens[k] = SizesOf(LastOf(admitted[k], Len(tokens[k])))
    BY DEF Aligned
  <2> DEFINE a == admitted[k]
             r == requests[k]
             t == tokens[k]
  <2>1. /\ a \in Seq(Int \X Nat) /\ r \in Seq(Int) /\ t \in Seq(Nat)
        /\ Len(r) <= Len(t) /\ Len(t) <= Len(a)
        /\ \A i \in 1..Len(r) : r[i] = a[Len(a) - Len(r) + i][1]
        /\ \A i \in 1..Len(t) : t[i] = a[Len(a) - Len(t) + i][2]
    BY DEF LimiterInv, InStep, InOrder
  <2> HIDE DEF a, r, t
  <2>2. Len(r) \in 0..Len(a) /\ Len(t) \in 0..Len(a)
    BY <2>1
  <2>3. /\ Len(LastOf(a, Len(t))) = Len(t)
        /\ \A i \in 1..Len(r) : LastOf(a, Len(r))[i] = a[Len(a) - Len(r) + i]
        /\ \A i \in 1..Len(t) : LastOf(a, Len(t))[i] = a[Len(a) - Len(t) + i]
    BY <2>1, <2>2, LastOfPlaces
  <2>4. r = [i \in 1..Len(r) |-> r[i]] /\ t = [i \in 1..Len(t) |-> t[i]]
    BY <2>1
  <2>5. r = [i \in 1..Len(r) |-> LastOf(a, Len(r))[i][1]]
    BY <2>1, <2>3, <2>4
  <2>6. t = SizesOf(LastOf(a, Len(t)))
    <3>1. SizesOf(LastOf(a, Len(t))) = [i \in 1..Len(t) |-> LastOf(a, Len(t))[i][2]]
      BY <2>3 DEF SizesOf
    <3>2. \A i \in 1..Len(t) : t[i] = LastOf(a, Len(t))[i][2]
      BY <2>1, <2>3
    <3> QED BY <2>4, <3>1, <3>2
  <2> QED BY <2>1, <2>5, <2>6 DEF a, r, t
<1> QED BY <1>1, LimiterInvariant, PTL

(***************************************************************************)
(* LimitsKept for one key.  Runs that end before the request that is being *)
(* admitted do not change; a run that ends with it and fits in a minute    *)
(* begins with a request that check still has in its window.               *)
(***************************************************************************)
Within(a) ==
    \A i, j \in 1..Len(a) :
        i <= j /\ a[i][1] > a[j][1] - Window =>
            /\ j - i + 1 <= RPM
            /\ TPM > 0 => Total(SizesOf(SubSeq(a, i, j))) <= TPM

LEMMA SizesOfRun ==
  ASSUME NEW a \in Seq(Int \X Nat), NEW i \in 1..Len(a), NEW j \in 1..Len(a), i <= j
  PROVE  /\ SizesOf(SubSeq(a, i, j)) \in Seq(Nat)
         /\ Len(SizesOf(SubSeq(a, i, j))) = j - i + 1
         /\ \A m \in 1..j - i + 1 : SizesOf(SubSeq(a, i, j))[m] = a[i + m - 1][2]
<1> DEFINE b == SubSeq(a, i, j)
           n == j - i + 1
<1>1. Len(a) \in Nat /\ i \in Nat /\ j \in Nat /\ n \in Nat /\ i \in Int /\ j \in Int
  OBVIOUS
<1>2. \A m \in i..j : a[m] \in Int \X Nat
  <2>1. \A m \in i..j : m \in 1..Len(a)
    BY <1>1
  <2> QED BY <2>1
<1>3. /\ b \in Seq(Int \X Nat) /\ Len(b) = n
      /\ \A m \in 1..n : b[m] = a[i + m - 1]
  BY <1>1, <1>2, SubSeqProperties
<1> HIDE DEF b, n
<1>4. SizesOf(b) = [m \in 1..n |-> b[m][2]] /\ \A m \in 1..n : b[m][2] \in Nat
  BY <1>3 DEF SizesOf
<1>5. SizesOf(b) \in Seq(Nat) /\ Len(SizesOf(b)) = n
  BY <1>1, <1>4
<1> QED BY <1>3, <1>4, <1>5 DEF b, n

\* what check tests, and what it then admits
LEMMA AdmitWithin ==
  ASSUME now \in Int, NEW a, NEW p, NEW q, InStep(a, p, q, now), Len(p) = Len(q),
         Len(p) < RPM, NEW n \in Nat, TPM > 0 => Total(q) + n <= TPM, Within(a)
  PROVE  Within(Append(a, <<now, n>>))
<1> DEFINE b == Append(a, <<now, n>>)
<1>0. /\ a \in Seq(Int \X Nat) /\ p \in Seq(Int) /\ q \in Seq(Nat)
      /\ \A m \in 1..Len(a) : a[m][1] \in Int
  BY DEF InStep, InOrder
<1>1. /\ Len(a) \in Nat /\ Len(p) \in Nat /\ RPM \in Nat /\ TPM \in Nat /\ Window \in Nat
      /\ Len(p) <= Len(a) /\ Len(q) = Len(p)
  BY <1>0, LimiterAssumption DEF InStep, InOrder
<1>2. /\ b \in Seq(Int \X Nat) /\ Len(b) = Len(a) + 1 /\ b[Len(a) + 1] = <<now, n>>
      /\ \A m \in 1..Len(a) : b[m] = a[m]
  <2>1. <<now, n>> \in Int \X Nat
    OBVIOUS
  <2> QED BY <1>0, <2>1, AppendProperties
<1> HIDE DEF b
<1>9. Len(b) = Len(a) + 1
  BY <1>2
<1> SUFFICES ASSUME NEW i \in 1..Len(b), NEW j \in 1..Len(b), i <= j,
                    b[i][1] > b[j][1] - Window
             PROVE  /\ j - i + 1 <= RPM
                    /\ TPM > 0 => Total(SizesOf(SubSeq(b, i, j))) <= TPM
  BY DEF Within, b
<1> DEFINE t == SizesOf(SubSeq(b, i, j))
<1>3. /\ t \in Seq(Nat) /\ Len(t) = j - i + 1
      /\ \A m \in 1..j - i + 1 : t[m] = b[i + m - 1][2]
  BY <1>2, SizesOfRun
<1>4. CASE j # Len(a) + 1
  <2>1. i \in 1..Len(a) /\ j \in 1..Len(a)
    BY <1>1, <1>4, <1>9
  <2> DEFINE u == SizesOf(SubSeq(a, i, j))
  <2>2. /\ u \in Seq(Nat) /\ Len(u) = j - i + 1
        /\ \A m \in 1..j - i + 1 : u[m] = a[i + m - 1][2]
    BY <1>0, <2>1, SizesOfRun
  <2>3. \A m \in 1..j - i + 1 : i + m - 1 \in 1..Len(a)
    BY <1>1, <2>1
  <2>4. \A m \in 1..j - i + 1 : t[m] = u[m]
    BY <1>2, <1>3, <2>2, <2>3
  <2>5. t = u
    BY <1>3, <2>2, <2>4, SeqEqual
  <2>6. a[i][1] > a[j][1] - Window
    BY <1>2, <2>1
  <2> QED BY <2>1, <2>5, <2>6 DEF Within
<1>5. CASE j = Len(a) + 1
  <2>1. i = j \/ (i \in 1..Len(a) /\ i > Len(a) - Len(p))
    <3> SUFFICES ASSUME i # j PROVE i \in 1..Len(a) /\ i > Len(a) - Len(p)
      OBVIOUS
    <3>1. i \in 1..Len(a)
      BY <1>1, <1>5, <1>9
    <3>2. a[i][1] > now - Window /\ a[i][1] \in Int
      <4>1. b[i] = a[i] /\ b[j][1] = now
        BY <1>2, <1>5, <3>1
      <4> QED BY <1>0, <3>1, <4>1
    <3>3. ASSUME i \in 1..Len(a) - Len(p) PROVE FALSE
      <4>1. a[i][1] <= now - Window
        BY <3>3 DEF InStep
      <4> QED BY <1>1, <3>2, <4>1
    <3> QED BY <1>1, <3>1, <3>3
  <2>2. j - i + 1 <= RPM
    BY <1>1, <1>5, <2>1
  <2>3. ASSUME TPM > 0 PROVE Total(t) <= TPM
    <3> DEFINE d == Len(p) - (Len(a) + 1 - i)
               v == Append(q, n)
    <3>1. /\ v \in Seq(Nat) /\ Len(v) = Len(p) + 1 /\ v[Len(p) + 1] = n
          /\ \A m \in 1..Len(p) : v[m] = q[m]
      BY <1>0, <1>1, AppendProperties
    <3> HIDE DEF v
    <3>2. Total(v) = Total(q) + n
      BY <1>0, <1>1, <3>1, TotalAppend
    <3>3. d \in Nat /\ Len(v) = d + Len(t)
      <4>1. Len(t) = j - i + 1 /\ Len(v) = Len(p) + 1 /\ i \in Nat
        BY <1>3, <3>1
      <4> HIDE DEF t
      <4> QED BY <1>1, <1>5, <2>1, <4>1
    <3>4. ASSUME NEW m \in 1..Len(t) PROVE t[m] = v[d + m]
      <4> HIDE DEF t
      <4>0. m \in 1..j - i + 1
        BY <1>3
      <4>1. t[m] = b[i + m - 1][2]
        BY <1>3, <4>0
      <4>2. CASE i + m - 1 = Len(a) + 1
        <5>1. d + m = Len(p) + 1
          <6>1. i \in Nat /\ m \in Nat
            BY <1>1, <1>9, <4>0
          <6>2. \A x, y \in Nat : i + m - 1 = y + 1 => (x - (y + 1 - i)) + m = x + 1
            BY <6>1
          <6> QED BY <1>1, <4>2, <6>2
        <5>2. v[d + m] = n
          BY <3>1, <5>1
        <5>3. b[i + m - 1] = <<now, n>>
          BY <1>2, <4>2
        <5>4. t[m] = n
          BY <4>1, <5>3
        <5> QED BY <5>2, <5>4
      <4>3. CASE i + m - 1 # Len(a) + 1
        <5>1. /\ i + m - 1 \in 1..Len(a) /\ d + m \in 1..Len(p)
              /\ Len(a) - Len(q) + (d + m) = i + m - 1
          BY <1>1, <1>5, <2>1, <4>0, <4>3
        <5>2. q[d + m] = a[Len(a) - Len(q) + (d + m)][2]
          BY <1>1, <5>1 DEF InStep, InOrder
        <5> QED BY <1>2, <3>1, <4>1, <5>1, <5>2
      <4> QED BY <4>2, <4>3
    <3>5. Total(t) <= Total(v)
      <4> HIDE DEF d, t
      <4> QED BY <1>3, <3>1, <3>3, <3>4, TotalSuffix
    <3>6. Total(t) \in Nat /\ Total(v) \in Nat /\ Total(q) + n <= TPM
      BY <1>0, <1>1, <1>3, <2>3, <3>1, TotalIsNat
    <3> QED BY <1>1, <3>2, <3>5, <3>6
  <2> QED BY <2>2, <2>3
<1> QED BY <1>4, <1>5

\* No minute has more than rpmLimit requests of a key, nor more than tpmLimit tokens,
\* although check only looks at what several prunings have left of the window.
THEOREM NoMinuteOverLimits == Spec => []LimitsKept
<1>1. Init => LimitsKept
  BY DEF Init, LimitsKept
<1>2. LimiterInv /\ LimitsKept /\ [Next]_vars => LimitsKept'
  <2> SUFFICES ASSUME LimiterInv, LimitsKept, [Next]_vars, NEW k \in Keys
               PROVE  Within(admitted'[k])
    BY DEF LimitsKept, Within
  <2>1. Within(admitted[k])
    BY DEF LimitsKept, Within
  <2>2. ASSUME NEW n \in Sizes, Admits(k, n) PROVE Within(admitted'[k])
    <3> DEFINE p == pruneTime(requests[k])
               q == pruneTokens(p, tokens[k])
    <3>1. now \in Int /\ RPM \in Nat /\ TPM \in Nat /\ n \in Nat
      BY LimiterAssumption DEF LimiterInv
    <3>2. InStep(admitted[k], p, q, now) /\ Len(q) = Len(p)
      BY <3>1, PruneInStep DEF LimiterInv
    <3>3. Len(p) \in Nat /\ q \in Seq(Nat)
      BY <3>2 DEF InStep, InOrder
    <3>4. Total(q) \in Nat
      BY <3>3, TotalIsNat
    <3>5. ~ (Len(p) >= RPM) /\ ~ (TPM > 0 /\ Total(q) + n > TPM)
      BY <2>2 DEF Admits, OverRPM, OverTPM
    <3> HIDE DEF p, q
    <3>6. Len(p) < RPM /\ (TPM > 0 => Total(q) + n <= TPM)
      BY <3>1, <3>3, <3>4, <3>5
    <3>7. Within(Append(admitted[k], <<now, n>>))
      BY <2>1, <3>1, <3>2, <3>6, AdmitWithin
    <3> QED BY <2>2, <3>7 DEF Admits
  <2> QED BY <2>1, <2>2, KeySteps DEF Idle, Pruned
<1> QED BY <1>1, <1>2, LimiterInvariant, PTL DEF Spec

(***************************************************************************)
(* A full window's oldest request is out of it by the time that was        *)
(* promised, and no other request can be admitted to the key meanwhile     *)
(* without the promise being dropped.                                      *)
(***************************************************************************)
PromiseInv ==
    \A k \in Keys : promise[k] # None =>
        Len(requests[k]) < RPM \/ requests[k][1] + Window <= promise[k]

\* A client that waits as long as Retry-After says is not refused for RPM again,
\* unless somebody used the key in between.
THEOREM RetryAfterTrue == Spec => []RetryHonoured
<1>1. Init => PromiseInv
  BY DEF Init, PromiseInv
<1>2. LimiterInv /\ PromiseInv /\ [Next]_vars => PromiseInv'
  <2> SUFFICES ASSUME LimiterInv, PromiseInv, [Next]_vars, NEW k \in Keys,
                      promise'[k] # None
               PROVE  Len(requests'[k]) < RPM \/ requests'[k][1] + Window <= promise'[k]
    BY DEF PromiseInv
  <2>1. CASE Idle(k)
    BY <2>1 DEF Idle, PromiseInv
  <2>2. CASE Pruned(k)
    <3> DEFINE r == requests[k]
               p == pruneTime(r)
    <3>1. now \in Int /\ InStep(admitted[k], r, tokens[k], now)
      BY DEF LimiterInv
    <3>2. IsEnd(p, r) /\ Len(p) <= Len(r) /\ InStep(admitted[k], p, tokens[k], now)
      BY <3>1, PruneInStep
    <3>3. Len(p) \in Nat /\ Len(r) \in Nat /\ RPM \in Nat /\ RPM > 0 /\ Len(r) <= RPM
      BY <3>1, <3>2, LimiterAssumption DEF InStep, InOrder
    <3>4. CASE promise'[k] = promise[k]
      <4>1. Len(r) < RPM \/ r[1] + Window <= promise[k]
        BY <3>4 DEF PromiseInv
      <4> HIDE DEF p, r
      <4>2. Len(p) = RPM => Len(r) = Len(p) /\ 1 \in 1..Len(p) /\ (Len(r) - Len(p)) + 1 = 1
        BY <3>2, <3>3
      <4>3. Len(p) = RPM => p[1] = r[1]
        BY <3>2, <4>2 DEF IsEnd
      <4>4. Len(p) < RPM \/ p[1] + Window <= promise[k]
        BY <3>2, <3>3, <4>1, <4>2, <4>3
      <4> QED BY <2>2, <3>4, <4>4 DEF Pruned, p, r
    <3>5. CASE OverRPM(k) /\ promise'[k] = now + RetryAfter(k)
      BY <2>2, <3>5, RetryAfterEnough DEF Pruned
    <3> QED BY <2>2, <3>4, <3>5 DEF Pruned
  <2>3. CASE \E n \in Sizes : Admits(k, n)
    BY <2>3 DEF Admits
  <2> QED BY <2>1, <2>2, <2>3, KeySteps
<1>3. LimiterInv /\ PromiseInv => RetryHonoured
  <2> SUFFICES ASSUME LimiterInv, PromiseInv, NEW k \in Keys, promise[k] # None,
                      now >= promise[k]
               PROVE  ~OverRPM(k)
    BY DEF RetryHonoured
  <2> DEFINE r == requests[k]
             p == pruneTime(r)
  <2>1. now \in Int /\ Window \in Int /\ promise[k] \in Int
        /\ InStep(admitted[k], r, tokens[k], now)
    BY LimiterAssumption DEF LimiterInv
  <2>2. /\ InStep(admitted[k], p, tokens[k], now) /\ Len(p) <= Len(r)
        /\ \A i \in 1..Len(r) : Recent(r[i]) <=> i > Len(r) - Len(p)
    BY <2>1, PruneInStep
  <2>3. /\ Len(p) \in Nat /\ Len(r) \in Nat /\ RPM \in Nat /\ RPM > 0 /\ Len(r) <= RPM
        /\ r \in Seq(Int)
    BY <2>1, <2>2, LimiterAssumption DEF InStep, InOrder
  <2>4. Len(r) < RPM \/ r[1] + Window <= promise[k]
    BY DEF PromiseInv
  <2> HIDE DEF r, p
  <2>5. Len(p) < RPM
    <3> SUFFICES ASSUME Len(p) >= RPM PROVE FALSE
      BY <2>3
    <3>1. 1 \in 1..Len(r) /\ 1 > Len(r) - Len(p) /\ ~ (Len(r) < RPM)
      BY <2>2, <2>3
    <3>2. Recent(r[1]) /\ r[1] \in Int
      BY <2>2, <2>3, <3>1
    <3> QED BY <2>1, <2>4, <3>1, <3>2 DEF Recent
  <2> QED BY <2>3, <2>5 DEF OverRPM, p, r
<1> QED BY <1>1, <1>2, <1>3, LimiterInvariant, PTL DEF Spec
=============================================================================
