-------------------------- MODULE SandboxClaims_proofs --------------------------
(* Theorems about SandboxClaims, for any number of goroutines that create      *)
(* sandboxes, any gcTimeout, and any length of the clock.                       *)
EXTENDS SandboxClaims, FiniteSetTheorems, TLAPS

LEMMA TypeInit == Init => TypeOK
  BY ClaimsAssumption DEF Init, TypeOK, Names, Phases

LEMMA TypeNext == TypeOK /\ [Next]_vars => TypeOK'
<1> SUFFICES ASSUME TypeOK, [Next]_vars PROVE TypeOK'
  OBVIOUS
<1> USE ClaimsAssumption DEF TypeOK, Names, Phases, provider, server, sweep, Goto
<1>m. ASSUME Mishap PROVE mishaps' \in 0..MaxMishaps
  BY <1>m DEF Mishap
<1>1. ASSUME NEW n \in Names, Remove(n)
      PROVE  phase' \in [Names -> Phases] /\ born' \in [Names -> Names]
             /\ owner' \in [Names -> Creators \cup {None}]
  BY <1>1 DEF Remove
<1>2. ASSUME NEW n \in Names, NEW c \in Creators, Accept(n, c)
      PROVE  phase' \in [Names -> Phases] /\ born' \in [Names -> Names]
             /\ owner' \in [Names -> Creators \cup {None}] /\ reused' \subseteq Names
  BY <1>2 DEF Accept
<1>3. ASSUME NEW c \in Creators, Return(c)
      PROVE  /\ pc' \in [Creators -> {"idle", "creating", "poll", "cleanup", "held"}]
             /\ claim' \in [Creators -> Names] /\ cancelled' \in [Creators -> BOOLEAN]
  BY <1>3 DEF Return
<1>4. ASSUME NEW c \in Creators, NameClaim(c) PROVE TypeOK'
  BY <1>4 DEF NameClaim, Readings
<1>5. ASSUME NEW c \in Creators, CreateClaim(c) PROVE TypeOK'
  BY <1>2, <1>5 DEF CreateClaim
<1>6. ASSUME NEW c \in Creators, CreateError(c) PROVE TypeOK'
  <2>1. CASE UNCHANGED <<server, reused, mishaps>>
    BY <1>3, <1>6, <2>1 DEF CreateError
  <2>2. CASE Accept(claim[c], c) /\ Mishap
    BY <1>m, <1>2, <1>3, <1>6, <2>2 DEF CreateError
  <2> QED BY <1>6, <2>1, <2>2 DEF CreateError
<1>7. ASSUME NEW c \in Creators, PollReady(c) PROVE TypeOK'
  BY <1>7 DEF PollReady
<1>8. ASSUME NEW c \in Creators, PollFails(c) PROVE TypeOK'
  BY <1>8 DEF PollFails
<1>9. ASSUME NEW c \in Creators, Cancel(c) PROVE TypeOK'
  BY <1>m, <1>9 DEF Cancel
<1>10. ASSUME NEW c \in Creators, DeleteAndReturn(c), UNCHANGED <<now, mishaps, sweep>>
       PROVE  TypeOK'
  BY <1>1, <1>3, <1>10 DEF DeleteAndReturn, Victims, Working
<1>11. ASSUME NEW c \in Creators, Cleanup(c) PROVE TypeOK'
  <2>1. CASE DeleteAndReturn(c) /\ UNCHANGED mishaps
    BY <1>10, <1>11, <2>1 DEF Cleanup
  <2>2. CASE Return(c) /\ robbed' = robbed \ {c} /\ UNCHANGED server
             /\ (Mishap \/ UNCHANGED mishaps)
    BY <1>m, <1>3, <1>11, <2>2 DEF Cleanup
  <2> QED BY <1>11, <2>1, <2>2 DEF Cleanup
<1>12. ASSUME NEW c \in Creators, DeleteSandbox(c) PROVE TypeOK'
  <2>1. CASE DeleteAndReturn(c)
    BY <1>10, <1>12, <2>1 DEF DeleteSandbox
  <2>2. CASE Remove(claim[c]) /\ robbed' = robbed \cup Victims(claim[c]) /\ UNCHANGED provider
    BY <1>1, <1>12, <2>2 DEF DeleteSandbox, Victims, Working
  <2>3. CASE UNCHANGED <<server, provider, robbed>>
    BY <1>12, <2>3 DEF DeleteSandbox
  <2> QED BY <1>12, <2>1, <2>2, <2>3 DEF DeleteSandbox
<1>13. ASSUME NEW c \in Creators, Crash(c) PROVE TypeOK'
  BY <1>m, <1>3, <1>13 DEF Crash
<1>14. ASSUME NEW n \in Names, Advance(n) PROVE TypeOK'
  BY <1>14 DEF Advance, Terminal
<1>15. ASSUME NEW n \in Names, SweepDelete(n) PROVE TypeOK'
  <2>1. CASE Remove(n) /\ robbed' = robbed \cup Victims(n)
    BY <1>1, <1>15, <2>1 DEF SweepDelete, Victims, Working
  <2>2. CASE UNCHANGED <<server, robbed>>
    BY <1>15, <2>2 DEF SweepDelete
  <2> QED BY <1>15, <2>1, <2>2 DEF SweepDelete
<1>16. CASE Sweep BY <1>16 DEF Sweep
<1>17. CASE Tick
  <2>1. now' \in Names
    BY <1>17 DEF Tick
  <2> QED BY <1>17, <2>1 DEF Tick
<1>18. CASE UNCHANGED vars BY <1>18 DEF vars
<1> QED BY <1>4, <1>5, <1>6, <1>7, <1>8, <1>9, <1>11, <1>12, <1>13, <1>14, <1>15, <1>16,
           <1>17, <1>18 DEF Next

\* CreateSandbox, DeleteSandbox and cleanupOrphaned, with all their failures, keep
\* claims, provider calls and the controller's list in their types.
THEOREM TypeCorrect == Spec => []TypeOK
  BY TypeInit, TypeNext, PTL DEF Spec

-----------------------------------------------------------------------------
(***************************************************************************)
(* The inductive invariant.  OwnInv: a goroutine that was not robbed still *)
(* has the very claim it created; the server's refusal of taken names and  *)
(* the history of deletions make it so, whatever the clocks say.           *)
(* DoomedInv: a listed claim that is still there and was not created again *)
(* is still terminal, and has not become younger.                          *)
(***************************************************************************)
OwnInv ==
    \A c \in Working \ robbed : Exists(claim[c]) /\ owner[claim[c]] = c

DoomedInv ==
    \A n \in doomed \ reused :
        Exists(n) => phase[n] \in Terminal /\ born[n] < now + SweepSkew - GcTimeout

ClaimsInv == OwnInv /\ DoomedInv /\ robbed \subseteq Working

LEMMA ClaimsInit == Init => ClaimsInv
  BY DEF Init, ClaimsInv, OwnInv, DoomedInv, Working

\* What a deletion by name does to the two parts of the invariant, whoever asked
\* for it: those who lose their claim are recorded as robbed.
LEMMA RemoveKeeps ==
  ASSUME TypeOK, ClaimsInv, NEW n \in Names, Exists(n), Remove(n), now' = now,
         doomed' \subseteq doomed, doomed' \ reused' \subseteq doomed \ reused,
         \A c \in Working' : c \in Working /\ claim'[c] = claim[c]
                               /\ (c \in robbed \cup Victims(n) => c \in robbed'),
         robbed' \subseteq Working'
  PROVE  ClaimsInv'
<1>1. OwnInv'
  <2> SUFFICES ASSUME NEW c \in Working' \ robbed'
               PROVE  Exists(claim[c])' /\ owner'[claim'[c]] = c
    BY DEF OwnInv
  <2>1. c \in Working \ robbed /\ claim'[c] = claim[c] /\ c \notin Victims(n)
    OBVIOUS
  <2>2. Exists(claim[c]) /\ owner[claim[c]] = c
    BY <2>1 DEF ClaimsInv, OwnInv
  <2>3. claim[c] # n
    BY <2>1, <2>2 DEF Victims
  <2>4. c \in Creators /\ claim[c] \in Names
    BY <2>1 DEF Working, TypeOK
  <2> QED BY <2>1, <2>2, <2>3, <2>4 DEF Exists, Remove, TypeOK
<1>2. DoomedInv'
  BY DEF ClaimsInv, DoomedInv, Exists, Remove, TypeOK
<1> QED BY <1>1, <1>2 DEF ClaimsInv

LEMMA ClaimsNext == TypeOK /\ ClaimsInv /\ [Next]_vars => ClaimsInv'
<1> SUFFICES ASSUME TypeOK, ClaimsInv, [Next]_vars PROVE ClaimsInv'
  OBVIOUS
<1> USE ClaimsAssumption
    DEF TypeOK, Names, Phases, Terminal, Exists, provider, server, sweep, Goto, Return,
        Working, ClaimsInv, OwnInv, DoomedInv
<1>1. ASSUME NEW c \in Creators, NameClaim(c) PROVE ClaimsInv'
  BY <1>1 DEF NameClaim
<1>2. ASSUME NEW c \in Creators, pc[c] = "creating", ~Exists(claim[c]), Accept(claim[c], c),
             \A d \in Creators \ {c} : pc'[d] = pc[d] /\ claim'[d] = claim[d],
             pc'[c] \in {"idle", "poll"}, pc'[c] = "poll" => claim'[c] = claim[c],
             UNCHANGED <<now, robbed, gpc, doomed>>
      PROVE  ClaimsInv'
  <2>1. Working' \subseteq Working \cup {c} /\ c \notin Working /\ Working \subseteq Working'
    BY <1>2
  <2>2. OwnInv'
    <3> SUFFICES ASSUME NEW d \in Working' \ robbed'
                 PROVE  Exists(claim[d])' /\ owner'[claim'[d]] = d
      BY DEF OwnInv
    <3>1. CASE d = c
      BY <1>2, <3>1 DEF Accept
    <3>2. CASE d # c
      <4>1. d \in Working \ robbed /\ claim'[d] = claim[d] /\ d \in Creators
        BY <1>2, <2>1, <3>2
      <4>2. Exists(claim[d]) /\ owner[claim[d]] = d
        BY <4>1
      <4>3. claim[d] # claim[c]
        BY <1>2, <4>2
      <4> QED BY <1>2, <4>1, <4>2, <4>3 DEF Accept
    <3> QED BY <3>1, <3>2
  <2>3. DoomedInv'
    BY <1>2 DEF Accept
  <2> QED BY <1>2, <2>1, <2>2, <2>3
<1>3. ASSUME NEW c \in Creators, CreateClaim(c) PROVE ClaimsInv'
  BY <1>2, <1>3 DEF CreateClaim
<1>4. ASSUME NEW c \in Creators, CreateError(c) PROVE ClaimsInv'
  <2>1. CASE UNCHANGED <<server, reused, mishaps>>
    BY <1>4, <2>1 DEF CreateError
  <2>2. CASE ~Exists(claim[c]) /\ Accept(claim[c], c)
    BY <1>2, <1>4, <2>2 DEF CreateError
  <2> QED BY <1>4, <2>1, <2>2 DEF CreateError
<1>5. ASSUME NEW c \in Creators, PollReady(c) PROVE ClaimsInv'
  BY <1>5 DEF PollReady
<1>6. ASSUME NEW c \in Creators, PollFails(c) PROVE ClaimsInv'
  BY <1>6 DEF PollFails
<1>7. ASSUME NEW c \in Creators, Cancel(c) PROVE ClaimsInv'
  BY <1>7 DEF Cancel
<1>8. ASSUME NEW c \in Creators, Return(c), robbed' = robbed \ {c},
             UNCHANGED <<server, now, sweep>>
      PROVE  ClaimsInv'
  BY <1>8
<1>9. ASSUME NEW c \in Creators, pc[c] \in {"cleanup", "held"}, DeleteAndReturn(c),
             UNCHANGED <<now, sweep>>
      PROVE  ClaimsInv'
  <2>1. claim[c] \in Names /\ Exists(claim[c]) /\ Remove(claim[c])
    BY <1>9 DEF DeleteAndReturn
  <2>2. Working' = Working \ {c} /\ \A d \in Working' : claim'[d] = claim[d]
    BY <1>9 DEF DeleteAndReturn
  <2>3. robbed' = (robbed \cup Victims(claim[c])) \ {c} /\ Victims(claim[c]) \subseteq Working
    BY <1>9 DEF DeleteAndReturn, Victims
  <2> HIDE DEF TypeOK, Exists, Working, ClaimsInv
  <2>4. UNCHANGED <<now, doomed, reused>>
    BY <1>9
  <2>5. robbed \subseteq Working
    BY DEF ClaimsInv
  <2> QED BY <2>1, <2>2, <2>3, <2>4, <2>5, RemoveKeeps
<1>10. ASSUME NEW c \in Creators, Cleanup(c) PROVE ClaimsInv'
  <2>1. CASE DeleteAndReturn(c)
    BY <1>9, <1>10, <2>1 DEF Cleanup
  <2>2. CASE Return(c) /\ robbed' = robbed \ {c} /\ UNCHANGED server
    BY <1>8, <1>10, <2>2 DEF Cleanup
  <2> QED BY <1>10, <2>1, <2>2 DEF Cleanup
<1>11. ASSUME NEW c \in Creators, DeleteSandbox(c) PROVE ClaimsInv'
  <2>1. CASE DeleteAndReturn(c)
    BY <1>9, <1>11, <2>1 DEF DeleteSandbox
  <2>2. CASE Exists(claim[c]) /\ Remove(claim[c]) /\ robbed' = robbed \cup Victims(claim[c])
             /\ UNCHANGED provider
    <3>1. claim[c] \in Names /\ Working' = Working /\ claim' = claim
      BY <2>2
    <3>2. Victims(claim[c]) \subseteq Working
      BY DEF Victims
    <3>3. UNCHANGED <<now, doomed, reused>>
      BY <1>11 DEF DeleteSandbox
    <3> HIDE DEF TypeOK, Exists, Working, ClaimsInv
    <3>4. robbed \subseteq Working
      BY DEF ClaimsInv
    <3> QED BY <2>2, <3>1, <3>2, <3>3, <3>4, RemoveKeeps
  <2>3. CASE UNCHANGED <<server, provider, robbed>>
    BY <1>11, <2>3 DEF DeleteSandbox
  <2> QED BY <1>11, <2>1, <2>2, <2>3 DEF DeleteSandbox
<1>12. ASSUME NEW c \in Creators, Crash(c) PROVE ClaimsInv'
  BY <1>8, <1>12 DEF Crash
<1>13. ASSUME NEW n \in Names, Advance(n) PROVE ClaimsInv'
  <2>1. PICK x \in Phases \ {"absent"} : phase' = [phase EXCEPT ![n] = x]
    BY <1>13 DEF Advance
  <2>2. Exists(n) /\ phase[n] \notin Terminal
    BY <1>13 DEF Advance
  <2>3. UNCHANGED <<now, born, owner, pc, claim, robbed, doomed, reused>>
    BY <1>13 DEF Advance
  <2>4. \A m \in Names : Exists(m)' <=> Exists(m)
    BY <2>1, <2>2
  <2>5. OwnInv' /\ robbed' \subseteq Working'
    BY <2>3, <2>4
  <2>6. n \notin doomed \ reused
    BY <2>2
  <2>7. DoomedInv'
    BY <2>1, <2>3, <2>6
  <2> QED BY <2>5, <2>7
<1>14. ASSUME NEW n \in Names, SweepDelete(n) PROVE ClaimsInv'
  <2>1. CASE Exists(n) /\ Remove(n) /\ robbed' = robbed \cup Victims(n)
    <3>1. Working' = Working /\ claim' = claim /\ now' = now
      BY <1>14 DEF SweepDelete
    <3>2. Victims(n) \subseteq Working
      BY DEF Victims
    <3>3. doomed' = doomed \ {n} /\ reused' = reused \ {n}
      BY <1>14 DEF SweepDelete
    <3> HIDE DEF TypeOK, Exists, Working, ClaimsInv
    <3>4. robbed \subseteq Working
      BY DEF ClaimsInv
    <3> QED BY <2>1, <3>1, <3>2, <3>3, <3>4, RemoveKeeps
  <2>2. CASE UNCHANGED <<server, robbed>>
    BY <1>14, <2>2 DEF SweepDelete
  <2> QED BY <1>14, <2>1, <2>2 DEF SweepDelete
<1>15. CASE Sweep
  <2>1. PICK u \in (now - SweepSkew)..(now + SweepSkew) :
          doomed' = {n \in Names : Orphaned(n, u)}
    BY <1>15 DEF Sweep
  <2>2. \A n \in Names : Orphaned(n, u) =>
          phase[n] \in Terminal /\ born[n] < now + SweepSkew - GcTimeout
    BY <2>1, ClaimsAssumption DEF Orphaned, Names
  <2>3. UNCHANGED <<now, phase, born, owner, pc, claim, robbed>>
    BY <1>15 DEF Sweep
  <2>4. DoomedInv'
    BY <2>1, <2>2, <2>3
  <2>5. OwnInv' /\ robbed' \subseteq Working'
    BY <2>3
  <2> QED BY <2>4, <2>5
<1>16. CASE Tick BY <1>16 DEF Tick
<1>17. CASE UNCHANGED vars BY <1>17 DEF vars
<1> QED BY <1>1, <1>3, <1>4, <1>5, <1>6, <1>7, <1>10, <1>11, <1>12, <1>13, <1>14, <1>15,
           <1>16, <1>17 DEF Next

LEMMA ClaimsInvariant == Spec => [](TypeOK /\ ClaimsInv)
  BY TypeInit, TypeNext, ClaimsInit, ClaimsNext, PTL DEF Spec

\* Replicas that choose the same name for their claims, by whatever clocks and
\* however late their requests are accepted, never poll for, hold or clean up the
\* same sandbox, except one whose claim was deleted without its being told.
THEOREM CreatorsDistinct == Spec => []OneCreatorPerClaim
<1>1. ClaimsInv => OneCreatorPerClaim
  BY DEF ClaimsInv, OwnInv, OneCreatorPerClaim
<1> QED BY <1>1, ClaimsInvariant, PTL

\* CreateSandbox's cleanup and DeleteSandbox delete by name and never hit the
\* claim of somebody else, unless the goroutine's own claim was deleted without its
\* being told: by a sweep, by its own delete whose answer was lost, or by another
\* such goroutine.
THEOREM OwnClaimsDeleted == Spec => NoForeignDelete
<1>1. TypeOK /\ ClaimsInv /\ [Next]_vars =>
        [\A c \in Creators : (Cleanup(c) \/ DeleteSandbox(c)) =>
          \A n \in Names : Exists(n) /\ ~Exists(n)' => owner[n] = c \/ c \in robbed]_vars
  <2>1. ASSUME TypeOK, ClaimsInv, NEW c \in Creators, Cleanup(c) \/ DeleteSandbox(c),
               NEW n \in Names, Exists(n), ~Exists(n)'
        PROVE  owner[n] = c \/ c \in robbed
    <3>1. c \in Working /\ claim[c] \in Names
      BY <2>1 DEF Cleanup, DeleteSandbox, Working, TypeOK
    <3>2. Remove(claim[c]) \/ UNCHANGED server
      BY <2>1 DEF Cleanup, DeleteSandbox, DeleteAndReturn
    <3>3. n = claim[c]
      BY <2>1, <3>1, <3>2 DEF Remove, server, Exists, TypeOK
    <3> QED BY <2>1, <3>1, <3>3 DEF ClaimsInv, OwnInv
  <2> QED BY <2>1
<1> QED BY <1>1, ClaimsInvariant, PTL DEF Spec, NoForeignDelete

\* cleanupOrphaned deletes from a stale list by name, and what it hits is terminal
\* and older than gcTimeout, unless the name was created again since the list: a
\* phase does not come back from Failed or Completed.
THEOREM SweepsSafe == Spec => SweepsOnlyOldTerminal
<1>1. TypeOK /\ ClaimsInv /\ [Next]_vars =>
        [\A n \in Names : n \in doomed \ doomed' /\ Exists(n) /\ n \notin reused =>
            phase[n] \in Terminal /\ born[n] < now + SweepSkew - GcTimeout]_vars
  BY DEF ClaimsInv, DoomedInv
<1> QED BY <1>1, ClaimsInvariant, PTL DEF Spec, SweepsOnlyOldTerminal

-----------------------------------------------------------------------------
(***************************************************************************)
(* Stranded claims are counted by mishaps, but a cancelled context is paid *)
(* for before it does its harm: the mishap is Cancel, the claim is left    *)
(* behind by the Cleanup that follows.  AtRisk also holds the claims of    *)
(* the goroutines whose context is cancelled, and that set is inductive.   *)
(***************************************************************************)
AtRisk ==
    {n \in Names : \/ Exists(n) /\ \A c \in Working : claim[c] # n
                   \/ \E c \in Working : cancelled[c] /\ claim[c] = n}

RiskInv == /\ \A c \in Creators : cancelled[c] => c \in Working
           /\ Cardinality(AtRisk) <= mishaps

\* One element more makes a set larger by at most one.
LEMMA OneMore ==
  ASSUME NEW S, IsFiniteSet(S), NEW T, NEW x, T \subseteq S \cup {x}
  PROVE  Cardinality(T) <= Cardinality(S) + 1
<1>1. /\ IsFiniteSet(S \cup {x})
      /\ Cardinality(S \cup {x}) = IF x \in S THEN Cardinality(S) ELSE Cardinality(S) + 1
  BY FS_AddElement
<1>2. IsFiniteSet(T) /\ Cardinality(T) <= Cardinality(S \cup {x})
  BY <1>1, FS_Subset
<1>3. Cardinality(S) \in Nat /\ Cardinality(T) \in Nat
  BY <1>2, FS_CardinalityType
<1> QED BY <1>1, <1>2, <1>3

LEMMA RiskFinite == IsFiniteSet(AtRisk)
<1>1. IsFiniteSet(Names)
  BY FS_Interval, ClaimsAssumption DEF Names
<1> QED BY <1>1, FS_Subset DEF AtRisk

LEMMA RiskInit == Init => RiskInv
<1> SUFFICES ASSUME Init PROVE RiskInv
  OBVIOUS
<1>1. AtRisk = {}
  BY DEF Init, AtRisk, Working, Exists
<1>2. Cardinality(AtRisk) = 0
  BY <1>1, FS_EmptySet
<1> QED BY <1>2 DEF Init, RiskInv

LEMMA CancelNext == TypeOK /\ RiskInv /\ [Next]_vars =>
                    \A c \in Creators : cancelled'[c] => c \in Working'
<1> SUFFICES ASSUME TypeOK, RiskInv, [Next]_vars, NEW d \in Creators, cancelled'[d]
             PROVE  d \in Working'
  OBVIOUS
<1> USE DEF TypeOK, RiskInv, provider, Goto, Return, Working
<1>1. ASSUME NEW c \in Creators, NameClaim(c) \/ CreateClaim(c) PROVE d \in Working'
  BY <1>1 DEF NameClaim, CreateClaim
<1>2. ASSUME NEW c \in Creators, PollReady(c) \/ PollFails(c) PROVE d \in Working'
  BY <1>2 DEF PollReady, PollFails
<1>3. ASSUME NEW c \in Creators, Cancel(c) PROVE d \in Working'
  BY <1>3 DEF Cancel
<1>4. ASSUME NEW c \in Creators, Return(c) PROVE d \in Working'
  BY <1>4
<1>5. CASE UNCHANGED provider
  BY <1>5
<1> HIDE DEF Return, provider, Working
<1>6. ASSUME NEW c \in Creators, CreateError(c) \/ Cleanup(c) \/ DeleteSandbox(c) \/ Crash(c)
      PROVE  d \in Working'
  BY <1>4, <1>5, <1>6 DEF CreateError, Cleanup, DeleteSandbox, DeleteAndReturn, Crash
<1>7. ASSUME NEW n \in Names, Advance(n) \/ SweepDelete(n) PROVE d \in Working'
  BY <1>5, <1>7 DEF Advance, SweepDelete
<1>8. CASE Sweep \/ Tick \/ UNCHANGED vars
  BY <1>5, <1>8 DEF Sweep, Tick, vars
<1> QED BY <1>1, <1>2, <1>3, <1>6, <1>7, <1>8 DEF Next

\* No step adds a claim to those at risk, but a mishap that adds one.
LEMMA RiskSteps ==
  ASSUME TypeOK, RiskInv, [Next]_vars
  PROVE  \/ AtRisk' \subseteq AtRisk /\ mishaps' = mishaps
         \/ mishaps' = mishaps + 1 /\ \E x \in Names : AtRisk' \subseteq AtRisk \cup {x}
<1> DEFINE Kept == AtRisk' \subseteq AtRisk /\ mishaps' = mishaps
           Lost(x) == mishaps' = mishaps + 1 /\ AtRisk' \subseteq AtRisk \cup {x}
<1> SUFFICES Kept \/ \E x \in Names : Lost(x)
  OBVIOUS
<1> USE DEF TypeOK, RiskInv, AtRisk, Working, Exists, provider, server, Goto, Return,
            Remove, Accept, Mishap
<1>1. ASSUME NEW c \in Creators, NameClaim(c) PROVE Kept
  BY <1>1 DEF NameClaim
<1>2. ASSUME NEW c \in Creators, CreateClaim(c) PROVE Kept
  BY <1>2 DEF CreateClaim
<1>3. ASSUME NEW c \in Creators, CreateError(c) PROVE Kept \/ Lost(claim[c])
  <2>1. CASE UNCHANGED <<server, reused, mishaps>>
    BY <1>3, <2>1 DEF CreateError
  <2>2. CASE Accept(claim[c], c) /\ Mishap
    BY <1>3, <2>2 DEF CreateError
  <2> QED BY <1>3, <2>1, <2>2 DEF CreateError
<1>4. ASSUME NEW c \in Creators, PollReady(c) PROVE Kept
  BY <1>4 DEF PollReady
<1>5. ASSUME NEW c \in Creators, PollFails(c) PROVE Kept
  BY <1>5 DEF PollFails
<1>6. ASSUME NEW c \in Creators, Cancel(c) PROVE Lost(claim[c])
  BY <1>6 DEF Cancel
<1>7. ASSUME NEW c \in Creators, pc[c] # "idle", Return(c), UNCHANGED server
      PROVE  AtRisk' \subseteq AtRisk \cup {claim[c]}
  BY <1>7
<1>8. ASSUME NEW c \in Creators, DeleteAndReturn(c), UNCHANGED mishaps PROVE Kept
  BY <1>8 DEF DeleteAndReturn
<1>9. ASSUME NEW c \in Creators, Cleanup(c) PROVE Kept \/ Lost(claim[c])
  <2>1. CASE DeleteAndReturn(c) /\ UNCHANGED mishaps
    BY <1>8, <2>1
  <2>2. CASE ~Exists(claim[c]) /\ Return(c) /\ UNCHANGED <<server, mishaps>>
    BY <1>9, <2>2 DEF Cleanup
  <2>3. CASE cancelled[c] /\ Return(c) /\ UNCHANGED <<server, mishaps>>
    BY <1>9, <2>3 DEF Cleanup
  <2>4. CASE Mishap /\ Return(c) /\ UNCHANGED server
    BY <1>7, <1>9, <2>4 DEF Cleanup
  <2> QED BY <1>9, <2>1, <2>2, <2>3, <2>4 DEF Cleanup
<1>10. ASSUME NEW c \in Creators, DeleteSandbox(c) PROVE Kept
  <2>1. CASE DeleteAndReturn(c)
    BY <1>8, <1>10, <2>1 DEF DeleteSandbox
  <2>2. CASE Remove(claim[c]) /\ UNCHANGED provider
    BY <1>10, <2>2 DEF DeleteSandbox
  <2>3. CASE UNCHANGED <<server, provider, robbed>>
    BY <1>10, <2>3 DEF DeleteSandbox
  <2> QED BY <1>10, <2>1, <2>2, <2>3 DEF DeleteSandbox
<1>11. ASSUME NEW c \in Creators, Crash(c) PROVE Lost(claim[c])
  BY <1>7, <1>11 DEF Crash
<1>12. ASSUME NEW n \in Names, Advance(n) PROVE Kept
  BY <1>12 DEF Advance, Terminal
<1>13. ASSUME NEW n \in Names, SweepDelete(n) PROVE Kept
  BY <1>13 DEF SweepDelete
<1>14. CASE Sweep \/ Tick \/ UNCHANGED vars
  BY <1>14 DEF Sweep, Tick, vars
<1>15. \A c \in Creators : claim[c] \in Names
  OBVIOUS
<1> HIDE DEF Kept, Lost, TypeOK, RiskInv, AtRisk
<1> QED BY <1>15, <1>1, <1>2, <1>3, <1>4, <1>5, <1>6, <1>9, <1>10, <1>11, <1>12, <1>13, <1>14
        DEF Next

LEMMA RiskNext == TypeOK /\ RiskInv /\ [Next]_vars => RiskInv'
<1> SUFFICES ASSUME TypeOK, RiskInv, [Next]_vars PROVE Cardinality(AtRisk') <= mishaps'
  BY CancelNext DEF RiskInv
<1>1. IsFiniteSet(AtRisk)
  BY RiskFinite
<1>2. CASE AtRisk' \subseteq AtRisk /\ mishaps' = mishaps
  BY <1>1, <1>2, FS_Subset, FS_CardinalityType DEF RiskInv, TypeOK
<1>3. ASSUME mishaps' = mishaps + 1, NEW x \in Names, AtRisk' \subseteq AtRisk \cup {x}
      PROVE  Cardinality(AtRisk') <= mishaps'
  <2>1. Cardinality(AtRisk') <= Cardinality(AtRisk) + 1
    BY <1>1, <1>3, OneMore
  <2>2. Cardinality(AtRisk') \in Nat /\ Cardinality(AtRisk) \in Nat
    BY <1>1, <1>3, FS_AddElement, FS_Subset, FS_CardinalityType
  <2> QED BY <1>3, <2>1, <2>2 DEF RiskInv, TypeOK
<1> QED BY <1>2, <1>3, RiskSteps

\* However many goroutines, failures and restarts: no more claims are left behind
\* than lost answers, cancelled or failed cleanups and stopped replicas explain.
THEOREM StrandingExplained == Spec => []StrandedByMishaps
<1>1. TypeOK /\ RiskInv => StrandedByMishaps
  <2> SUFFICES ASSUME TypeOK, RiskInv PROVE Cardinality(Stranded) <= mishaps
    BY DEF StrandedByMishaps
  <2>1. IsFiniteSet(AtRisk)
    BY RiskFinite
  <2>2. Stranded \subseteq AtRisk
    BY DEF Stranded, AtRisk
  <2> QED BY <2>1, <2>2, FS_Subset, FS_CardinalityType DEF RiskInv, TypeOK
<1> QED BY <1>1, TypeInit, TypeNext, RiskInit, RiskNext, PTL DEF Spec
=============================================================================
