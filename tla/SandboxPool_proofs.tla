-------------------------- MODULE SandboxPool_proofs --------------------------
(* Theorems about SandboxPool, for any number of sandboxes, sessions and     *)
(* goroutines, any pool size and any idle timeout.                            *)
EXTENDS SandboxPool, FiniteSetTheorems, TLAPS

ClaimLabels == {"mark", "stamp", "index"}
BoxLabels   == ClaimLabels \cup {"store", "release", "delete", "remove"}

\* TypeOK, strengthened with what the goroutines' locals hold at each point.
LocalsOK ==
    /\ \A p \in Procs : pc[p] \in BoxLabels => box[p] \in Sandboxes
    /\ \A c \in Callers : pc[c] \in {"index", "store"} => session[box[c]] \in Sessions
    /\ \A w \in Warmers : /\ pc[w] \in {"ready", "admit", "create", "store"}
                          /\ pc[w] # "ready" => todo[w] > 0
TypeInv == TypeOK /\ LocalsOK

LEMMA TypeInit == Init => TypeInv
  BY PoolSizes, PoolDistinct
  DEF Init, TypeInv, TypeOK, LocalsOK, Times, Statuses, Labels, BoxLabels, ClaimLabels,
      Procs

LEMMA TypeNext == TypeInv /\ [Next]_vars => TypeInv'
<1> SUFFICES ASSUME TypeInv, [Next]_vars PROVE TypeInv'
  OBVIOUS
<1> USE DEF TypeInv, TypeOK, LocalsOK, BoxLabels, ClaimLabels, Procs, Times,
            Statuses, Labels, objects, cache, gcvars, Goto, Hold, Lock, Unlock
<1> USE PoolSizes, PoolDistinct
<1>1. ASSUME NEW c \in Callers, Allocate(c) PROVE TypeInv'
  <2>1. CASE ClaimList(c) BY <2>1 DEF ClaimList, IdleBoxes
  <2>2. CASE ClaimNone(c) BY <2>2 DEF ClaimNone
  <2>3. CASE ClaimMark(c) BY <2>3 DEF ClaimMark
  <2>4. CASE ClaimStamp(c) BY <2>4 DEF ClaimStamp, FreshSessions
  <2>5. CASE ClaimIndex(c) BY <2>5 DEF ClaimIndex, CacheSet
  <2>6. CASE Admit(c) BY <2>6 DEF Admit
  <2>7. CASE CreateOk(c) BY <2>7 DEF CreateOk, Unmade, FreshSessions
  <2>8. CASE CreateFail(c) BY <2>8 DEF CreateFail, FailedCreate, Unmade
  <2>9. CASE Store(c) BY <2>9 DEF Store, CacheSet
  <2> QED BY <1>1, <2>1, <2>2, <2>3, <2>4, <2>5, <2>6, <2>7, <2>8, <2>9 DEF Allocate
<1>2. ASSUME NEW w \in Warmers, ReplenishWarm(w) PROVE TypeInv'
  <2>1. CASE WarmStart(w)
    <3>1. Deficit \in Nat /\ Deficit > 0
      <4>1. IsFiniteSet(IdleBoxes)
        BY PoolSets, FS_Subset DEF IdleBoxes
      <4> QED BY <2>1, <4>1, FS_CardinalityType DEF WarmStart, Deficit
    <3> QED BY <2>1, <3>1 DEF WarmStart
  <2>2. CASE WarmAdmit(w) BY <2>2 DEF WarmAdmit
  <2>3. CASE WarmCreateOk(w) BY <2>3 DEF WarmCreateOk, Unmade
  <2>4. CASE WarmCreateFail(w) BY <2>4 DEF WarmCreateFail, FailedCreate, Unmade, FailedCreate, Unmade
  <2>5. CASE WarmStore(w) BY <2>5 DEF WarmStore, MoreWarm, CacheSet
  <2> QED BY <1>2, <2>1, <2>2, <2>3, <2>4, <2>5 DEF ReplenishWarm
<1>3. ASSUME NEW p \in Releasers \cup Collectors, Release(p) PROVE TypeInv'
  <2>1. CASE ReleaseMark(p) BY <2>1 DEF ReleaseMark
  <2>2. CASE ReleaseMissing(p) BY <2>2 DEF ReleaseMissing, Returns
  <2>3. CASE DeleteOk(p) BY <2>3 DEF DeleteOk
  <2>4. CASE DeleteFails(p) BY <2>4 DEF DeleteFails, Returns
  <2>5. CASE ReleaseRemove(p) BY <2>5 DEF ReleaseRemove, Returns, CacheDelete
  <2> QED BY <1>3, <2>1, <2>2, <2>3, <2>4, <2>5 DEF Release
<1>4. ASSUME NEW r \in Releasers, ReleaseCall(r) PROVE TypeInv'
  BY <1>4 DEF ReleaseCall
<1>5. ASSUME NEW g \in Collectors, RunGC(g) PROVE TypeInv'
  <2>1. CASE GCStart(g) BY <2>1 DEF GCStart
  <2>2. CASE GCExamine(g) BY <2>2 DEF GCExamine
  <2>3. CASE GCDone(g) BY <2>3 DEF GCDone
  <2> QED BY <1>3, <1>5, <2>1, <2>2, <2>3 DEF RunGC
<1>6. ASSUME NEW k \in Sessions, Heartbeat(k) PROVE TypeInv'
  BY <1>6 DEF Heartbeat
<1>7. ASSUME NEW s \in Sandboxes, Vanish(s) PROVE TypeInv'
  BY <1>7 DEF Vanish
<1>8. CASE Tick BY <1>8 DEF Tick
<1>9. CASE UNCHANGED vars BY <1>9 DEF vars
<1> QED BY <1>1, <1>2, <1>3, <1>4, <1>5, <1>6, <1>7, <1>8, <1>9 DEF Next

\* Allocate, Release, RunGC, Heartbeat and replenishWarm keep every field, index
\* and local variable in its type.
THEOREM TypeCorrect == Spec => []TypeOK
<1>1. Spec => []TypeInv
  BY TypeInit, TypeNext, PTL DEF Spec
<1> QED BY <1>1, PTL DEF TypeInv

-----------------------------------------------------------------------------
(***************************************************************************)
(* The inductive invariant behind the safety properties.  LockInv: whoever *)
(* is inside claimIdle holds PoolManager.mu.  ObjectInv: an object that    *)
(* is not built or not claimed has no session.  ClaimInv: what claimIdle   *)
(* finds in its object at each step; it may find that RunGC has marked it  *)
(* Releasing meanwhile.  HolderInv: goroutines that have picked or built a *)
(* sandbox work on different ones.  ReleaseInv: Release never works on a   *)
(* warm sandbox.  SessionInv, GrantInv: sessions are not shared and grants *)
(* agree with the objects.                                                 *)
(***************************************************************************)
LockInv == \A c \in Callers : pc[c] \in ClaimLabels => mu = c

Claimable == {"Active", "Releasing"}

ObjectInv ==
    \A s \in Sandboxes :
        /\ status[s] \in {"None", "Idle"} => session[s] = None
        /\ status[s] = "None" => s \notin byName

ClaimInv ==
    \A c \in Callers :
        /\ pc[c] = "mark" => status[box[c]] = "Idle"
        /\ pc[c] = "stamp" => status[box[c]] \in Claimable /\ session[box[c]] = None
        /\ pc[c] \in {"index", "store"} => status[box[c]] \in Claimable

Holders == {p \in Creators : pc[p] \in ClaimLabels \cup {"store"}}

HolderInv ==
    /\ \A p, q \in Holders : box[p] = box[q] => p = q
    /\ \A p \in Creators : pc[p] = "store" =>
         box[p] \notin byName /\ status[box[p]] # "None"

ReleaseInv ==
    /\ \A p \in Releasers \cup Collectors :
         pc[p] \in {"release", "delete", "remove"} => status[box[p]] \in Claimable
    /\ \A g \in Collectors : \A s \in worklist[g] : status[s] # "None"

SessionInv ==
    \A s, t \in Sandboxes : session[s] = session[t] /\ session[s] # None => s = t

GrantInv ==
    \A g \in grants :
        /\ session[g[2]] = g[1]
        /\ status[g[2]] \in Claimable
        /\ \A p \in Holders : box[p] # g[2]

PoolInv == LockInv /\ ObjectInv /\ ClaimInv /\ HolderInv /\ ReleaseInv
             /\ SessionInv /\ GrantInv

LEMMA PoolInit == Init => PoolInv
  BY PoolDistinct
  DEF Init, PoolInv, LockInv, ObjectInv, ClaimInv, HolderInv, Holders, ReleaseInv,
      SessionInv, GrantInv, Procs, Creators, ClaimLabels

LEMMA PoolNext == TypeInv /\ PoolInv /\ [Next]_vars => PoolInv'
<1> SUFFICES ASSUME TypeInv, PoolInv, [Next]_vars PROVE PoolInv'
  OBVIOUS
<1> USE DEF TypeInv, TypeOK, LocalsOK, BoxLabels, ClaimLabels, Procs, Creators,
            Statuses, Labels, Claimable, objects, cache, gcvars, Goto, Hold, Lock, Unlock,
            PoolInv, LockInv, ObjectInv, ClaimInv, HolderInv, Holders, ReleaseInv,
            SessionInv, GrantInv
<1> USE PoolDistinct
<1>1. ASSUME NEW c \in Callers, Allocate(c) PROVE PoolInv'
  <2>1. CASE ClaimList(c)
    <3>1. PICK s \in IdleBoxes : Hold(c, s)
      BY <2>1 DEF ClaimList
    <3>2. s \in byName /\ status[s] = "Idle" /\ s \in Sandboxes
      BY <3>1 DEF IdleBoxes
    <3> HIDE DEF Hold
    <3>3. box' = [box EXCEPT ![c] = s] /\ pc' = [pc EXCEPT ![c] = "mark"]
          /\ UNCHANGED <<objects, cache, worklist, grants>> /\ mu = None /\ mu' = c
      BY <2>1, <3>1 DEF ClaimList, Hold
    <3>4. LockInv' /\ ObjectInv' /\ ClaimInv'
      BY <3>2, <3>3
    <3>5. HolderInv'
      BY <3>2, <3>3
    <3>6. ReleaseInv' /\ SessionInv' /\ GrantInv'
      BY <3>2, <3>3
    <3> QED BY <3>4, <3>5, <3>6
  <2>2. CASE ClaimNone(c) BY <2>2 DEF ClaimNone
  <2>3. CASE ClaimMark(c) BY <2>3 DEF ClaimMark
  <2>4. CASE ClaimStamp(c) BY <2>4 DEF ClaimStamp, FreshSessions
  <2>5. CASE ClaimIndex(c) BY <2>5 DEF ClaimIndex, CacheSet
  <2>6. CASE Admit(c) BY <2>6 DEF Admit
  <2>7. CASE CreateOk(c)
    <3>1. PICK s \in Unmade, k \in FreshSessions :
            /\ status' = [status EXCEPT ![s] = "Active"]
            /\ session' = [session EXCEPT ![s] = k]
            /\ box' = [box EXCEPT ![c] = s]
      BY <2>7 DEF CreateOk
    <3>2. /\ s \in Sandboxes /\ status[s] = "None"
          /\ k \in Sessions /\ \A t \in Sandboxes : session[t] # k
      BY DEF Unmade, FreshSessions
    <3>3. pc[c] = "create" /\ pc' = [pc EXCEPT ![c] = "store"]
          /\ UNCHANGED <<cache, mu, worklist, grants>>
      BY <2>7 DEF CreateOk
    <3>4. LockInv' /\ ObjectInv' /\ SessionInv'
      BY <3>1, <3>2, <3>3
    <3>5. ClaimInv' /\ ReleaseInv'
      BY <3>1, <3>2, <3>3
    <3>6. HolderInv'
      BY <3>1, <3>2, <3>3
    <3>7. GrantInv'
      BY <3>1, <3>2, <3>3
    <3> QED BY <3>4, <3>5, <3>6, <3>7
  <2>8. CASE CreateFail(c) BY <2>8 DEF CreateFail, FailedCreate, Unmade
  <2>9. CASE Store(c) BY <2>9 DEF Store, CacheSet
  <2> QED BY <1>1, <2>1, <2>2, <2>3, <2>4, <2>5, <2>6, <2>7, <2>8, <2>9 DEF Allocate
<1>2. ASSUME NEW w \in Warmers, ReplenishWarm(w) PROVE PoolInv'
  <2>1. CASE WarmStart(w) BY <2>1 DEF WarmStart
  <2>2. CASE WarmAdmit(w) BY <2>2 DEF WarmAdmit
  <2>3. CASE WarmCreateOk(w)
    <3>1. PICK s \in Unmade :
            /\ status' = [status EXCEPT ![s] = "Idle"]
            /\ box' = [box EXCEPT ![w] = s]
      BY <2>3 DEF WarmCreateOk
    <3>2. s \in Sandboxes /\ status[s] = "None"
      BY DEF Unmade
    <3>3. pc[w] = "create" /\ pc' = [pc EXCEPT ![w] = "store"]
          /\ UNCHANGED <<session, cache, mu, worklist, grants>>
      BY <2>3 DEF WarmCreateOk
    <3>4. LockInv' /\ ObjectInv' /\ SessionInv'
      BY <3>1, <3>2, <3>3
    <3>5. ClaimInv' /\ ReleaseInv'
      BY <3>1, <3>2, <3>3
    <3>6. HolderInv'
      BY <3>1, <3>2, <3>3
    <3>7. GrantInv'
      BY <3>1, <3>2, <3>3
    <3> QED BY <3>4, <3>5, <3>6, <3>7
  <2>4. CASE WarmCreateFail(w) BY <2>4 DEF WarmCreateFail, FailedCreate, Unmade, FailedCreate, Unmade
  <2>5. CASE WarmStore(w) BY <2>5 DEF WarmStore, MoreWarm, CacheSet
  <2> QED BY <1>2, <2>1, <2>2, <2>3, <2>4, <2>5 DEF ReplenishWarm
<1>3. ASSUME NEW p \in Releasers \cup Collectors, Release(p) PROVE PoolInv'
  <2>1. CASE ReleaseMark(p) BY <2>1 DEF ReleaseMark
  <2>2. CASE ReleaseMissing(p) BY <2>2 DEF ReleaseMissing, Returns
  <2>3. CASE DeleteOk(p) BY <2>3 DEF DeleteOk
  <2>4. CASE DeleteFails(p) BY <2>4 DEF DeleteFails, Returns
  <2>5. CASE ReleaseRemove(p) BY <2>5 DEF ReleaseRemove, Returns, CacheDelete
  <2> QED BY <1>3, <2>1, <2>2, <2>3, <2>4, <2>5 DEF Release
<1>4. ASSUME NEW r \in Releasers, ReleaseCall(r) PROVE PoolInv'
  BY <1>4 DEF ReleaseCall
<1>5. ASSUME NEW g \in Collectors, RunGC(g) PROVE PoolInv'
  <2>1. CASE GCStart(g) BY <2>1 DEF GCStart
  <2>2. CASE GCExamine(g) BY <2>2 DEF GCExamine, Collectable
  <2>3. CASE GCDone(g) BY <2>3 DEF GCDone
  <2> QED BY <1>3, <1>5, <2>1, <2>2, <2>3 DEF RunGC
<1>6. ASSUME NEW k \in Sessions, Heartbeat(k) PROVE PoolInv'
  BY <1>6 DEF Heartbeat
<1>7. ASSUME NEW s \in Sandboxes, Vanish(s) PROVE PoolInv'
  BY <1>7 DEF Vanish
<1>8. CASE Tick BY <1>8 DEF Tick
<1>9. CASE UNCHANGED vars BY <1>9 DEF vars
<1> QED BY <1>1, <1>2, <1>3, <1>4, <1>5, <1>6, <1>7, <1>8, <1>9 DEF Next

LEMMA PoolInvariant == Spec => [](TypeInv /\ PoolInv)
  BY TypeInit, TypeNext, PoolInit, PoolNext, PTL DEF Spec

\* However claimIdle, Release and RunGC interleave, no two sessions are ever
\* handed the same sandbox and no session gets two.
THEOREM GrantsExclusive == Spec => []ExclusiveGrant
<1>1. TypeInv /\ PoolInv => ExclusiveGrant
  <2> SUFFICES ASSUME TypeInv, PoolInv, NEW g \in grants, NEW h \in grants
               PROVE  (g[1] = h[1]) <=> (g[2] = h[2])
    BY DEF ExclusiveGrant
  <2>1. g[1] \in Sessions /\ g[2] \in Sandboxes /\ h[1] \in Sessions /\ h[2] \in Sandboxes
    BY DEF TypeInv, TypeOK
  <2>2. session[g[2]] = g[1] /\ session[h[2]] = h[1]
    BY DEF PoolInv, GrantInv
  <2> QED BY <2>1, <2>2, PoolDistinct DEF PoolInv, SessionInv
<1> QED BY <1>1, PoolInvariant, PTL

-----------------------------------------------------------------------------
(* The two indexes of the cache *)

LEMMA IndexNext == TypeInv /\ PoolInv /\ IndexCoherence /\ [Next]_vars => IndexCoherence'
<1> SUFFICES ASSUME TypeInv, PoolInv, IndexCoherence, [Next]_vars PROVE IndexCoherence'
  OBVIOUS
<1> USE DEF TypeInv, TypeOK, LocalsOK, BoxLabels, ClaimLabels, Procs, Creators,
            Labels, Claimable, objects, cache, gcvars, Goto, Hold, Lock, Unlock, Claiming, Claimed,
            PoolInv, LockInv, ObjectInv, ClaimInv, HolderInv, Holders, SessionInv,
            IndexCoherence
<1> USE PoolDistinct
<1>1. ASSUME NEW c \in Callers, Allocate(c) PROVE IndexCoherence'
  <2>1. CASE ClaimList(c) BY <2>1 DEF ClaimList, IdleBoxes
  <2>2. CASE ClaimNone(c) BY <2>2 DEF ClaimNone
  <2>3. CASE ClaimMark(c) BY <2>3 DEF ClaimMark
  <2>4. CASE ClaimStamp(c) BY <2>4 DEF ClaimStamp, FreshSessions
  <2>5. CASE ClaimIndex(c) BY <2>5 DEF ClaimIndex, CacheSet
  <2>6. CASE Admit(c) BY <2>6 DEF Admit
  <2>7. CASE CreateOk(c) BY <2>7 DEF CreateOk, Unmade, FreshSessions
  <2>8. CASE CreateFail(c) BY <2>8 DEF CreateFail, FailedCreate, Unmade
  <2>9. CASE Store(c) BY <2>9 DEF Store, CacheSet
  <2> QED BY <1>1, <2>1, <2>2, <2>3, <2>4, <2>5, <2>6, <2>7, <2>8, <2>9 DEF Allocate
<1>2. ASSUME NEW w \in Warmers, ReplenishWarm(w) PROVE IndexCoherence'
  <2>1. CASE WarmStart(w) BY <2>1 DEF WarmStart
  <2>2. CASE WarmAdmit(w) BY <2>2 DEF WarmAdmit
  <2>3. CASE WarmCreateOk(w) BY <2>3 DEF WarmCreateOk, Unmade
  <2>4. CASE WarmCreateFail(w) BY <2>4 DEF WarmCreateFail, FailedCreate, Unmade, FailedCreate, Unmade
  <2>5. CASE WarmStore(w) BY <2>5 DEF WarmStore, MoreWarm, CacheSet
  <2> QED BY <1>2, <2>1, <2>2, <2>3, <2>4, <2>5 DEF ReplenishWarm
<1>3. ASSUME NEW p \in Releasers \cup Collectors, Release(p) PROVE IndexCoherence'
  <2>1. CASE ReleaseMark(p) BY <2>1 DEF ReleaseMark
  <2>2. CASE ReleaseMissing(p) BY <2>2 DEF ReleaseMissing, Returns
  <2>3. CASE DeleteOk(p) BY <2>3 DEF DeleteOk
  <2>4. CASE DeleteFails(p) BY <2>4 DEF DeleteFails, Returns
  <2>5. CASE ReleaseRemove(p) BY <2>5 DEF ReleaseRemove, Returns, CacheDelete
  <2> QED BY <1>3, <2>1, <2>2, <2>3, <2>4, <2>5 DEF Release
<1>4. ASSUME NEW r \in Releasers, ReleaseCall(r) PROVE IndexCoherence'
  BY <1>4 DEF ReleaseCall
<1>5. ASSUME NEW g \in Collectors, RunGC(g) PROVE IndexCoherence'
  <2>1. CASE GCStart(g) BY <2>1 DEF GCStart
  <2>2. CASE GCExamine(g) BY <2>2 DEF GCExamine
  <2>3. CASE GCDone(g) BY <2>3 DEF GCDone
  <2> QED BY <1>3, <1>5, <2>1, <2>2, <2>3 DEF RunGC
<1>6. ASSUME NEW k \in Sessions, Heartbeat(k) PROVE IndexCoherence'
  BY <1>6 DEF Heartbeat
<1>7. ASSUME NEW s \in Sandboxes, Vanish(s) PROVE IndexCoherence'
  BY <1>7 DEF Vanish
<1>8. CASE Tick BY <1>8 DEF Tick
<1>9. CASE UNCHANGED vars BY <1>9 DEF vars
<1> QED BY <1>1, <1>2, <1>3, <1>4, <1>5, <1>6, <1>7, <1>8, <1>9 DEF Next

\* The name and session indexes of AllocationCache never disagree, also when
\* RunGC removes a sandbox that claimIdle then puts back.
THEOREM IndexesCoherent == Spec => []IndexCoherence
<1>1. Init => IndexCoherence
  BY DEF Init, IndexCoherence
<1> QED BY <1>1, IndexNext, PoolInvariant, PTL DEF Spec

-----------------------------------------------------------------------------
(* The size of the pool *)

\* byName together with the sandbox claimIdle may put back, and the goroutines
\* that passed the admission check and have not inserted yet
SizeInv ==
    Cardinality(byName \cup Claimed) + Cardinality(Creating)
        < MaxSize + Cardinality(Creators)

LEMMA SizesFinite ==
    ASSUME TypeInv
    PROVE  /\ IsFiniteSet(byName) /\ IsFiniteSet(byName \cup Claimed) /\ IsFiniteSet(Creating)
           /\ Cardinality(byName) \in Nat
           /\ Cardinality(byName \cup Claimed) \in Nat
           /\ Cardinality(Creating) \in Nat /\ Cardinality(Creators) \in Nat
           /\ Cardinality(byName) <= Cardinality(byName \cup Claimed)
           /\ Cardinality(Creating) <= Cardinality(Creators)
<1>1. byName \cup Claimed \subseteq Sandboxes /\ byName \subseteq Sandboxes
  BY DEF TypeInv, TypeOK, LocalsOK, Claimed, Claiming, BoxLabels, ClaimLabels, Procs
<1>2. Creating \subseteq Creators
  BY DEF Creating
<1>3. IsFiniteSet(byName) /\ IsFiniteSet(byName \cup Claimed) /\ IsFiniteSet(Creating)
  BY <1>1, <1>2, PoolSets, FS_Subset
<1>4. /\ Cardinality(byName) <= Cardinality(byName \cup Claimed)
      /\ Cardinality(Creating) <= Cardinality(Creators)
  BY <1>2, <1>3, PoolSets, FS_Subset
<1> QED BY <1>3, <1>4, PoolSets, FS_CardinalityType

\* a step that adds nothing to either set
LEMMA SizeShrinks ==
    ASSUME TypeInv, TypeInv', SizeInv,
           (byName \cup Claimed)' \subseteq byName \cup Claimed,
           Creating' \subseteq Creating
    PROVE  SizeInv'
<1>1. /\ Cardinality(byName \cup Claimed)' <= Cardinality(byName \cup Claimed)
      /\ Cardinality(Creating)' <= Cardinality(Creating)
      /\ Cardinality(byName \cup Claimed)' \in Nat /\ Cardinality(Creating)' \in Nat
  BY SizesFinite, FS_Subset, FS_CardinalityType
<1> QED BY <1>1, SizesFinite, PoolSizes DEF SizeInv

LEMMA AddOne ==
    ASSUME NEW T, IsFiniteSet(T), NEW s
    PROVE  /\ IsFiniteSet(T \cup {s}) /\ Cardinality(T \cup {s}) \in Nat
           /\ Cardinality(T \cup {s}) <= Cardinality(T) + 1
<1>1. /\ IsFiniteSet(T \cup {s})
      /\ Cardinality(T \cup {s}) = Cardinality(T) \/ Cardinality(T \cup {s}) = Cardinality(T) + 1
  BY FS_AddElement
<1>2. Cardinality(T) \in Nat
  BY FS_CardinalityType
<1> QED BY <1>1, <1>2

\* a step that moves one creator's sandbox into the cache
LEMMA SizeMoves ==
    ASSUME TypeInv, TypeInv', SizeInv,
           NEW p \in Creating, NEW s,
           (byName \cup Claimed)' \subseteq (byName \cup Claimed) \cup {s},
           Creating' \subseteq Creating \ {p}
    PROVE  SizeInv'
<1>1. /\ IsFiniteSet((byName \cup Claimed) \cup {s})
      /\ Cardinality((byName \cup Claimed) \cup {s}) <= Cardinality(byName \cup Claimed) + 1
      /\ Cardinality((byName \cup Claimed) \cup {s}) \in Nat
  BY SizesFinite, AddOne
<1>2. /\ IsFiniteSet(Creating \ {p})
      /\ Cardinality(Creating \ {p}) = Cardinality(Creating) - 1
  BY SizesFinite, FS_RemoveElement
<1>3. /\ Cardinality(byName \cup Claimed)' <= Cardinality((byName \cup Claimed) \cup {s})
      /\ Cardinality(Creating)' <= Cardinality(Creating \ {p})
      /\ Cardinality(byName \cup Claimed)' \in Nat /\ Cardinality(Creating)' \in Nat
  BY <1>1, <1>2, SizesFinite, FS_Subset, FS_CardinalityType
<1> QED BY <1>1, <1>2, <1>3, SizesFinite, PoolSizes DEF SizeInv

\* a step that passes the admission check, at which nobody is inside claimIdle
LEMMA SizeAdmits ==
    ASSUME TypeInv, TypeInv', ~Full, (byName \cup Claimed)' \subseteq byName
    PROVE  SizeInv'
<1>1. /\ Cardinality(byName \cup Claimed)' <= Cardinality(byName)
      /\ Cardinality(byName \cup Claimed)' \in Nat
  BY SizesFinite, FS_Subset, FS_CardinalityType
<1>2. /\ Cardinality(Creating)' \in Nat
      /\ Cardinality(Creating)' <= Cardinality(Creators)
  <2>1. Creating' \subseteq Creators
    BY DEF Creating
  <2> QED BY <2>1, PoolSets, FS_Subset, FS_CardinalityType
<1>3. Cardinality(byName) < MaxSize
  BY SizesFinite, PoolSizes DEF Full
<1> QED BY <1>1, <1>2, <1>3, SizesFinite, PoolSizes DEF SizeInv

LEMMA SizeNext == TypeInv /\ TypeInv' /\ PoolInv /\ SizeInv /\ [Next]_vars => SizeInv'
<1> SUFFICES ASSUME TypeInv, TypeInv', PoolInv, SizeInv, [Next]_vars PROVE SizeInv'
  OBVIOUS
<1> USE DEF objects, cache, gcvars, Goto, Hold, Lock, Unlock
<1> DEFINE Same == (byName \cup Claimed)' \subseteq byName \cup Claimed
                   /\ Creating' \subseteq Creating
<1>0. (mu = None) => Claimed = {}
  BY PoolDistinct DEF PoolInv, LockInv, Claimed, Claiming, ClaimLabels, Procs
<1>t. pc \in [Procs -> Labels] /\ box \in [Procs -> Sandboxes \cup {None}]
  BY DEF TypeInv, TypeOK
<1>1. ASSUME NEW c \in Callers, Allocate(c) PROVE SizeInv'
  <2>1. CASE ClaimList(c)
    <3>1. Same BY <2>1, <1>t DEF ClaimList, IdleBoxes, Claimed, Claiming, Creating, Creators, Procs
    <3> QED BY <3>1, SizeShrinks
  <2>2. CASE ClaimNone(c)
    <3>1. Same BY <2>2, <1>t DEF ClaimNone, Claimed, Claiming, Creating, Creators, Procs
    <3> QED BY <3>1, SizeShrinks
  <2>3. CASE ClaimMark(c)
    <3>1. Same BY <2>3, <1>t DEF ClaimMark, Claimed, Claiming, Creating, Creators, Procs
    <3> QED BY <3>1, SizeShrinks
  <2>4. CASE ClaimStamp(c)
    <3>1. Same BY <2>4, <1>t DEF ClaimStamp, Claimed, Claiming, Creating, Creators, Procs
    <3> QED BY <3>1, SizeShrinks
  <2>5. CASE ClaimIndex(c)
    <3>1. Same BY <2>5, <1>t DEF ClaimIndex, CacheSet, Claimed, Claiming, Creating, Creators, Procs
    <3> QED BY <3>1, SizeShrinks
  <2>6. CASE Admit(c) /\ Full
    <3>1. Same BY <2>6, <1>t DEF Admit, Claimed, Claiming, Creating, Creators, Procs
    <3> QED BY <3>1, SizeShrinks
  <2>7. CASE Admit(c) /\ ~Full
    <3>1. (byName \cup Claimed)' \subseteq byName
      BY <2>7, <1>0, <1>t DEF Admit, Claimed, Claiming, Procs
    <3> QED BY <2>7, <3>1, SizeAdmits
  <2>8. CASE CreateOk(c)
    <3>1. Same BY <2>8, <1>t DEF CreateOk, Claimed, Claiming, Creating, Creators, Procs
    <3> QED BY <3>1, SizeShrinks
  <2>9. CASE CreateFail(c)
    <3>1. Same BY <2>9, <1>t DEF CreateFail, FailedCreate, Unmade, Claimed, Claiming, Creating, Creators, Procs
    <3> QED BY <3>1, SizeShrinks
  <2>10. CASE Store(c)
    <3>1. /\ c \in Creating /\ Creating' \subseteq Creating \ {c}
          /\ (byName \cup Claimed)' \subseteq (byName \cup Claimed) \cup {box[c]}
      BY <2>10, <1>t DEF Store, CacheSet, Claimed, Claiming, Creating, Creators, Procs
    <3> QED BY <3>1, SizeMoves
  <2> QED BY <1>1, <2>1, <2>2, <2>3, <2>4, <2>5, <2>6, <2>7, <2>8, <2>9, <2>10 DEF Allocate
<1>2. ASSUME NEW w \in Warmers, ReplenishWarm(w) PROVE SizeInv'
  <2>1. CASE WarmStart(w)
    <3>1. Same BY <2>1, <1>t, PoolDistinct DEF WarmStart, Claimed, Claiming, Creating, Creators, Procs
    <3> QED BY <3>1, SizeShrinks
  <2>2. CASE WarmAdmit(w) /\ Full
    <3>1. Same BY <2>2, <1>t, PoolDistinct DEF WarmAdmit, Claimed, Claiming, Creating, Creators, Procs
    <3> QED BY <3>1, SizeShrinks
  <2>3. CASE WarmAdmit(w) /\ ~Full
    <3>1. (byName \cup Claimed)' \subseteq byName
      BY <2>3, <1>0, <1>t, PoolDistinct DEF WarmAdmit, Claimed, Claiming, Procs
    <3> QED BY <2>3, <3>1, SizeAdmits
  <2>4. CASE WarmCreateOk(w)
    <3>1. Same BY <2>4, <1>t, PoolDistinct DEF WarmCreateOk, Claimed, Claiming, Creating, Creators, Procs
    <3> QED BY <3>1, SizeShrinks
  <2>5. CASE WarmCreateFail(w)
    <3>1. Same BY <2>5, <1>t, PoolDistinct DEF WarmCreateFail, FailedCreate, Unmade, Claimed, Claiming, Creating, Creators, Procs
    <3> QED BY <3>1, SizeShrinks
  <2>6. CASE WarmStore(w)
    <3>1. /\ w \in Creating /\ Creating' \subseteq Creating \ {w}
          /\ (byName \cup Claimed)' \subseteq (byName \cup Claimed) \cup {box[w]}
      BY <2>6, <1>t, PoolDistinct DEF WarmStore, MoreWarm, CacheSet, Claimed, Claiming, Creating, Creators, Procs
    <3> QED BY <3>1, SizeMoves
  <2> QED BY <1>2, <2>1, <2>2, <2>3, <2>4, <2>5, <2>6 DEF ReplenishWarm
<1>3. ASSUME NEW p \in Releasers \cup Collectors,
             \A q \in Procs \ {p} : pc'[q] = pc[q] /\ box'[q] = box[q],
             byName' \subseteq byName
      PROVE  SizeInv'
  <2>1. Same
    BY <1>3, PoolDistinct DEF Claimed, Claiming, Creating, Creators, Procs
  <2> QED BY <2>1, SizeShrinks
<1>4. ASSUME NEW r \in Releasers, ReleaseCall(r) PROVE SizeInv'
  BY <1>3, <1>4, <1>t DEF ReleaseCall, Procs
<1>5. ASSUME NEW p \in Releasers \cup Collectors, Release(p) PROVE SizeInv'
  BY <1>3, <1>5, <1>t DEF Release, ReleaseMark, ReleaseMissing, DeleteOk, DeleteFails,
                          ReleaseRemove, CacheDelete, Returns, Procs
<1>6. ASSUME NEW g \in Collectors, RunGC(g) PROVE SizeInv'
  BY <1>3, <1>5, <1>6, <1>t DEF RunGC, GCStart, GCExamine, GCDone, Procs
<1>7. ASSUME UNCHANGED <<byName, pc, box>> PROVE SizeInv'
  BY <1>7 DEF SizeInv, Claimed, Claiming, Creating
<1> QED BY <1>1, <1>2, <1>4, <1>5, <1>6, <1>7 DEF Next, Heartbeat, Vanish, Tick, vars

\* maxSize is overshot by less than the number of goroutines that create
\* sandboxes, whatever RunGC and Release do meanwhile.
THEOREM PoolSizeBounded == Spec => []OvershootBound
<1>1. Init => SizeInv
  <2> SUFFICES ASSUME Init PROVE SizeInv
    OBVIOUS
  <2>1. byName \cup Claimed = {} /\ Creating = {}
    BY DEF Init, Claimed, Claiming, Creating, Procs, Creators
  <2>2. Cardinality(byName \cup Claimed) = 0 /\ Cardinality(Creating) = 0
    BY <2>1, FS_EmptySet
  <2>3. Cardinality(Creators) \in Nat
    BY PoolSets, FS_CardinalityType
  <2> QED BY <2>2, <2>3, PoolSizes DEF SizeInv
<1>2. TypeInv /\ SizeInv => OvershootBound
  BY SizesFinite, PoolSizes DEF SizeInv, OvershootBound
<1> QED BY <1>1, <1>2, SizeNext, PoolInvariant, PTL DEF Spec

\* With a single goroutine that creates sandboxes, maxSize is the hard cap the
\* documentation promises: the check-then-create in Allocate has no rival.
THEOREM HardCapAlone == ASSUME Cardinality(Creators) = 1 PROVE Spec => []HardCap
<1>1. TypeInv /\ OvershootBound => HardCap
  BY SizesFinite, PoolSizes DEF OvershootBound, HardCap
<1> QED BY <1>1, PoolSizeBounded, PoolInvariant, PTL

-----------------------------------------------------------------------------
(* No sandbox is forgotten *)

\* Release removes a cache entry only after its sandbox is gone.
GoneInv ==
    \A p \in Releasers \cup Collectors : pc[p] = "remove" => box[p] \notin live
TrackedInv == NothingForgotten /\ GoneInv

LEMMA TrackedNext == TypeInv /\ PoolInv /\ TrackedInv /\ [Next]_vars => TrackedInv'
<1> SUFFICES ASSUME TypeInv, PoolInv, TrackedInv, [Next]_vars PROVE TrackedInv'
  OBVIOUS
<1> USE DEF TypeInv, TypeOK, LocalsOK, BoxLabels, ClaimLabels, Procs, Creators,
            Labels, Claimable, objects, cache, gcvars, Goto, Hold, Lock, Unlock, Claiming, Claimed,
            Built, PoolInv, LockInv, ReleaseInv, TrackedInv, NothingForgotten, GoneInv
<1> USE PoolDistinct
<1>1. ASSUME NEW c \in Callers, Allocate(c) PROVE TrackedInv'
  <2>1. CASE ClaimList(c) BY <2>1 DEF ClaimList, IdleBoxes
  <2>2. CASE ClaimNone(c) BY <2>2 DEF ClaimNone
  <2>3. CASE ClaimMark(c) BY <2>3 DEF ClaimMark
  <2>4. CASE ClaimStamp(c) BY <2>4 DEF ClaimStamp
  <2>5. CASE ClaimIndex(c) BY <2>5 DEF ClaimIndex, CacheSet
  <2>6. CASE Admit(c) BY <2>6 DEF Admit
  <2>7. CASE CreateOk(c) BY <2>7 DEF CreateOk, Unmade
  <2>8. CASE CreateFail(c) BY <2>8 DEF CreateFail, FailedCreate, Unmade
  <2>9. CASE Store(c) BY <2>9 DEF Store, CacheSet
  <2> QED BY <1>1, <2>1, <2>2, <2>3, <2>4, <2>5, <2>6, <2>7, <2>8, <2>9 DEF Allocate
<1>2. ASSUME NEW w \in Warmers, ReplenishWarm(w) PROVE TrackedInv'
  <2>1. CASE WarmStart(w) BY <2>1 DEF WarmStart
  <2>2. CASE WarmAdmit(w) BY <2>2 DEF WarmAdmit
  <2>3. CASE WarmCreateOk(w) BY <2>3 DEF WarmCreateOk, Unmade
  <2>4. CASE WarmCreateFail(w) BY <2>4 DEF WarmCreateFail, FailedCreate, Unmade, FailedCreate, Unmade
  <2>5. CASE WarmStore(w) BY <2>5 DEF WarmStore, MoreWarm, CacheSet
  <2> QED BY <1>2, <2>1, <2>2, <2>3, <2>4, <2>5 DEF ReplenishWarm
<1>3. ASSUME NEW p \in Releasers \cup Collectors, Release(p) PROVE TrackedInv'
  <2>1. CASE ReleaseMark(p) BY <2>1 DEF ReleaseMark
  <2>2. CASE ReleaseMissing(p) BY <2>2 DEF ReleaseMissing, Returns
  <2>3. CASE DeleteOk(p) BY <2>3 DEF DeleteOk
  <2>4. CASE DeleteFails(p) BY <2>4 DEF DeleteFails, Returns
  <2>5. CASE ReleaseRemove(p) BY <2>5 DEF ReleaseRemove, Returns, CacheDelete
  <2> QED BY <1>3, <2>1, <2>2, <2>3, <2>4, <2>5 DEF Release
<1>4. ASSUME NEW r \in Releasers, ReleaseCall(r) PROVE TrackedInv'
  BY <1>4 DEF ReleaseCall
<1>5. ASSUME NEW g \in Collectors, RunGC(g) PROVE TrackedInv'
  <2>1. CASE GCStart(g) BY <2>1 DEF GCStart
  <2>2. CASE GCExamine(g) BY <2>2 DEF GCExamine
  <2>3. CASE GCDone(g) BY <2>3 DEF GCDone
  <2> QED BY <1>3, <1>5, <2>1, <2>2, <2>3 DEF RunGC
<1>6. ASSUME NEW k \in Sessions, Heartbeat(k) PROVE TrackedInv'
  BY <1>6 DEF Heartbeat
<1>7. ASSUME NEW s \in Sandboxes, Vanish(s) PROVE TrackedInv'
  BY <1>7 DEF Vanish
<1>8. CASE Tick BY <1>8 DEF Tick
<1>9. CASE UNCHANGED vars BY <1>9 DEF vars
<1> QED BY <1>1, <1>2, <1>3, <1>4, <1>5, <1>6, <1>7, <1>8, <1>9 DEF Next

\* A sandbox that CreateSandbox returned and that still exists is always in the
\* cache or on its way there, whichever calls to DeleteSandbox fail, are repeated
\* or lose their answer: only creations that answered with an error leave strays.
THEOREM NoSandboxForgotten == Spec => []NothingForgotten
<1>1. Init => TrackedInv
  BY DEF Init, TrackedInv, NothingForgotten, GoneInv, Procs
<1> QED BY <1>1, TrackedNext, PoolInvariant, PTL DEF Spec, TrackedInv

-----------------------------------------------------------------------------
(* The lifecycle of a sandbox *)

\* What a step can do to statuses, sessions and grants: nothing; build one
\* sandbox, claim, mark or stamp one; or hand one out.
LifecycleChange ==
    \/ UNCHANGED <<status, session, grants>>
    \/ \E s \in Sandboxes :
         /\ UNCHANGED grants
         /\ \A t \in Sandboxes \ {s} : status'[t] = status[t] /\ session'[t] = session[t]
         /\ \/ status[s] = "None" /\ status'[s] \in {"Idle", "Active"}
            \/ /\ status[s] = "Idle" /\ status'[s] = "Active"
               /\ session'[s] = session[s]
            \/ /\ status[s] \in Claimable /\ status'[s] = "Releasing"
               /\ session'[s] = session[s]
            \/ /\ status[s] \in Claimable /\ status'[s] = status[s]
               /\ session[s] = None
    \/ \E c \in Callers :
         /\ UNCHANGED <<status, session>>
         /\ pc[c] \in {"index", "store"}
         /\ grants' = grants \cup {<<session[box[c]], box[c]>>}

LEMMA LifecycleStep ==
    ASSUME TypeInv, PoolInv, [Next]_vars PROVE LifecycleChange
<1> USE DEF TypeInv, TypeOK, LocalsOK, BoxLabels, ClaimLabels, Procs,
            Claimable, objects, cache, gcvars, Goto, Hold, Lock, Unlock,
            PoolInv, ClaimInv, ReleaseInv, LifecycleChange
<1>1. ASSUME NEW c \in Callers, Allocate(c) PROVE LifecycleChange
  <2>1. CASE ClaimList(c) BY <2>1 DEF ClaimList, IdleBoxes
  <2>2. CASE ClaimNone(c) BY <2>2 DEF ClaimNone
  <2>3. CASE ClaimMark(c) BY <2>3 DEF ClaimMark
  <2>4. CASE ClaimStamp(c) BY <2>4 DEF ClaimStamp
  <2>5. CASE ClaimIndex(c) BY <2>5 DEF ClaimIndex, CacheSet
  <2>6. CASE Admit(c) BY <2>6 DEF Admit
  <2>7. CASE CreateOk(c) BY <2>7 DEF CreateOk, Unmade
  <2>8. CASE CreateFail(c) BY <2>8 DEF CreateFail, FailedCreate, Unmade
  <2>9. CASE Store(c) BY <2>9 DEF Store, CacheSet
  <2> QED BY <1>1, <2>1, <2>2, <2>3, <2>4, <2>5, <2>6, <2>7, <2>8, <2>9 DEF Allocate
<1>2. ASSUME NEW w \in Warmers, ReplenishWarm(w) PROVE LifecycleChange
  <2>1. CASE WarmStart(w) BY <2>1 DEF WarmStart
  <2>2. CASE WarmAdmit(w) BY <2>2 DEF WarmAdmit
  <2>3. CASE WarmCreateOk(w) BY <2>3 DEF WarmCreateOk, Unmade
  <2>4. CASE WarmCreateFail(w) BY <2>4 DEF WarmCreateFail, FailedCreate, Unmade, FailedCreate, Unmade
  <2>5. CASE WarmStore(w) BY <2>5 DEF WarmStore, MoreWarm, CacheSet
  <2> QED BY <1>2, <2>1, <2>2, <2>3, <2>4, <2>5 DEF ReplenishWarm
<1>3. ASSUME NEW p \in Releasers \cup Collectors, Release(p) PROVE LifecycleChange
  <2>1. CASE ReleaseMark(p) BY <2>1 DEF ReleaseMark
  <2>2. CASE ReleaseMissing(p) BY <2>2 DEF ReleaseMissing, Returns
  <2>3. CASE DeleteOk(p) BY <2>3 DEF DeleteOk
  <2>4. CASE DeleteFails(p) BY <2>4 DEF DeleteFails, Returns
  <2>5. CASE ReleaseRemove(p) BY <2>5 DEF ReleaseRemove, Returns, CacheDelete
  <2> QED BY <1>3, <2>1, <2>2, <2>3, <2>4, <2>5 DEF Release
<1>4. ASSUME NEW r \in Releasers, ReleaseCall(r) PROVE LifecycleChange
  BY <1>4 DEF ReleaseCall
<1>5. ASSUME NEW g \in Collectors, RunGC(g) PROVE LifecycleChange
  <2>1. CASE GCStart(g) BY <2>1 DEF GCStart
  <2>2. CASE GCExamine(g) BY <2>2 DEF GCExamine
  <2>3. CASE GCDone(g) BY <2>3 DEF GCDone
  <2> QED BY <1>3, <1>5, <2>1, <2>2, <2>3 DEF RunGC
<1>6. ASSUME NEW k \in Sessions, Heartbeat(k) PROVE LifecycleChange
  BY <1>6 DEF Heartbeat
<1>7. ASSUME NEW s \in Sandboxes, Vanish(s) PROVE LifecycleChange
  BY <1>7 DEF Vanish
<1>8. CASE Tick BY <1>8 DEF Tick
<1>9. CASE UNCHANGED vars BY <1>9 DEF vars
<1> QED BY <1>1, <1>2, <1>3, <1>4, <1>5, <1>6, <1>7, <1>8, <1>9 DEF Next

\* A status never goes back and a session, once given, stays: marking Releasing
\* without a lock cannot bring a sandbox back to the warm pool or to a user.
THEOREM SandboxesNeverReused == Spec => NeverReused
<1>1. TypeInv /\ TypeInv' /\ PoolInv /\ [Next]_vars =>
        [\A s \in Sandboxes : /\ Rank[status'[s]] >= Rank[status[s]]
                              /\ session[s] # None => session'[s] = session[s]]_vars
  <2> SUFFICES ASSUME TypeInv, TypeInv', PoolInv, [Next]_vars, NEW s \in Sandboxes
               PROVE  /\ Rank[status'[s]] >= Rank[status[s]]
                      /\ session[s] # None => session'[s] = session[s]
    OBVIOUS
  <2>1. /\ Rank["None"] = 0 /\ Rank["Idle"] = 1 /\ Rank["Active"] = 2
        /\ Rank["Releasing"] = 3
    BY DEF Rank, Statuses
  <2>2. status[s] \in Statuses /\ status'[s] \in Statuses
    BY DEF TypeInv, TypeOK
  <2>3. LifecycleChange
    BY LifecycleStep
  <2>4. \/ status'[s] = status[s]
        \/ status[s] = "None"
        \/ status[s] = "Idle" /\ status'[s] = "Active"
        \/ status'[s] = "Releasing"
    BY <2>3 DEF LifecycleChange
  <2>5. session[s] # None => session'[s] = session[s]
    BY <2>3 DEF LifecycleChange, PoolInv, ObjectInv
  <2> QED BY <2>1, <2>2, <2>4, <2>5 DEF Statuses
<1> QED BY <1>1, PoolInvariant, PTL DEF Spec, NeverReused

\* The pool implements SandboxOwnership under the mapping PhaseOf: every step of
\* manager.go is a step of the lifecycle or leaves it alone.
THEOREM PoolImplementsOwnership == Spec => OwnershipSpec
<1>1. Init => Ownership!Init
  BY DEF Init, Ownership!Init, PhaseOf
<1>2. TypeInv /\ TypeInv' /\ PoolInv /\ [Next]_vars => [Ownership!Next]_<<PhaseOf, grants>>
  <2> SUFFICES ASSUME TypeInv, TypeInv', PoolInv, [Next]_vars
               PROVE  [Ownership!Next]_<<PhaseOf, grants>>
    OBVIOUS
  <2>1. LifecycleChange
    BY LifecycleStep
  <2>2. CASE UNCHANGED <<status, session, grants>>
    BY <2>2 DEF PhaseOf
  <2>3. ASSUME NEW s \in Sandboxes, UNCHANGED grants,
               \A t \in Sandboxes \ {s} : status'[t] = status[t]
        PROVE  PhaseOf' = [PhaseOf EXCEPT ![s] = PhaseOf'[s]]
    BY <2>3 DEF PhaseOf
  <2>4. ASSUME NEW s \in Sandboxes, UNCHANGED grants,
               \A t \in Sandboxes \ {s} : status'[t] = status[t],
               status[s] = "None", status'[s] \in {"Idle", "Active"}
        PROVE  Ownership!Provision(s)
    <3>1. PhaseOf[s] = "absent" /\ PhaseOf'[s] \in {"spare", "taken"}
      BY <2>4 DEF PhaseOf
    <3> QED BY <2>3, <2>4, <3>1 DEF Ownership!Provision
  <2>5. ASSUME NEW s \in Sandboxes, UNCHANGED grants,
               \A t \in Sandboxes \ {s} : status'[t] = status[t],
               status[s] = "Idle", status'[s] = "Active"
        PROVE  Ownership!Take(s)
    <3>1. PhaseOf[s] = "spare" /\ PhaseOf'[s] = "taken"
      BY <2>5 DEF PhaseOf
    <3> QED BY <2>3, <2>5, <3>1 DEF Ownership!Take
  <2>6. ASSUME NEW s \in Sandboxes, UNCHANGED grants,
               \A t \in Sandboxes \ {s} : status'[t] = status[t],
               status[s] \in Claimable, status'[s] = "Releasing"
        PROVE  Ownership!Retire(s) \/ UNCHANGED <<PhaseOf, grants>>
    <3>1. PhaseOf[s] \in {"taken", "retired"} /\ PhaseOf'[s] = "retired"
      BY <2>6 DEF PhaseOf, Claimable
    <3>2. PhaseOf \in [Sandboxes -> Ownership!Phases]
      BY DEF PhaseOf, Ownership!Phases
    <3> QED BY <2>3, <2>6, <3>1, <3>2 DEF Ownership!Retire
  <2>7. ASSUME NEW s \in Sandboxes, UNCHANGED grants,
               \A t \in Sandboxes \ {s} : status'[t] = status[t], status'[s] = status[s]
        PROVE  UNCHANGED <<PhaseOf, grants>>
    BY <2>7 DEF PhaseOf
  <2>8. ASSUME NEW c \in Callers, UNCHANGED <<status, session>>,
               pc[c] \in {"index", "store"},
               grants' = grants \cup {<<session[box[c]], box[c]>>}
        PROVE  Ownership!Hand(box[c], session[box[c]])
    <3>1. box[c] \in Sandboxes /\ session[box[c]] \in Sessions
      BY <2>8 DEF TypeInv, LocalsOK, BoxLabels, ClaimLabels, Procs
    <3>2. PhaseOf[box[c]] \in {"taken", "retired"}
      BY <2>8, <3>1 DEF PoolInv, ClaimInv, Claimable, PhaseOf
    <3>3. \A o \in grants : o[2] # box[c] /\ o[2] \in Sandboxes
      BY <2>8 DEF PoolInv, GrantInv, Holders, Creators, ClaimLabels, TypeInv, TypeOK
    <3>4. \A o \in grants : o[1] # session[box[c]]
      BY <3>1, <3>3, PoolDistinct DEF PoolInv, GrantInv, SessionInv
    <3>5. UNCHANGED PhaseOf
      BY <2>8 DEF PhaseOf
    <3> QED BY <2>8, <3>2, <3>3, <3>4, <3>5 DEF Ownership!Hand
  <2>9. ASSUME NEW c \in Callers, pc[c] \in {"index", "store"}
        PROVE  box[c] \in Sandboxes /\ session[box[c]] \in Sessions
    BY <2>9 DEF TypeInv, LocalsOK, BoxLabels, ClaimLabels, Procs
  <2> HIDE DEF PhaseOf
  <2> QED BY <2>1, <2>2, <2>4, <2>5, <2>6, <2>7, <2>8, <2>9
          DEF LifecycleChange, Ownership!Next
<1> QED BY <1>1, <1>2, PoolInvariant, PTL DEF Spec, OwnershipSpec, Ownership!Spec

-----------------------------------------------------------------------------
(* Offered sandboxes exist *)

\* Release deletes a sandbox only after it marked it, and the mark stays.
LiveInv ==
    /\ \A s \in Sandboxes : status[s] \in {"Idle", "Active"} => s \in live
    /\ \A p \in Releasers \cup Collectors :
         pc[p] \in {"delete", "remove"} => status[box[p]] = "Releasing"

LEMMA LiveNext ==
    ASSUME "vanish" \notin Faults
    PROVE  TypeInv /\ PoolInv /\ LiveInv /\ [Next]_vars => LiveInv'
<1> SUFFICES ASSUME TypeInv, PoolInv, LiveInv, [Next]_vars PROVE LiveInv'
  OBVIOUS
<1> USE DEF TypeInv, TypeOK, LocalsOK, BoxLabels, ClaimLabels, Procs,
            Labels, Claimable, objects, cache, gcvars, Goto, Hold, Lock, Unlock,
            PoolInv, LockInv, ClaimInv, ReleaseInv, LiveInv
<1> USE PoolDistinct
<1>1. ASSUME NEW c \in Callers, Allocate(c) PROVE LiveInv'
  <2>1. CASE ClaimList(c) BY <2>1 DEF ClaimList, IdleBoxes
  <2>2. CASE ClaimNone(c) BY <2>2 DEF ClaimNone
  <2>3. CASE ClaimMark(c) BY <2>3 DEF ClaimMark
  <2>4. CASE ClaimStamp(c) BY <2>4 DEF ClaimStamp
  <2>5. CASE ClaimIndex(c) BY <2>5 DEF ClaimIndex, CacheSet
  <2>6. CASE Admit(c) BY <2>6 DEF Admit
  <2>7. CASE CreateOk(c) BY <2>7 DEF CreateOk, Unmade
  <2>8. CASE CreateFail(c) BY <2>8 DEF CreateFail, FailedCreate, Unmade
  <2>9. CASE Store(c) BY <2>9 DEF Store, CacheSet
  <2> QED BY <1>1, <2>1, <2>2, <2>3, <2>4, <2>5, <2>6, <2>7, <2>8, <2>9 DEF Allocate
<1>2. ASSUME NEW w \in Warmers, ReplenishWarm(w) PROVE LiveInv'
  <2>1. CASE WarmStart(w) BY <2>1 DEF WarmStart
  <2>2. CASE WarmAdmit(w) BY <2>2 DEF WarmAdmit
  <2>3. CASE WarmCreateOk(w) BY <2>3 DEF WarmCreateOk, Unmade
  <2>4. CASE WarmCreateFail(w) BY <2>4 DEF WarmCreateFail, FailedCreate, Unmade, FailedCreate, Unmade
  <2>5. CASE WarmStore(w) BY <2>5 DEF WarmStore, MoreWarm, CacheSet
  <2> QED BY <1>2, <2>1, <2>2, <2>3, <2>4, <2>5 DEF ReplenishWarm
<1>3. ASSUME NEW p \in Releasers \cup Collectors, Release(p) PROVE LiveInv'
  <2>1. CASE ReleaseMark(p) BY <2>1 DEF ReleaseMark
  <2>2. CASE ReleaseMissing(p) BY <2>2 DEF ReleaseMissing, Returns
  <2>3. CASE DeleteOk(p) BY <2>3 DEF DeleteOk
  <2>4. CASE DeleteFails(p) BY <2>4 DEF DeleteFails, Returns
  <2>5. CASE ReleaseRemove(p) BY <2>5 DEF ReleaseRemove, Returns, CacheDelete
  <2> QED BY <1>3, <2>1, <2>2, <2>3, <2>4, <2>5 DEF Release
<1>4. ASSUME NEW r \in Releasers, ReleaseCall(r) PROVE LiveInv'
  BY <1>4 DEF ReleaseCall
<1>5. ASSUME NEW g \in Collectors, RunGC(g) PROVE LiveInv'
  <2>1. CASE GCStart(g) BY <2>1 DEF GCStart
  <2>2. CASE GCExamine(g) BY <2>2 DEF GCExamine
  <2>3. CASE GCDone(g) BY <2>3 DEF GCDone
  <2> QED BY <1>3, <1>5, <2>1, <2>2, <2>3 DEF RunGC
<1>6. ASSUME NEW k \in Sessions, Heartbeat(k) PROVE LiveInv'
  BY <1>6 DEF Heartbeat
<1>7. ASSUME NEW s \in Sandboxes, Vanish(s) PROVE LiveInv'
  BY <1>7 DEF Vanish
<1>8. CASE Tick BY <1>8 DEF Tick
<1>9. CASE UNCHANGED vars BY <1>9 DEF vars
<1> QED BY <1>1, <1>2, <1>3, <1>4, <1>5, <1>6, <1>7, <1>8, <1>9 DEF Next

\* When nobody else deletes claims, a sandbox in the warm pool or in use exists:
\* whatever RunGC and Release overlap with, they take away only what is marked.
THEOREM OfferedSandboxesLive ==
    ASSUME "vanish" \notin Faults PROVE Spec => []OfferedIsLive
<1>1. Init => LiveInv
  BY DEF Init, LiveInv, Procs
<1>2. TypeInv /\ LiveInv => OfferedIsLive
  BY DEF LiveInv, OfferedIsLive, TypeInv, TypeOK
<1>3. TypeInv /\ PoolInv /\ LiveInv /\ [Next]_vars => LiveInv'
  BY LiveNext
<1> QED BY <1>1, <1>2, <1>3, PoolInvariant, PTL DEF Spec

-----------------------------------------------------------------------------
(* What RunGC releases is idle, when nothing stamps it meanwhile *)

\* A pass's cutoff stays at least idleTimeout behind the clock, and what it has
\* condemned is not stamped again: there is no warm sandbox to claim.
PassInv ==
    /\ \A s \in Sandboxes : status[s] # "Idle"
    /\ \A c \in Callers : pc[c] \notin ClaimLabels
    /\ \A g \in Collectors : pc[g] # "ready" => cutoff[g] + IdleTimeout <= now
    /\ \A g \in Collectors : pc[g] = "release" => last[box[g]] < cutoff[g]

LEMMA PassNext ==
    ASSUME ~ Heartbeats, Warmers = {}
    PROVE  TypeInv /\ PoolInv /\ PassInv /\ [Next]_vars => PassInv'
<1> SUFFICES ASSUME TypeInv, PoolInv, PassInv, [Next]_vars PROVE PassInv'
  OBVIOUS
<1> USE DEF TypeInv, TypeOK, LocalsOK, BoxLabels, ClaimLabels, Procs, Times, Labels,
            objects, cache, gcvars, Goto, Hold, Lock, Unlock, PassInv, PoolInv,
            ReleaseInv, Claimable, Statuses
<1> USE PoolSizes, PoolDistinct
<1>1. ASSUME NEW c \in Callers, Allocate(c) PROVE PassInv'
  <2>1. CASE ClaimList(c) BY <2>1 DEF ClaimList, IdleBoxes
  <2>2. CASE ClaimNone(c) BY <2>2 DEF ClaimNone
  <2>3. CASE ClaimMark(c) BY <2>3 DEF ClaimMark
  <2>4. CASE ClaimStamp(c) BY <2>4 DEF ClaimStamp
  <2>5. CASE ClaimIndex(c) BY <2>5 DEF ClaimIndex
  <2>6. CASE Admit(c) BY <2>6 DEF Admit
  <2>7. CASE CreateOk(c)
    <3>1. PICK s \in Unmade : last' = [last EXCEPT ![s] = now] /\ status' = [status EXCEPT ![s] = "Active"]
      BY <2>7 DEF CreateOk
    <3>2. \A g \in Collectors : pc[g] = "release" => box[g] \in Sandboxes /\ box[g] # s
      BY <3>1 DEF Unmade
    <3>3. /\ \A g \in Collectors : pc'[g] = pc[g] /\ box'[g] = box[g]
          /\ UNCHANGED <<cutoff, now>>
      BY <2>7 DEF CreateOk
    <3>4. \A d \in Callers : pc'[d] \notin ClaimLabels
      BY <2>7 DEF CreateOk
    <3>5. \A g \in Collectors : pc'[g] = "release" => last'[box'[g]] < cutoff'[g]
      BY <3>1, <3>2, <3>3
    <3>6. \A t \in Sandboxes : status'[t] # "Idle"
      BY <3>1
    <3> QED BY <3>3, <3>4, <3>5, <3>6
  <2>8. CASE CreateFail(c) BY <2>8 DEF CreateFail, FailedCreate, Unmade
  <2>9. CASE Store(c) BY <2>9 DEF Store
  <2> QED BY <1>1, <2>1, <2>2, <2>3, <2>4, <2>5, <2>6, <2>7, <2>8, <2>9 DEF Allocate
<1>2. ASSUME NEW w \in Warmers PROVE FALSE
  BY <1>2
<1>3. ASSUME NEW p \in Releasers \cup Collectors, Release(p) PROVE PassInv'
  <2>1. CASE ReleaseMark(p) BY <2>1 DEF ReleaseMark
  <2>2. CASE ReleaseMissing(p) BY <2>2 DEF ReleaseMissing, Returns
  <2>3. CASE DeleteOk(p) BY <2>3 DEF DeleteOk
  <2>4. CASE DeleteFails(p) BY <2>4 DEF DeleteFails, Returns
  <2>5. CASE ReleaseRemove(p) BY <2>5 DEF ReleaseRemove, Returns
  <2> QED BY <1>3, <2>1, <2>2, <2>3, <2>4, <2>5 DEF Release
<1>4. ASSUME NEW r \in Releasers, ReleaseCall(r) PROVE PassInv'
  BY <1>4 DEF ReleaseCall
<1>5. ASSUME NEW g \in Collectors, RunGC(g) PROVE PassInv'
  <2>1. CASE GCStart(g) BY <2>1 DEF GCStart
  <2>2. CASE GCExamine(g) BY <2>2 DEF GCExamine, Collectable
  <2>3. CASE GCDone(g) BY <2>3 DEF GCDone
  <2> QED BY <1>3, <1>5, <2>1, <2>2, <2>3 DEF RunGC
<1>6. ASSUME NEW k \in Sessions, Heartbeat(k) PROVE PassInv'
  BY <1>6 DEF Heartbeat
<1>7. ASSUME NEW s \in Sandboxes, Vanish(s) PROVE PassInv'
  BY <1>7 DEF Vanish
<1>8. CASE Tick BY <1>8 DEF Tick
<1>9. CASE UNCHANGED vars BY <1>9 DEF vars
<1> QED BY <1>1, <1>2, <1>3, <1>4, <1>5, <1>6, <1>7, <1>8, <1>9 DEF Next

\* A verdict of RunGC can go stale only through a heartbeat or the claim of a warm
\* sandbox.  Where there are neither, as in the program with minReady = 0, every
\* allocation that a collector releases has been idle for longer than idleTimeout
\* at that moment, however long the pass has lasted.
THEOREM VerdictsStand ==
    ASSUME ~ Heartbeats, Warmers = {} PROVE Spec => OnlyIdleReleased
<1>1. Init => PassInv
  BY PoolDistinct DEF Init, PassInv, Procs, ClaimLabels
<1>2. TypeInv /\ PassInv /\ [Next]_vars =>
        [\A g \in Collectors :
           pc[g] = "release" /\ pc'[g] = "delete" => last[box[g]] < now - IdleTimeout]_vars
  <2>1. ASSUME TypeInv, PassInv, NEW g \in Collectors, pc[g] = "release"
        PROVE  last[box[g]] < now - IdleTimeout
    <3>1. box[g] \in Sandboxes
      BY <2>1 DEF TypeInv, LocalsOK, Procs, BoxLabels
    <3>2. last[box[g]] \in Int /\ cutoff[g] \in Int /\ now \in Int /\ IdleTimeout \in Int
      BY <2>1, <3>1, PoolSizes DEF TypeInv, TypeOK, Times
    <3>3. cutoff[g] + IdleTimeout <= now /\ last[box[g]] < cutoff[g]
      BY <2>1 DEF PassInv
    <3> QED BY <3>2, <3>3
  <2> QED BY <2>1
<1>3. TypeInv /\ PoolInv /\ PassInv /\ [Next]_vars => PassInv'
  BY PassNext
<1> QED BY <1>1, <1>2, <1>3, PoolInvariant, PTL DEF Spec, OnlyIdleReleased

-----------------------------------------------------------------------------
(* The warm pool *)

\* No step adds an idle sandbox, but the warm-pool goroutine's own.
LEMMA WarmSteps ==
  ASSUME TypeInv, PoolInv, [Next]_vars
  PROVE  \/ IdleBoxes' \subseteq IdleBoxes /\ \A v \in Warmers : todo'[v] <= todo[v]
         \/ \E w \in Warmers : WarmStart(w)
         \/ \E w \in Warmers : /\ todo' = [todo EXCEPT ![w] = @ - 1]
                               /\ IdleBoxes' \subseteq IdleBoxes \cup {box[w]}
<1> DEFINE Fewer == IdleBoxes' \subseteq IdleBoxes
           Same == \A v \in Warmers : todo'[v] <= todo[v]
<1> USE DEF objects, cache, gcvars, Goto, Hold
<1>t. /\ byName \subseteq Sandboxes /\ status \in [Sandboxes -> Statuses]
      /\ todo \in [Warmers -> Nat] /\ box \in [Procs -> Sandboxes \cup {None}]
      /\ \A p \in Procs : pc[p] \in BoxLabels => box[p] \in Sandboxes
  BY DEF TypeInv, TypeOK, LocalsOK
<1>0. ASSUME UNCHANGED todo PROVE Same
  BY <1>0, <1>t
<1>1. ASSUME NEW c \in Callers, Allocate(c) PROVE Fewer /\ UNCHANGED todo
  <2>0. c \in Procs
    BY DEF Procs
  <2>1. CASE ClaimList(c) BY <2>1 DEF ClaimList, IdleBoxes
  <2>2. CASE ClaimNone(c) BY <2>2 DEF ClaimNone, IdleBoxes
  <2>3. CASE ClaimMark(c) BY <1>t, <2>3 DEF ClaimMark, IdleBoxes
  <2>4. CASE ClaimStamp(c) BY <2>4 DEF ClaimStamp, IdleBoxes
  <2>5. CASE ClaimIndex(c)
    BY <2>5 DEF ClaimIndex, CacheSet, IdleBoxes, PoolInv, ClaimInv, Claimable
  <2>6. CASE Admit(c) BY <2>6 DEF Admit, IdleBoxes
  <2>7. CASE CreateOk(c) BY <1>t, <2>7 DEF CreateOk, Unmade, IdleBoxes
  <2>8. CASE CreateFail(c) BY <2>8 DEF CreateFail, FailedCreate, Unmade, IdleBoxes
  <2>9. CASE Store(c)
    BY <2>9 DEF Store, CacheSet, IdleBoxes, PoolInv, ClaimInv, Claimable
  <2> QED BY <1>1, <2>1, <2>2, <2>3, <2>4, <2>5, <2>6, <2>7, <2>8, <2>9 DEF Allocate
<1>2. ASSUME NEW w \in Warmers, WarmAdmit(w) \/ WarmCreateFail(w) PROVE Fewer /\ Same
  BY <1>t, <1>2 DEF WarmAdmit, WarmCreateFail, FailedCreate, IdleBoxes
<1>3. ASSUME NEW w \in Warmers, WarmCreateOk(w) PROVE Fewer /\ UNCHANGED todo
  BY <1>t, <1>3 DEF WarmCreateOk, Unmade, IdleBoxes, PoolInv, ObjectInv
<1>4. ASSUME NEW w \in Warmers, WarmStore(w)
      PROVE  todo' = [todo EXCEPT ![w] = @ - 1] /\ IdleBoxes' \subseteq IdleBoxes \cup {box[w]}
  BY <1>4 DEF WarmStore, CacheSet, IdleBoxes
<1>5. ASSUME NEW p \in Releasers \cup Collectors, Release(p) PROVE Fewer /\ UNCHANGED todo
  <2>1. CASE ReleaseMark(p) BY <1>t, <2>1 DEF ReleaseMark, IdleBoxes
  <2>2. CASE ReleaseMissing(p) BY <2>2 DEF ReleaseMissing, IdleBoxes
  <2>3. CASE DeleteOk(p) BY <2>3 DEF DeleteOk, IdleBoxes
  <2>4. CASE DeleteFails(p) BY <2>4 DEF DeleteFails, IdleBoxes
  <2>5. CASE ReleaseRemove(p) BY <2>5 DEF ReleaseRemove, CacheDelete, IdleBoxes
  <2> QED BY <1>5, <2>1, <2>2, <2>3, <2>4, <2>5 DEF Release
<1>6. ASSUME UNCHANGED <<status, byName, todo>> PROVE Fewer /\ UNCHANGED todo
  BY <1>6 DEF IdleBoxes
<1> HIDE DEF Fewer
<1>7. ASSUME NEW g \in Collectors, RunGC(g) PROVE Fewer /\ UNCHANGED todo
  BY <1>5, <1>6, <1>7 DEF RunGC, GCStart, GCExamine, GCDone
<1>8. CASE \/ \E c \in Callers : Allocate(c)
           \/ \E g \in Collectors : RunGC(g)
           \/ \E r \in Releasers : ReleaseCall(r) \/ Release(r)
           \/ (\E k \in Sessions : Heartbeat(k)) \/ (\E s \in Sandboxes : Vanish(s))
           \/ Tick \/ UNCHANGED vars
  BY <1>0, <1>1, <1>5, <1>6, <1>7, <1>8 DEF ReleaseCall, Heartbeat, Vanish, Tick, vars, Fewer
<1>9. ASSUME NEW w \in Warmers, ReplenishWarm(w)
      PROVE  \/ Fewer /\ Same
             \/ WarmStart(w)
             \/ /\ todo' = [todo EXCEPT ![w] = @ - 1]
                /\ IdleBoxes' \subseteq IdleBoxes \cup {box[w]}
  BY <1>0, <1>2, <1>3, <1>4, <1>9 DEF ReplenishWarm
<1> QED BY <1>8, <1>9 DEF Next, Fewer

\* With one warm-pool goroutine, as cmd/router starts it, replenishWarm
\* never makes more than minReady idle sandboxes, although it counts them once and
\* then creates them one by one while claimIdle takes them.
THEOREM WarmPoolBounded ==
  ASSUME \A v, w \in Warmers : v = w PROVE Spec => []WarmBound
<1>1. Init => WarmBound
  <2> SUFFICES ASSUME Init PROVE WarmBound
    OBVIOUS
  <2>1. IdleBoxes = {}
    BY DEF Init, IdleBoxes
  <2> QED BY <2>1, FS_EmptySet, PoolSizes DEF Init, WarmBound
<1>2. TypeInv /\ TypeInv' /\ PoolInv /\ WarmBound /\ [Next]_vars => WarmBound'
  <2> SUFFICES ASSUME TypeInv, TypeInv', PoolInv, WarmBound, [Next]_vars, NEW w \in Warmers
               PROVE  Cardinality(IdleBoxes') + todo'[w] <= MinReady
    BY DEF WarmBound
  <2>1. /\ IsFiniteSet(IdleBoxes) /\ Cardinality(IdleBoxes) \in Nat
        /\ IsFiniteSet(IdleBoxes') /\ Cardinality(IdleBoxes') \in Nat
        /\ todo[w] \in Nat /\ todo'[w] \in Nat /\ MinReady \in Nat
        /\ Cardinality(IdleBoxes) + todo[w] <= MinReady
    <3>1. IdleBoxes \subseteq Sandboxes /\ IdleBoxes' \subseteq Sandboxes
      BY DEF IdleBoxes, TypeInv, TypeOK
    <3>2. IsFiniteSet(IdleBoxes) /\ IsFiniteSet(IdleBoxes')
      BY <3>1, PoolSets, FS_Subset
    <3> QED BY <3>2, FS_CardinalityType, PoolSizes DEF TypeInv, TypeOK, WarmBound
  <2>2. CASE IdleBoxes' \subseteq IdleBoxes /\ \A v \in Warmers : todo'[v] <= todo[v]
    <3>1. Cardinality(IdleBoxes') <= Cardinality(IdleBoxes)
      BY <2>1, <2>2, FS_Subset
    <3> QED BY <2>1, <2>2, <3>1
  <2>3. ASSUME NEW v \in Warmers, WarmStart(v)
        PROVE  Cardinality(IdleBoxes') + todo'[w] <= MinReady
    <3>1. IdleBoxes' = IdleBoxes /\ todo'[w] = MinReady - Cardinality(IdleBoxes)
      BY <2>3 DEF WarmStart, Deficit, IdleBoxes, objects, cache, TypeInv, TypeOK
    <3> QED BY <2>1, <3>1
  <2>4. ASSUME NEW v \in Warmers, todo' = [todo EXCEPT ![v] = @ - 1],
               IdleBoxes' \subseteq IdleBoxes \cup {box[v]}
        PROVE  Cardinality(IdleBoxes') + todo'[w] <= MinReady
    <3>1. todo'[w] = todo[w] - 1
      BY <2>4 DEF TypeInv, TypeOK
    <3>2. /\ IsFiniteSet(IdleBoxes \cup {box[v]})
          /\ Cardinality(IdleBoxes \cup {box[v]}) \in Nat
          /\ Cardinality(IdleBoxes \cup {box[v]}) <= Cardinality(IdleBoxes) + 1
      BY <2>1, AddOne
    <3>3. Cardinality(IdleBoxes') <= Cardinality(IdleBoxes \cup {box[v]})
      BY <2>4, <3>2, FS_Subset
    <3> QED BY <2>1, <3>1, <3>2, <3>3
  <2> QED BY <2>2, <2>3, <2>4, WarmSteps
<1> QED BY <1>1, <1>2, PoolInvariant, PTL DEF Spec
=============================================================================
