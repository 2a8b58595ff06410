------------------------------ MODULE SandboxPool ------------------------------
(***************************************************************************)
(* The sandbox pool of one process: PoolManager (internal/pool/manager.go) *)
(* over its AllocationCache (internal/pool/cache.go) and a sandbox         *)
(* provider seen through the SandboxProvider interface.                    *)
(*                                                                         *)
(* Allocation objects are shared by pointer and several of their fields    *)
(* are written outside any lock, so every such access is a step of its     *)
(* own.  A cache operation is atomic (AllocationCache.mu); PoolManager.mu  *)
(* is the variable mu.  What a goroutine does between two accesses to      *)
(* shared state is folded into the access that precedes it.                *)
(***************************************************************************)
EXTENDS Integers, FiniteSets

CONSTANTS
    Sandboxes,    \* names the provider can give; a name is used once
    Sessions,     \* uuid.NewString(): every session id is fresh
    Callers,      \* goroutines that call Allocate
    Releasers,    \* goroutines that call Release (ReleaseSandboxActivity)
    Collectors,   \* goroutines of StartGCLoop
    Warmers,      \* goroutines of StartWarmPool
    Heartbeats,   \* does anybody call Heartbeat?
    Faults,       \* which provider failures can happen
    MaxSize,      \* PoolManager.maxSize
    MinReady,     \* StartWarmPool's minReady
    IdleTimeout,  \* StartGCLoop's idleTimeout
    MaxTime,      \* bound on the clock
    None          \* no sandbox, no session (""), no lock holder

Procs    == Callers \cup Releasers \cup Collectors \cup Warmers
Creators == Callers \cup Warmers

ASSUME PoolSizes ==
    /\ MaxSize \in Nat \ {0} /\ MinReady \in Nat
    /\ IdleTimeout \in Nat /\ MaxTime \in Nat
ASSUME PoolSets ==
    /\ IsFiniteSet(Sandboxes) /\ IsFiniteSet(Creators)
    /\ Heartbeats \in BOOLEAN
    /\ Faults \subseteq {"createLost", "deleteError", "deleteLost", "vanish"}
ASSUME PoolDistinct ==
    /\ None \notin Sandboxes \cup Sessions \cup Procs
    /\ Callers \cap (Releasers \cup Collectors \cup Warmers) = {}
    /\ Releasers \cap (Collectors \cup Warmers) = {}
    /\ Collectors \cap Warmers = {}

VARIABLES
    now,        \* time.Now()
    live,       \* sandboxes that exist at the provider
    status,     \* Allocation.Status; "None" before the object is built
    session,    \* Allocation.SessionID
    last,       \* Allocation.LastActivity
    byName,     \* keys of AllocationCache.byName
    bySession,  \* AllocationCache.bySession
    mu,         \* holder of PoolManager.mu
    pc,         \* where each goroutine is
    box,        \* the sandbox each goroutine works on
    cutoff,     \* RunGC's cutoff
    worklist,   \* what is left of RunGC's cache.List() snapshot
    todo,       \* what is left of replenishWarm's deficit
    grants      \* <<session, sandbox>> pairs that Allocate has returned

objects == <<status, session, last>>
cache   == <<byName, bySession>>
gcvars  == <<cutoff, worklist>>
vars    == <<now, live, objects, cache, mu, pc, box, gcvars, todo, grants>>

Statuses == {"None", "Idle", "Active", "Releasing"}
Labels   == {"ready", "mark", "stamp", "index", "admit", "create", "store",
             "scan", "release", "delete", "remove"}
Times    == 0..MaxTime

Init ==
    /\ now = 0
    /\ live = {}
    /\ status = [s \in Sandboxes |-> "None"]
    /\ session = [s \in Sandboxes |-> None]
    /\ last = [s \in Sandboxes |-> 0]
    /\ byName = {}
    /\ bySession = [k \in Sessions |-> None]
    /\ mu = None
    /\ pc = [p \in Procs |-> "ready"]
    /\ box = [p \in Procs |-> None]
    /\ cutoff = [g \in Collectors |-> 0]
    /\ worklist = [g \in Collectors |-> {}]
    /\ todo = [w \in Warmers |-> 0]
    /\ grants = {}

-----------------------------------------------------------------------------
(* Helpers *)

Goto(p, l)     == pc' = [pc EXCEPT ![p] = l]
Hold(p, s)     == box' = [box EXCEPT ![p] = s]
Lock_Missing(p) == UNCHANGED mu
Lock(p)         == mu = None /\ mu' = p
Unlock_Missing  == UNCHANGED mu
Unlock          == mu' = None
Unmade         == {s \in Sandboxes \ live : status[s] = "None"}
FreshSessions  == {k \in Sessions : \A s \in Sandboxes : session[s] # k}

\* AllocationCache.ListByStatus(StatusIdle)
IdleBoxes == {s \in byName : status[s] = "Idle"}

\* cache.Len() >= maxSize
Full_OffByOne == Cardinality(byName) > MaxSize
Full == Cardinality(byName) >= MaxSize

\* AllocationCache.Set: the name always, the session when it is not empty
CacheSet_NameOnly(s) ==
    /\ byName' = byName \cup {s}
    /\ UNCHANGED bySession
CacheSet(s) ==
    /\ byName' = byName \cup {s}
    /\ bySession' = IF session[s] = None THEN bySession
                    ELSE [bySession EXCEPT ![session[s]] = s]

\* AllocationCache.Delete: nothing when the name is not there
CacheDelete_NameOnly(s) ==
    /\ byName' = byName \ {s}
    /\ UNCHANGED bySession
CacheDelete(s) ==
    /\ byName' = byName \ {s}
    /\ bySession' = IF s \notin byName \/ session[s] = None THEN bySession
                    ELSE [bySession EXCEPT ![session[s]] = None]

-----------------------------------------------------------------------------
(* Allocate: claimIdle under PoolManager.mu ... *)

\* Lock, ListByStatus(StatusIdle), alloc := idle[0]
ClaimList(c) ==
    /\ pc[c] = "ready"
    /\ Lock(c)
    /\ \E s \in IdleBoxes : Hold(c, s)
    /\ Goto(c, "mark")
    /\ UNCHANGED <<now, live, objects, cache, gcvars, todo, grants>>

\* no idle sandbox: claimIdle returns nil, and its deferred Unlock runs
ClaimNone(c) ==
    /\ pc[c] = "ready"
    /\ mu = None
    /\ IdleBoxes = {}
    /\ Goto(c, "admit")
    /\ UNCHANGED <<now, live, objects, cache, mu, box, gcvars, todo, grants>>

\* alloc.Status = StatusActive
ClaimMark(c) ==
    /\ pc[c] = "mark"
    /\ status' = [status EXCEPT ![box[c]] = "Active"]
    /\ Goto(c, "stamp")
    /\ UNCHANGED <<now, live, session, last, cache, mu, box, gcvars, todo, grants>>

\* alloc.SessionID = uuid.NewString(); alloc.LastActivity = time.Now()
ClaimStamp(c) ==
    /\ pc[c] = "stamp"
    /\ \E k \in FreshSessions : session' = [session EXCEPT ![box[c]] = k]
    /\ last' = [last EXCEPT ![box[c]] = now]
    /\ Goto(c, "index")
    /\ UNCHANGED <<now, live, status, cache, mu, box, gcvars, todo, grants>>

\* cache.Set, unlock, and Allocate returns the claimed allocation
ClaimIndex(c) ==
    /\ pc[c] = "index"
    /\ CacheSet(box[c])
    /\ Unlock
    /\ grants' = grants \cup {<<session[box[c]], box[c]>>}
    /\ Hold(c, None)
    /\ Goto(c, "ready")
    /\ UNCHANGED <<now, live, objects, gcvars, todo>>

(* ... or admission by size, and a new sandbox *)

Admit(c) ==
    /\ pc[c] = "admit"
    /\ mu = None
    /\ Goto(c, IF Full THEN "ready" ELSE "create")
    /\ UNCHANGED <<now, live, objects, cache, mu, box, gcvars, todo, grants>>

\* CreateSandbox returned a name; the Allocation is built, still private
CreateOk(c) ==
    /\ pc[c] = "create"
    /\ \E s \in Unmade, k \in FreshSessions :
         /\ live' = live \cup {s}
         /\ status' = [status EXCEPT ![s] = "Active"]
         /\ session' = [session EXCEPT ![s] = k]
         /\ last' = [last EXCEPT ![s] = now]
         /\ Hold(c, s)
    /\ Goto(c, "store")
    /\ UNCHANGED <<now, cache, mu, gcvars, todo, grants>>

\* CreateSandbox returned an error: nothing was made, or the claim was made and
\* stays, because the answer to its Create was lost or because the cleanup after
\* the poll failed too.  No Allocation is built for such a stray.
FailedCreate ==
    \/ UNCHANGED live
    \/ /\ "createLost" \in Faults
       /\ \E s \in Unmade : live' = live \cup {s}

\* Allocate returns the error
CreateFail(c) ==
    /\ pc[c] = "create"
    /\ FailedCreate
    /\ Goto(c, "ready")
    /\ UNCHANGED <<now, objects, cache, mu, box, gcvars, todo, grants>>

\* cache.Set(alloc); Allocate returns
Store(c) ==
    /\ pc[c] = "store"
    /\ CacheSet(box[c])
    /\ grants' = grants \cup {<<session[box[c]], box[c]>>}
    /\ Hold(c, None)
    /\ Goto(c, "ready")
    /\ UNCHANGED <<now, live, objects, mu, gcvars, todo>>

Allocate(c) ==
    \/ ClaimList(c) \/ ClaimNone(c) \/ ClaimMark(c) \/ ClaimStamp(c)
    \/ ClaimIndex(c) \/ Admit(c) \/ CreateOk(c) \/ CreateFail(c) \/ Store(c)

-----------------------------------------------------------------------------
(* replenishWarm and AllocateWarm *)

\* deficit := minReady - len(idle)
Deficit_IgnoresIdle == MinReady
Deficit == MinReady - Cardinality(IdleBoxes)

WarmStart(w) ==
    /\ pc[w] = "ready"
    /\ Deficit > 0
    /\ todo' = [todo EXCEPT ![w] = Deficit]
    /\ Goto(w, "admit")
    /\ UNCHANGED <<now, live, objects, cache, mu, box, gcvars, grants>>

\* ErrPoolExhausted ends the replenishment
WarmAdmit(w) ==
    /\ pc[w] = "admit"
    /\ mu = None
    /\ Goto(w, IF Full THEN "ready" ELSE "create")
    /\ todo' = [todo EXCEPT ![w] = IF Full THEN 0 ELSE @]
    /\ UNCHANGED <<now, live, objects, cache, mu, box, gcvars, grants>>

WarmCreateOk(w) ==
    /\ pc[w] = "create"
    /\ \E s \in Unmade :
         /\ live' = live \cup {s}
         /\ status' = [status EXCEPT ![s] = "Idle"]
         /\ last' = [last EXCEPT ![s] = now]
         /\ Hold(w, s)
    /\ Goto(w, "store")
    /\ UNCHANGED <<now, session, cache, mu, gcvars, todo, grants>>

WarmCreateFail(w) ==
    /\ pc[w] = "create"
    /\ FailedCreate
    /\ Goto(w, "ready")
    /\ todo' = [todo EXCEPT ![w] = 0]
    /\ UNCHANGED <<now, objects, cache, mu, box, gcvars, grants>>

\* i < deficit, after i++
MoreWarm_OffByOne(w) == todo[w] >= 1
MoreWarm(w) == todo[w] > 1

WarmStore(w) ==
    /\ pc[w] = "store"
    /\ CacheSet(box[w])
    /\ Hold(w, None)
    /\ todo' = [todo EXCEPT ![w] = @ - 1]
    /\ Goto(w, IF MoreWarm(w) THEN "admit" ELSE "ready")
    /\ UNCHANGED <<now, live, objects, mu, gcvars, grants>>

ReplenishWarm(w) ==
    \/ WarmStart(w) \/ WarmAdmit(w) \/ WarmCreateOk(w) \/ WarmCreateFail(w)
    \/ WarmStore(w)

-----------------------------------------------------------------------------
(* Release, called by a Collector (RunGC) or by a Releaser *)

Returns(p) == /\ Goto(p, IF p \in Collectors THEN "scan" ELSE "ready")
              /\ Hold(p, None)

\* a Releaser releases a sandbox that Allocate has handed out, possibly again
ReleaseCall(r) ==
    /\ pc[r] = "ready"
    /\ \E g \in grants : Hold(r, g[2])
    /\ Goto(r, "release")
    /\ UNCHANGED <<now, live, objects, cache, mu, gcvars, todo, grants>>

\* cache.Get found it: alloc.Status = StatusReleasing, with no lock held
ReleaseMark(p) ==
    /\ pc[p] = "release"
    /\ box[p] \in byName
    /\ status' = [status EXCEPT ![box[p]] = "Releasing"]
    /\ Goto(p, "delete")
    /\ UNCHANGED <<now, live, session, last, cache, mu, box, gcvars, todo, grants>>

\* cache.Get did not find it: Release returns nil
ReleaseMissing(p) ==
    /\ pc[p] = "release"
    /\ box[p] \notin byName
    /\ Returns(p)
    /\ UNCHANGED <<now, live, objects, cache, mu, gcvars, todo, grants>>

DeleteOk(p) ==
    /\ pc[p] = "delete"
    /\ box[p] \in live
    /\ live' = live \ {box[p]}
    /\ Goto(p, "remove")
    /\ UNCHANGED <<now, objects, cache, mu, box, gcvars, todo, grants>>

\* DeleteSandbox failed and the sandbox is still there; or it went through and
\* only the answer was lost; or the claim is already gone (NotFound).  Release
\* returns the error and leaves the cache entry as it is.
DeleteFails_StillRemoves(p) ==
    /\ pc[p] = "delete"
    /\ "deleteError" \in Faults
    /\ Goto(p, "remove")
    /\ UNCHANGED <<now, live, objects, cache, mu, box, gcvars, todo, grants>>
DeleteFails(p) ==
    /\ pc[p] = "delete"
    /\ \/ /\ "deleteError" \in Faults
          /\ UNCHANGED live
       \/ /\ "deleteLost" \in Faults /\ box[p] \in live
          /\ live' = live \ {box[p]}
       \/ /\ box[p] \notin live
          /\ UNCHANGED live
    /\ Returns(p)
    /\ UNCHANGED <<now, objects, cache, mu, gcvars, todo, grants>>

\* cache.Delete, and Release returns nil
ReleaseRemove(p) ==
    /\ pc[p] = "remove"
    /\ CacheDelete(box[p])
    /\ Returns(p)
    /\ UNCHANGED <<now, live, objects, mu, gcvars, todo, grants>>

Release(p) ==
    \/ ReleaseMark(p) \/ ReleaseMissing(p) \/ DeleteOk(p) \/ DeleteFails(p)
    \/ ReleaseRemove(p)

-----------------------------------------------------------------------------
(* RunGC: fields are read with no lock held, from a snapshot of the cache *)

GCStart(g) ==
    /\ pc[g] = "ready"
    /\ byName # {}
    /\ cutoff' = [cutoff EXCEPT ![g] = now - IdleTimeout]
    /\ worklist' = [worklist EXCEPT ![g] = byName]
    /\ Goto(g, "scan")
    /\ UNCHANGED <<now, live, objects, cache, mu, box, todo, grants>>

\* skip Idle and Releasing; LastActivity.Before(cutoff)
Collectable_Warm(g, s) == status[s] # "Releasing" /\ last[s] < cutoff[g]
Collectable_After(g, s) == status[s] \notin {"Idle", "Releasing"} /\ last[s] > cutoff[g]
Collectable(g, s) == status[s] \notin {"Idle", "Releasing"} /\ last[s] < cutoff[g]

GCExamine(g) ==
    /\ pc[g] = "scan"
    /\ \E s \in worklist[g] :
         /\ worklist' = [worklist EXCEPT ![g] = @ \ {s}]
         /\ IF Collectable(g, s) THEN Hold(g, s) /\ Goto(g, "release")
                                 ELSE UNCHANGED <<box, pc>>
    /\ UNCHANGED <<now, live, objects, cache, mu, cutoff, todo, grants>>

GCDone(g) ==
    /\ pc[g] = "scan"
    /\ worklist[g] = {}
    /\ cutoff' = [cutoff EXCEPT ![g] = 0]
    /\ Goto(g, "ready")
    /\ UNCHANGED <<now, live, objects, cache, mu, box, worklist, todo, grants>>

RunGC(g) == GCStart(g) \/ GCExamine(g) \/ GCDone(g) \/ Release(g)

-----------------------------------------------------------------------------
(* Heartbeat, the clock and the provider's own failures *)

\* GetBySession, then LastActivity = time.Now() under PoolManager.mu
Heartbeat(k) ==
    /\ Heartbeats
    /\ bySession[k] # None
    /\ mu = None
    /\ last' = [last EXCEPT ![bySession[k]] = now]
    /\ UNCHANGED <<now, live, status, session, cache, mu, pc, box, gcvars, todo, grants>>

Tick ==
    /\ now < MaxTime
    /\ now' = now + 1
    /\ UNCHANGED <<live, objects, cache, mu, pc, box, gcvars, todo, grants>>

\* somebody else deletes the claim, as the controller does (cleanupOrphaned)
Vanish(s) ==
    /\ "vanish" \in Faults
    /\ s \in live
    /\ live' = live \ {s}
    /\ UNCHANGED <<now, objects, cache, mu, pc, box, gcvars, todo, grants>>

Next ==
    \/ \E c \in Callers : Allocate(c)
    \/ \E w \in Warmers : ReplenishWarm(w)
    \/ \E r \in Releasers : ReleaseCall(r) \/ Release(r)
    \/ \E g \in Collectors : RunGC(g)
    \/ \E k \in Sessions : Heartbeat(k)
    \/ \E s \in Sandboxes : Vanish(s)
    \/ Tick

Spec == Init /\ [][Next]_vars

(***************************************************************************)
(* Fairness.  A goroutine that can run eventually does; sync.Mutex hands   *)
(* the lock over after 1ms of starvation, so a Lock() that can succeed     *)
(* again and again does (strong fairness of the steps that take mu);       *)
(* provider calls return (client timeouts, the poll's 5 minutes); the two  *)
(* tickers keep firing.  Nobody is obliged to call Allocate, Release or    *)
(* Heartbeat, no fault is obliged to happen, and the clock may stop.       *)
(***************************************************************************)
FairSpec ==
    /\ Spec
    /\ \A c \in Callers :
         /\ WF_vars(pc[c] # "ready" /\ Allocate(c))
         /\ SF_vars(Admit(c))
    /\ \A w \in Warmers :
         /\ WF_vars(ReplenishWarm(w))
         /\ SF_vars(WarmAdmit(w))
    /\ \A r \in Releasers : WF_vars(Release(r))
    /\ \A g \in Collectors : WF_vars(RunGC(g))

-----------------------------------------------------------------------------
(* Properties *)

Claiming == {c \in Callers : pc[c] \in {"mark", "stamp", "index"}}
Creating == {p \in Creators : pc[p] \in {"create", "store"}}
Claimed  == {box[c] : c \in Claiming}
Built    == {box[p] : p \in {q \in Creators : pc[q] = "store"}}

\* Every variable keeps its type: Allocation's fields, the two cache indexes,
\* the lock and the goroutines' locals.
TypeOK ==
    /\ now \in Times
    /\ live \subseteq Sandboxes
    /\ status \in [Sandboxes -> Statuses]
    /\ session \in [Sandboxes -> Sessions \cup {None}]
    /\ last \in [Sandboxes -> Times]
    /\ byName \subseteq Sandboxes
    /\ bySession \in [Sessions -> Sandboxes \cup {None}]
    /\ mu \in Callers \cup {None}
    /\ pc \in [Procs -> Labels]
    /\ box \in [Procs -> Sandboxes \cup {None}]
    /\ cutoff \in [Collectors -> Int]
    /\ worklist \in [Collectors -> SUBSET Sandboxes]
    /\ todo \in [Warmers -> Nat]
    /\ grants \subseteq Sessions \X Sandboxes

\* Allocate never hands one sandbox to two sessions, nor one session two
\* sandboxes: claimIdle's list-then-mark is safe because both happen under
\* PoolManager.mu.
ExclusiveGrant ==
    \A g, h \in grants : (g[1] = h[1]) <=> (g[2] = h[2])

\* The two indexes of AllocationCache agree whatever interleaves with Set and
\* Delete: a session leads to a cached allocation that carries it, and a cached
\* allocation with a session is found by it unless claimIdle is about to
\* re-index it.
IndexCoherence ==
    /\ \A k \in Sessions : bySession[k] # None =>
         bySession[k] \in byName /\ session[bySession[k]] = k
    /\ \A s \in byName \ Claimed : session[s] # None => bySession[session[s]] = s

\* The admission check is made before CreateSandbox and the insertion after it,
\* so maxSize can be overshot, but by at most one less than the number of
\* goroutines that create.
OvershootBound ==
    Cardinality(byName) + Cardinality(Creating) < MaxSize + Cardinality(Creators)

\* replenishWarm works from a stale count of idle sandboxes and still never
\* makes more than minReady of them: with one warm-pool goroutine, others only
\* take idle sandboxes away.
WarmBound ==
    \A w \in Warmers : Cardinality(IdleBoxes) + todo[w] <= MinReady

\* A sandbox that CreateSandbox returned and that exists at the provider is in
\* the cache or about to be put there, through every failing, lost, repeated or
\* overlapping Release.  What this process can lose track of are the strays of
\* creations that answered with an error, for which it never had an Allocation.
NothingForgotten ==
    {s \in live : status[s] # "None"} \subseteq byName \cup Claimed \cup Built

\* A cached allocation offered to users (Idle) or used by one (Active) has its
\* sandbox, as long as nobody else deletes claims ("vanish" \notin Faults): what
\* Release and RunGC take away is marked Releasing first.
OfferedIsLive ==
    \A s \in byName : status[s] \in {"Idle", "Active"} => s \in live

Rank == [x \in Statuses |->
           CASE x = "None" -> 0 [] x = "Idle" -> 1 [] x = "Active" -> 2 [] OTHER -> 3]

\* Whatever the unsynchronised writes to Allocation.Status, a status never goes
\* back: a sandbox being released is never offered again, a claimed one never
\* returns to the warm pool, and its session never changes.
NeverReused ==
    [][\A s \in Sandboxes : /\ Rank[status'[s]] >= Rank[status[s]]
                            /\ session[s] # None => session'[s] = session[s]]_vars

\* Every Allocate, Release and replenishment that starts returns.
CallsReturn == \A p \in Procs : pc[p] # "ready" ~> pc[p] = "ready"

\* An allocation whose session has been inactive for longer than idleTimeout
\* does not stay in use: RunGC releases it, unless a heartbeat comes first.
Overdue(s) ==
    /\ s \in byName /\ status[s] = "Active" /\ session[s] # None
    /\ bySession[session[s]] = s
    /\ last[s] < now - IdleTimeout
OverdueCollected == \A s \in Sandboxes : Overdue(s) ~> ~ Overdue(s)

PhaseOf == [s \in Sandboxes |->
              CASE status[s] = "None" -> "absent"
                [] status[s] = "Idle" -> "spare"
                [] status[s] = "Active" -> "taken"
                [] OTHER -> "retired"]
Ownership == INSTANCE SandboxOwnership WITH phase <- PhaseOf, owners <- grants

\* The pool implements SandboxOwnership: a sandbox goes through its lifecycle
\* once, is retired only after it was taken and is handed to at most one session.
OwnershipSpec == Ownership!Spec

\* maxSize is a hard cap on the number of allocations.  Allocate tests the size,
\* unlocks, creates and only then inserts, so this takes a single creator.
HardCap == Cardinality(byName) <= MaxSize

\* RunGC releases an allocation that, when its release begins, has been idle for
\* longer than idleTimeout.  LastActivity is tested before, with no lock held, so
\* this takes that nobody stamps it in between.
OnlyIdleReleased ==
    [][\A g \in Collectors :
         pc[g] = "release" /\ pc'[g] = "delete" => last[box[g]] < now - IdleTimeout]_vars

\* The allocation that Allocate returns is usable: it is not being released.
GrantIsUsable ==
    [][\A g \in grants' \ grants : status[g[2]] = "Active"]_vars
=============================================================================
