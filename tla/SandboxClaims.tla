----------------------------- MODULE SandboxClaims -----------------------------
(***************************************************************************)
(* SandboxClaim resources in one Kubernetes namespace: the provider calls  *)
(* of every router and worker replica (internal/pool/k8s_provider.go), the *)
(* sandbox operator that moves claims through their phases (external), and *)
(* the controller's cleanup loop (internal/controller/reconciler.go).      *)
(*                                                                         *)
(* A claim is named after the millisecond in which its creator read its    *)
(* own clock.  Clocks of replicas are off by up to MaxSkew, and            *)
(* the API server accepts a Create any time after the name was chosen, so  *)
(* a name says little about when, and by whom, a claim was created.        *)
(***************************************************************************)
EXTENDS Integers, FiniteSets

CONSTANTS
    Creators,    \* goroutines, of any replica, that hold at most one sandbox each
    GcTimeout,   \* SandboxReconciler.gcTimeout
    MaxTime,     \* bound on the clock
    MaxSkew,     \* how far a replica's clock is from the API server's, at most
    SweepSkew,   \* and how far the controller's is
    Faults,      \* which failures can happen
    MaxMishaps,  \* bound on the failures that can strand a claim
    None

ASSUME ClaimsAssumption ==
    /\ GcTimeout \in Nat /\ MaxTime \in Nat /\ MaxMishaps \in Nat
    /\ MaxSkew \in Nat /\ SweepSkew \in Nat
    /\ None \notin Creators
    /\ Faults \subseteq {"createLost", "cancel", "deleteError", "deleteLost", "crash"}

Names    == 0..MaxTime
Phases   == {"absent", "Pending", "Ready", "Failed", "Completed"}
Terminal == {"Failed", "Completed"}

VARIABLES
    now,        \* the API server's clock
    phase,      \* status.phase of the claim of each name
    born,       \* metadata.creationTimestamp of the claim of each name
    owner,      \* who created the claim of each name (history)
    pc,         \* "idle", "creating", "poll", "cleanup" or "held"
    claim,      \* the name each creator works with
    cancelled,  \* is the creator's context cancelled?
    robbed,     \* creators whose claim went without their being told (history)
    mishaps,    \* lost answers, cancelled calls, failed cleanups, crashes (history)
    gpc,        \* the controller: "idle" or "sweep"
    doomed,     \* what is left of the controller's list that passed its filter
    reused      \* the doomed names that were created again since the list (history)

provider == <<pc, claim, cancelled>>
server   == <<phase, born, owner>>
sweep    == <<gpc, doomed, reused>>
vars     == <<now, server, provider, robbed, mishaps, sweep>>

Exists(n) == phase[n] # "absent"
Working   == {c \in Creators : pc[c] \in {"poll", "cleanup", "held"}}

\* time.Now() in some replica
Readings == {n \in Names : n >= now - MaxSkew /\ n <= now + MaxSkew}

Init ==
    /\ now = 0
    /\ phase = [n \in Names |-> "absent"]
    /\ born = [n \in Names |-> 0]
    /\ owner = [n \in Names |-> None]
    /\ pc = [c \in Creators |-> "idle"]
    /\ claim = [c \in Creators |-> 0]
    /\ cancelled = [c \in Creators |-> FALSE]
    /\ robbed = {}
    /\ mishaps = 0
    /\ gpc = "idle"
    /\ doomed = {}
    /\ reused = {}

\* The API server takes a Create, or a Delete
Accept(n, c) == /\ phase' = [phase EXCEPT ![n] = "Pending"]
                /\ born' = [born EXCEPT ![n] = now]
                /\ owner' = [owner EXCEPT ![n] = c]
                /\ reused' = reused \cup ({n} \cap doomed)
Remove(n) == /\ phase' = [phase EXCEPT ![n] = "absent"]
             /\ born' = [born EXCEPT ![n] = 0]
             /\ owner' = [owner EXCEPT ![n] = None]

\* Who loses its claim when the claim of that name is deleted
Victims(n) == {c \in Working : claim[c] = n /\ owner[n] = c}

Mishap == mishaps < MaxMishaps /\ mishaps' = mishaps + 1
Goto(c, l) == pc' = [pc EXCEPT ![c] = l]
Return(c)  == /\ Goto(c, "idle")
              /\ claim' = [claim EXCEPT ![c] = 0]
              /\ cancelled' = [cancelled EXCEPT ![c] = FALSE]

-----------------------------------------------------------------------------
(* CreateSandbox *)

\* name := oc-<UnixMilli>, from the replica's clock
NameClaim_RoundedUp(c) ==
    /\ pc[c] = "idle"
    /\ \E n \in Readings : claim' = [claim EXCEPT ![c] = n + 1]
    /\ Goto(c, "creating")
    /\ UNCHANGED <<now, server, cancelled, robbed, mishaps, sweep>>
NameClaim(c) ==
    /\ pc[c] = "idle"
    /\ \E n \in Readings : claim' = [claim EXCEPT ![c] = n]
    /\ Goto(c, "creating")
    /\ UNCHANGED <<now, server, cancelled, robbed, mishaps, sweep>>

\* The Create arrives, now or much later.  The server refuses a name that is taken.
CreateClaim_Adopt(c) ==
    /\ pc[c] = "creating"
    /\ IF Exists(claim[c]) THEN UNCHANGED <<server, reused>> ELSE Accept(claim[c], c)
    /\ Goto(c, "poll")
    /\ UNCHANGED <<now, claim, cancelled, robbed, mishaps, gpc, doomed>>
CreateClaim(c) ==
    /\ pc[c] = "creating"
    /\ ~Exists(claim[c])
    /\ Accept(claim[c], c)
    /\ Goto(c, "poll")
    /\ UNCHANGED <<now, claim, cancelled, robbed, mishaps, gpc, doomed>>

\* Create returned an error: AlreadyExists or another refusal, with nothing done,
\* or the claim was made and only the answer was lost.  CreateSandbox returns the
\* error without cleaning up.
CreateError_CleansUp(c) ==
    /\ pc[c] = "creating"
    /\ Goto(c, "cleanup")
    /\ UNCHANGED <<now, server, claim, cancelled, robbed, mishaps, sweep>>
CreateError(c) ==
    /\ pc[c] = "creating"
    /\ \/ UNCHANGED <<server, reused, mishaps>>
       \/ /\ "createLost" \in Faults /\ ~Exists(claim[c])
          /\ Accept(claim[c], c)
          /\ Mishap
    /\ Return(c)
    /\ UNCHANGED <<now, robbed, gpc, doomed>>

\* The poll reads the phase; a failing Get is retried, so nothing changes.
PollReady(c) ==
    /\ pc[c] = "poll"
    /\ ~cancelled[c]
    /\ phase[claim[c]] = "Ready"
    /\ Goto(c, "held")
    /\ UNCHANGED <<now, server, claim, cancelled, robbed, mishaps, sweep>>

\* phase Failed, five minutes gone, or the caller's context cancelled
PollFails_NoCleanup(c) ==
    /\ pc[c] = "poll"
    /\ Return(c)
    /\ robbed' = robbed \ {c}
    /\ UNCHANGED <<now, server, mishaps, sweep>>
PollFails(c) ==
    /\ pc[c] = "poll"
    /\ Goto(c, "cleanup")
    /\ UNCHANGED <<now, server, claim, cancelled, robbed, mishaps, sweep>>

Cancel(c) ==
    /\ "cancel" \in Faults
    /\ pc[c] \in {"poll", "cleanup"}
    /\ ~cancelled[c]
    /\ cancelled' = [cancelled EXCEPT ![c] = TRUE]
    /\ Mishap
    /\ UNCHANGED <<now, server, pc, claim, robbed, sweep>>

\* The creator c deletes its claim by name, whoever's it is by now, and returns
DeleteAndReturn(c) ==
    /\ Exists(claim[c])
    /\ Remove(claim[c])
    /\ robbed' = (robbed \cup Victims(claim[c])) \ {c}
    /\ Return(c)

\* Delete under the caller's own context, its error dropped: a cancelled
\* context, a failing request or a missing claim all just return.
Cleanup(c) ==
    /\ pc[c] = "cleanup"
    /\ \/ /\ ~cancelled[c]
          /\ DeleteAndReturn(c)
          /\ UNCHANGED mishaps
       \/ /\ cancelled[c] \/ ~Exists(claim[c])
          /\ Return(c)
          /\ robbed' = robbed \ {c}
          /\ UNCHANGED <<server, mishaps>>
       \/ /\ "deleteError" \in Faults /\ ~cancelled[c]
          /\ Mishap
          /\ Return(c)
          /\ robbed' = robbed \ {c}
          /\ UNCHANGED server
    /\ UNCHANGED <<now, sweep>>

\* DeleteSandbox.  On an error (NotFound included) the pool keeps its entry, also
\* when the claim was deleted and only the answer was lost.
DeleteSandbox(c) ==
    /\ pc[c] = "held"
    /\ \/ DeleteAndReturn(c)
       \/ /\ "deleteLost" \in Faults /\ Exists(claim[c])
          /\ Remove(claim[c])
          /\ robbed' = robbed \cup Victims(claim[c])
          /\ UNCHANGED provider
       \/ /\ ~Exists(claim[c]) \/ "deleteError" \in Faults
          /\ UNCHANGED <<server, provider, robbed>>
    /\ UNCHANGED <<now, mishaps, sweep>>

\* The replica dies, or is told to stop: main() releases nothing on its way out,
\* so the in-memory pool is gone and its claims are not.
Crash(c) ==
    /\ "crash" \in Faults
    /\ pc[c] # "idle"
    /\ Return(c)
    /\ Mishap
    /\ robbed' = robbed \ {c}
    /\ UNCHANGED <<now, server, sweep>>

-----------------------------------------------------------------------------
(* The sandbox operator and the clock (external) *)

Advance(n) ==
    /\ \/ phase[n] = "Pending" /\ phase' \in {[phase EXCEPT ![n] = x] : x \in {"Ready", "Failed"}}
       \/ phase[n] = "Ready" /\ phase' \in {[phase EXCEPT ![n] = x] : x \in Terminal}
    /\ UNCHANGED <<now, born, owner, provider, robbed, mishaps, sweep>>

Tick ==
    /\ now < MaxTime
    /\ now' = now + 1
    /\ UNCHANGED <<server, provider, robbed, mishaps, sweep>>

-----------------------------------------------------------------------------
(* cleanupOrphaned *)

\* The filter on a listed item, when the controller's clock reads t: a terminal
\* phase, created before the cutoff.
Orphaned_AnyPhase(n, t) == Exists(n) /\ born[n] < t - GcTimeout
Orphaned_Future(n, t) == phase[n] \in Terminal /\ born[n] > t - GcTimeout
Orphaned(n, t) == phase[n] \in Terminal /\ born[n] < t - GcTimeout

Sweep ==
    /\ gpc = "idle"
    /\ \E t \in (now - SweepSkew)..(now + SweepSkew) : doomed' = {n \in Names : Orphaned(n, t)}
    /\ doomed' # {}
    /\ gpc' = "sweep"
    /\ UNCHANGED <<now, server, provider, robbed, mishaps, reused>>

\* Delete by name; a missing claim or a failing request is only logged
SweepDelete(n) ==
    /\ gpc = "sweep"
    /\ n \in doomed
    /\ \/ /\ Exists(n)
          /\ Remove(n)
          /\ robbed' = robbed \cup Victims(n)
       \/ /\ ~Exists(n) \/ "deleteError" \in Faults
          /\ UNCHANGED <<server, robbed>>
    /\ doomed' = doomed \ {n}
    /\ reused' = reused \ {n}
    /\ gpc' = IF doomed' = {} THEN "idle" ELSE "sweep"
    /\ UNCHANGED <<now, provider, mishaps>>

Next ==
    \/ \E c \in Creators :
         \/ NameClaim(c) \/ CreateClaim(c) \/ CreateError(c) \/ PollReady(c)
         \/ PollFails(c) \/ Cancel(c) \/ Cleanup(c) \/ DeleteSandbox(c) \/ Crash(c)
    \/ \E n \in Names : Advance(n) \/ SweepDelete(n)
    \/ Sweep
    \/ Tick

Spec == Init /\ [][Next]_vars

\* The controller's ticker keeps firing, its requests return, and a delete that
\* is retried forever does not fail forever.
FairSpec ==
    /\ Spec
    /\ WF_vars(Sweep)
    /\ \A n \in Names : WF_vars(SweepDelete(n)) /\ SF_vars(SweepDelete(n) /\ ~Exists(n)')

-----------------------------------------------------------------------------
(* Properties *)

\* Claims, provider calls and the sweep keep their types.
TypeOK ==
    /\ now \in Names
    /\ phase \in [Names -> Phases]
    /\ born \in [Names -> Names]
    /\ owner \in [Names -> Creators \cup {None}]
    /\ pc \in [Creators -> {"idle", "creating", "poll", "cleanup", "held"}]
    /\ claim \in [Creators -> Names]
    /\ cancelled \in [Creators -> BOOLEAN]
    /\ robbed \subseteq Creators
    /\ mishaps \in 0..MaxMishaps
    /\ gpc \in {"idle", "sweep"}
    /\ doomed \subseteq Names
    /\ reused \subseteq Names

\* Goroutines, in whichever replicas, that choose the same name never end up
\* polling for, holding or cleaning up the same sandbox, whatever their clocks say
\* and however late their requests arrive.  The one exception: the claim of one of
\* them was deleted without its being told (by a sweep, by a DeleteSandbox of its
\* own whose answer was lost, or by another such goroutine), and a request with
\* that name came in afterwards.
OneCreatorPerClaim ==
    \A c, d \in Working \ robbed : claim[c] = claim[d] => c = d

\* CreateSandbox's cleanup and DeleteSandbox delete by name, and hit the claim
\* that the goroutine itself created, or none.  Only a goroutine whose own claim
\* was deleted without its being told can hit another's.
NoForeignDelete ==
    [][\A c \in Creators : (Cleanup(c) \/ DeleteSandbox(c)) =>
          \A n \in Names : Exists(n) /\ ~Exists(n)' => owner[n] = c \/ c \in robbed]_vars

\* The controller works from a list that is stale by the time it deletes, and
\* still takes away only claims that are terminal and older than gcTimeout, as its
\* own clock tells age; unless a name on its list was created again meanwhile.
SweepsOnlyOldTerminal ==
    [][\A n \in Names : n \in doomed \ doomed' /\ Exists(n) /\ n \notin reused =>
          phase[n] \in Terminal /\ born[n] < now + SweepSkew - GcTimeout]_vars

\* A terminal claim that is older than gcTimeout, by every clock, is deleted
\* eventually, also when single deletes fail.
TerminalCollected ==
    \A n \in Names :
        (phase[n] \in Terminal /\ born[n] < now - SweepSkew - GcTimeout) ~> ~Exists(n)

\* Every claim that no goroutine polls for, cleans up or holds was stranded by a
\* mishap of its own: a lost answer to Create, a cleanup that was cancelled or
\* failed, a replica that stopped.  No path of CreateSandbox or DeleteSandbox
\* leaves one behind when nothing goes wrong.
Stranded == {n \in Names : Exists(n) /\ \A c \in Working : claim[c] # n}
StrandedByMishaps == Cardinality(Stranded) <= mishaps
=============================================================================
