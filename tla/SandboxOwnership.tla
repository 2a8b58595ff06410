--------------------------- MODULE SandboxOwnership ---------------------------
(***************************************************************************)
(* What the pool promises about each sandbox, with no cache, lock, clock   *)
(* or goroutine: the lifecycle of internal/pool/manager.go, in which a     *)
(* sandbox serves at most one session and is never used again.             *)
(***************************************************************************)
CONSTANTS Sandboxes, Sessions

VARIABLES
    phase,    \* "absent", "spare" (warm), "taken" or "retired"
    owners    \* <<session, sandbox>> pairs handed to users

Phases == {"absent", "spare", "taken", "retired"}

Init ==
    /\ phase = [s \in Sandboxes |-> "absent"]
    /\ owners = {}

\* a new sandbox, for the warm pool or for the user who asked for it
Provision(s) ==
    /\ phase[s] = "absent"
    /\ \E x \in {"spare", "taken"} : phase' = [phase EXCEPT ![s] = x]
    /\ UNCHANGED owners

Take(s) ==
    /\ phase[s] = "spare"
    /\ phase' = [phase EXCEPT ![s] = "taken"]
    /\ UNCHANGED owners

\* Only a taken sandbox is retired: a spare one is kept.  A second Release of a
\* sandbox that is already retired changes nothing.
Retire(s) ==
    /\ phase[s] = "taken"
    /\ phase' = [phase EXCEPT ![s] = "retired"]
    /\ UNCHANGED owners

\* A sandbox is handed to one session, once.  It may have been retired since it
\* was taken: that race is real, and SandboxPool's GrantIsUsable exhibits it.
Hand(s, k) ==
    /\ phase[s] \in {"taken", "retired"}
    /\ \A o \in owners : o[1] # k /\ o[2] # s
    /\ owners' = owners \cup {<<k, s>>}
    /\ UNCHANGED phase

Next ==
    \E s \in Sandboxes :
        \/ Provision(s) \/ Take(s) \/ Retire(s)
        \/ \E k \in Sessions : Hand(s, k)

Spec == Init /\ [][Next]_<<phase, owners>>
=============================================================================
