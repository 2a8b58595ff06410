---------------------------- MODULE MCSandboxPool ----------------------------
(* Small instances of SandboxPool for TLC. *)
EXTENDS SandboxPool, TLC

Symmetry ==
    Permutations(Sandboxes) \cup Permutations(Sessions) \cup Permutations(Callers)
        \cup Permutations(Releasers)
=============================================================================
