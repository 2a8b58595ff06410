---------------------------- MODULE MCSessionRouter ----------------------------
(* Small instances of SessionRouter for TLC. *)
EXTENDS SessionRouter, TLC

Symmetry == Permutations(Clients) \cup Permutations(Notifiers)
=============================================================================
