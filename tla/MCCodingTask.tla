----------------------------- MODULE MCCodingTask -----------------------------
(* Small instances of CodingTask for TLC. *)
EXTENDS CodingTask, TLC

Symmetry == Permutations(Workers)
=============================================================================
