---------------------------- MODULE MCSandboxClaims ----------------------------
(* A small instance of SandboxClaims for TLC: two goroutines, two names. *)
EXTENDS SandboxClaims
=============================================================================
