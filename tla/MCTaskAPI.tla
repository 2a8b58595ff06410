------------------------------- MODULE MCTaskAPI -------------------------------
(* TaskAPI for TLC: durations are words of 7 bits with 4 units to the second. *)
EXTENDS TaskAPI
=============================================================================
