---------------------------- MODULE MCPromptStream ----------------------------
(* Small instances of PromptStream for TLC. *)
EXTENDS PromptStream
=============================================================================
