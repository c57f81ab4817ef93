----------------------------- MODULE MCInputPath -----------------------------
(* InputPath for TLC. *)
EXTENDS InputPath, TLC
=============================================================================
