---------------------------- MODULE MCTerminate ----------------------------
(* Terminate for TLC; it has no constants. *)
EXTENDS Terminate, TLC
=============================================================================
