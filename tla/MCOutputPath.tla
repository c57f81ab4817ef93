---------------------------- MODULE MCOutputPath ----------------------------
(* OutputPath for TLC. *)
EXTENDS OutputPath, TLC
=============================================================================
