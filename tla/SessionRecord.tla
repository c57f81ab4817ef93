---------------------------- MODULE SessionRecord ----------------------------
(***************************************************************************)
(* What the comments of session.rs promise of the record of one session    *)
(* name, with no actor, lock or process in sight: every start opens a      *)
(* generation one above the last, never over a session that is starting;   *)
(* a generation is published as running at most once; it is stopped at     *)
(* most once, and keeps the exit info it was first stopped with.           *)
(***************************************************************************)
EXTENDS Naturals

CONSTANT Exits

VARIABLES status, generation, exit

vars == <<status, generation, exit>>

Init == status = "none" /\ generation = 0 /\ exit = "none"

Begin ==
  /\ status # "starting"
  /\ status' = "starting"
  /\ generation' = generation + 1
  /\ exit' = "none"

Publish ==
  /\ status = "starting"
  /\ status' = "running"
  /\ UNCHANGED <<generation, exit>>

Finish ==
  /\ status \in {"starting", "running"}
  /\ status' = "stopped"
  /\ exit' \in Exits
  /\ UNCHANGED generation

Next == Begin \/ Publish \/ Finish

Spec == Init /\ [][Next]_vars
=============================================================================
