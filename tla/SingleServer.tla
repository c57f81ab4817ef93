---------------------------- MODULE SingleServer ----------------------------
(***************************************************************************)
(* What daemon.lock and the socket are for (daemon.rs:39, 150): clients    *)
(* that connect reach one daemon or none.  A daemon is reached from when   *)
(* it begins to serve until it is over, without a gap, and another takes   *)
(* over only after that.                                                   *)
(***************************************************************************)
CONSTANTS Daemons, None

VARIABLES
  server,   \* the daemon a client that connects now will reach
  over      \* the daemons that nobody reaches any more

Init == server = None /\ over = {}

Serve ==
  /\ server = None
  /\ server' \in Daemons \ over
  /\ UNCHANGED over

\* A daemon leaves or dies; or it finds that it cannot serve.
Leave ==
  /\ over' \in {over \cup {d} : d \in Daemons}
  /\ server' = IF server \in over' THEN None ELSE server

Next == Serve \/ Leave

Spec == Init /\ [][Next]_<<server, over>>
=============================================================================
