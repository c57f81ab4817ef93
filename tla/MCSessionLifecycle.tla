-------------------------- MODULE MCSessionLifecycle --------------------------
(* SessionLifecycle with the symmetry its safety checks use. *)
EXTENDS SessionLifecycle, TLC

DirectStarts == Starts \ InDaemon
DaemonStarts == Starts \cap InDaemon

\* Requests are alike but for where they are served.
Symmetry == Permutations(DirectStarts) \cup Permutations(DaemonStarts)
=============================================================================
