---------------------------- MODULE MCAtomicFile ----------------------------
(* AtomicFile for TLC: a process with two threads, as the daemon.           *)
EXTENDS AtomicFile, TLC

CONSTANTS t1, t2, daemon

MCProcessOf == (t1 :> daemon) @@ (t2 :> daemon)
MCSymmetry ==
  Permutations(Inodes) \cup Permutations(Contents) \cup Permutations(Threads)
=============================================================================
