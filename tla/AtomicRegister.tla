--------------------------- MODULE AtomicRegister ---------------------------
(* What write_atomic promises (paths.rs:136-139): a file that always holds  *)
(* one whole value, and readers that see the value it holds at one moment.  *)
EXTENDS Naturals

CONSTANTS Contents, Readers, Absent

VARIABLES
  value,   \* what the file holds: one of Contents, or Absent
  answers  \* for each reader what its last read saw

Init == value = Absent /\ answers = [r \in Readers |-> Absent]

Write == \E v \in Contents : value' = v /\ UNCHANGED answers
Read == \E r \in Readers : answers' = [answers EXCEPT ![r] = value] /\ UNCHANGED value

Next == Write \/ Read

Spec == Init /\ [][Next]_<<value, answers>>
=============================================================================
