-------------------------- MODULE MCWindowAssignment --------------------------
(* Small instances of WindowAssignment for TLC. *)
EXTENDS WindowAssignment

AroundZero == (0 - 2) .. 2
=============================================================================
