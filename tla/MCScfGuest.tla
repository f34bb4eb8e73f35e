----------------------------- MODULE MCScfGuest -----------------------------
(* ScfGuest for TLC: two tasks and two descriptors.                         *)
EXTENDS ScfGuest, TLC

Symmetry == Permutations(Task)
=============================================================================
