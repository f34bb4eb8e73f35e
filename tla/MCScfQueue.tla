----------------------------- MODULE MCScfQueue -----------------------------
(* ScfQueue for TLC: three tasks compete for two descriptors, and the ring   *)
(* indices wrap after four requests.                                         *)
EXTENDS ScfQueue, TLC

Symmetry == Permutations(Task)
=============================================================================
