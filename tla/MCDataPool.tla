----------------------------- MODULE MCDataPool -----------------------------
(* DataPool for TLC.  Two calls need at most four blocks of 4 words, which is  *)
(* the whole pool of 16: blocks of a correct heap never take up more.          *)
EXTENDS DataPool, TLC

Symmetry == Permutations(Task)
=============================================================================
