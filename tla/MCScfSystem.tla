---------------------------- MODULE MCScfSystem ----------------------------
(* ScfSystem for TLC: two tasks, two descriptors, one signal in the queue.   *)
EXTENDS ScfSystem, TLC

CONSTANTS t1, t2

BothUseBoth == [t \in {t1, t2} |-> {"Read", "Write"}]
ReaderAndWriter == t1 :> {"Read"} @@ t2 :> {"Write"}

Symmetry == Permutations(Task)
=============================================================================
