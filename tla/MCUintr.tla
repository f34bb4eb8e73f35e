------------------------------ MODULE MCUintr -------------------------------
(* Uintr for TLC: a task with one vector, which Linux and the other task     *)
(* send to, and one with two; or vectors of the upper half of PUIR.          *)
EXTENDS Uintr

CONSTANTS a, b, linux

Links == {[from |-> linux, vec |-> 0, to |-> a], [from |-> b, vec |-> 0, to |-> a],
          [from |-> linux, vec |-> 1, to |-> b], [from |-> a, vec |-> 0, to |-> b]}

HighLinks == {[from |-> linux, vec |-> 31, to |-> a], [from |-> linux, vec |-> 32, to |-> b]}
=============================================================================
