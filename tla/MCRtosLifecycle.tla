-------------------------- MODULE MCRtosLifecycle ---------------------------
(* RtosLifecycle for TLC: two processes, two regions of which one begins in  *)
(* the other.                                                                *)
EXTENDS RtosLifecycle

Regions == {[start |-> 2, size |-> 4], [start |-> 4, size |-> 1]}
=============================================================================
