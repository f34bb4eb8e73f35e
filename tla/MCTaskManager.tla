---------------------------- MODULE MCTaskManager ---------------------------
(* TaskManager for TLC.                                                      *)
EXTENDS TaskManager
=============================================================================
