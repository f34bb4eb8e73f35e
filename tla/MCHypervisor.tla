---------------------------- MODULE MCHypervisor ----------------------------
(* Hypervisor for TLC: three CPUs of Linux, one kind of failure.             *)
EXTENDS Hypervisor
=============================================================================
