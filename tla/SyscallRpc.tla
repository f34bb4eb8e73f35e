----------------------------- MODULE SyscallRpc -----------------------------
(***************************************************************************)
(* What syscall forwarding promises to a NimbOS task, with the buffer, the  *)
(* interrupt and the shadow process left out: a forwarded call is carried   *)
(* out by Linux once, and the call returns with what Linux answered to it.  *)
(* ScfQueue is shown to implement this module.                              *)
(***************************************************************************)
EXTENDS Integers

CONSTANTS
  Task,      \* NimbOS tasks that make forwarded calls
  MaxCalls,  \* bound: a task numbers its forwarded calls modulo MaxCalls
  NoReq      \* no answer yet

VARIABLES
  phase,  \* of the call each task is in: idle, called, served or answered
  calls,  \* the number of each task's latest call
  answer  \* what the latest call of each task was answered with

vars == <<phase, calls, answer>>

Init ==
  /\ phase = [t \in Task |-> "idle"]
  /\ calls = [t \in Task |-> 0]
  /\ answer = [t \in Task |-> NoReq]

\* sys_read or sys_write is entered
Call(t) ==
  /\ phase[t] = "idle"
  /\ phase' = [phase EXCEPT ![t] = "called"]
  /\ calls' = [calls EXCEPT ![t] = (@ + 1) % MaxCalls]
  /\ answer' = [answer EXCEPT ![t] = NoReq]

\* Linux carries the call out
Serve(t) ==
  /\ phase[t] = "called"
  /\ phase' = [phase EXCEPT ![t] = "served"]
  /\ UNCHANGED <<calls, answer>>

\* the answer reaches the task: that of this call
Answer(t) ==
  /\ phase[t] = "served"
  /\ phase' = [phase EXCEPT ![t] = "answered"]
  /\ answer' = [answer EXCEPT ![t] = [task |-> t, call |-> calls[t]]]
  /\ UNCHANGED calls

\* sys_read or sys_write returns it
Return(t) ==
  /\ phase[t] = "answered"
  /\ phase' = [phase EXCEPT ![t] = "idle"]
  /\ UNCHANGED <<calls, answer>>

Next == \E t \in Task : Call(t) \/ Serve(t) \/ Answer(t) \/ Return(t)

Spec == Init /\ [][Next]_vars
=============================================================================
