------------------------------ MODULE ScfGuest ------------------------------
(***************************************************************************)
(* The NimbOS side of ScfQueue against any shadow process: one that was    *)
(* killed and started again, several at once, each with an index of its    *)
(* own, answering requests twice, late or never.  All that is kept of them *)
(* is that they write responses with push_syscall_response, which checks   *)
(* the range of the descriptor index.                                      *)
(***************************************************************************)
EXTENDS ScfQueue

\* push_syscall_response of a process whose rsp_index_shadow is k
AnyResponse(k, i, ret_val) ==
  /\ desc' = [desc EXCEPT ![i].ret_val = ret_val]
  /\ rsp_ring' = [rsp_ring EXCEPT ![Slot(k)] = i]
  /\ rsp_index' = wrapping_add(k)
  /\ UNCHANGED <<req_ring, req_index, nimbosVars, linuxVars>>

GuestNext ==
  \/ \E t \in Task : SysCall(t) \/ Return(t) \/ \E op \in Opcode : Send(t, op)
  \/ PopResponse
  \/ \E k \in RingIndex, i \in Index, r \in Request : AnyResponse(k, i, r)

GuestSpec == Init /\ [][GuestNext]_vars

\* A descriptor is given to no second call before the interrupt handler has taken
\* it back, and each task waits for one descriptor: the condition variable of a
\* call is signalled once, on behalf of its own descriptor.
OneDescriptorPerCall ==
  /\ \A i, j \in Index : tokens[i] = tokens[j] /\ tokens[i] # NoToken => i = j
  /\ \A t \in Task : pc[t] = "wait" /\ ~cond[t].ok => \E i \in Index : tokens[i] = t
=============================================================================
