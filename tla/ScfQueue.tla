------------------------------ MODULE ScfQueue ------------------------------
(***************************************************************************)
(* The syscall-forwarding (SCF) queue: the shared-memory buffer through    *)
(* which NimbOS tasks forward read and write calls to a shadow process on  *)
(* Linux.  NimbOS side: kernel/src/scf/queue.rs and the calls of           *)
(* kernel/src/scf/syscall.rs; Linux side: nimbos-driver/apps/libs/scf.c.   *)
(*                                                                         *)
(* Every operation of the queue runs under the cross-domain spin lock in   *)
(* the metadata (on NimbOS with interrupts off), so each critical section  *)
(* is one step here.  ScfSystem makes the lock, the interrupt and the      *)
(* signal explicit and is shown to implement this module.                  *)
(*                                                                         *)
(* A request is identified by the task that makes it and the number of the *)
(* call; the value Linux returns for it is the request itself, so a result *)
(* that reaches the wrong call is visible.                                 *)
(*                                                                         *)
(* A definition introduced as a slip is a plausible mistake in the code    *)
(* after it: put in its place, it must break a property.                   *)
(***************************************************************************)
EXTENDS Integers, FiniteSets

CONSTANTS
  Task,      \* NimbOS tasks that make forwarded calls
  Opcode,    \* the values of ScfOpcode that are sent: "Read" and "Write"
  Capacity,  \* number of descriptors and of slots of either ring
  IndexMod,  \* the ring indices are u16 and wrap: 2^16 in the code
  MaxCalls,  \* bound: a task numbers its forwarded calls modulo MaxCalls
  NoToken,   \* ScfRequestToken::default()
  NoReq      \* a ret_val or args no request stands for

ASSUME CapacityAssumption ==
  /\ Capacity \in Nat \ {0}
  /\ IndexMod \in Nat
  /\ IndexMod % Capacity = 0
  /\ Capacity < IndexMod

ASSUME CallsAssumption == MaxCalls \in Nat \ {0}

Request == [task : Task, call : 0..(MaxCalls - 1)]

ASSUME TokenAssumption == NoToken \notin Task /\ NoReq \notin Request

VARIABLES
  desc,              \* shared: the descriptor table
  req_ring,          \* shared: ring of descriptor indices, NimbOS to Linux
  rsp_ring,          \* shared: ring of descriptor indices, Linux to NimbOS
  req_index,         \* shared: meta.req_index
  rsp_index,         \* shared: meta.rsp_index
  free_count,        \* NimbOS: free descriptors
  req_index_shadow,  \* NimbOS: its private copy of req_index
  rsp_index_last,    \* NimbOS: next response to take
  tokens,            \* NimbOS: the waiting task of each descriptor
  pc,                \* NimbOS: where each task is in its forwarded call
  calls,             \* NimbOS: the number of each task's latest call
  cond,              \* NimbOS: the SyscallCondVar on the stack of each task
  started,           \* Linux: nimbos_setup_syscall_buffers has run
  req_index_last,    \* Linux: next request to take
  rsp_index_shadow,  \* Linux: its private copy of rsp_index
  jobs,              \* Linux: requests taken and not yet answered
  executed           \* history: how often Linux carried out the latest call of this number

nimbosVars == <<free_count, req_index_shadow, rsp_index_last, tokens, pc, calls, cond>>
linuxVars  == <<started, req_index_last, rsp_index_shadow, jobs, executed>>
sharedVars == <<desc, req_ring, rsp_ring, req_index, rsp_index>>
vars == <<nimbosVars, linuxVars, sharedVars>>

Index      == 0..(Capacity - 1)
RingIndex  == 0..(IndexMod - 1)
ScfOpcode  == Opcode \cup {"Nop"}
Descriptor == [valid : BOOLEAN, opcode : ScfOpcode, args : Request \cup {NoReq},
               ret_val : Request \cup {NoReq}]
Job        == [pos : RingIndex, idx : Index, opcode : ScfOpcode, args : Request,
               ret : Request \cup {NoReq}]

wrapping_add(x) == (x + 1) % IndexMod

\* index & capacity_mask: the capacity is a power of two
Slot(x) == x % Capacity

\* how many indices from lo up to hi, which may have wrapped
Distance(lo, hi) == IF hi >= lo THEN hi - lo ELSE hi - lo + IndexMod

Current(t) == [task |-> t, call |-> calls[t]]

-----------------------------------------------------------------------------
(* SyscallQueueBuffer::new.  What it does not write is still zero from the   *)
(* memset of start_rtos, which clears the memory of NimbOS past its image.   *)
new ==
  /\ desc = [i \in Index |-> [valid |-> FALSE, opcode |-> "Nop", args |-> NoReq, ret_val |-> NoReq]]
  /\ req_ring = [i \in Index |-> 0]
  /\ rsp_ring = [i \in Index |-> 0]
  /\ req_index = 0 /\ rsp_index = 0
  /\ free_count = Capacity
  /\ req_index_shadow = 0 /\ rsp_index_last = 0
  /\ tokens = [i \in Index |-> NoToken]

Init ==
  /\ new
  /\ pc = [t \in Task |-> "run"]
  /\ calls = [t \in Task |-> 0]
  /\ cond = [t \in Task |-> [ok |-> FALSE, ret_val |-> NoReq]]
  /\ started = FALSE
  /\ req_index_last = 0 /\ rsp_index_shadow = 0
  /\ jobs = {}
  /\ executed = [r \in Request |-> 0]

-----------------------------------------------------------------------------
(* NimbOS *)

is_full == free_count = 0

Free == {i \in Index : ~desc[i].valid}

\* slip: the first descriptor, valid or not
find_any_desc_locked == CHOOSE i \in Index : \A j \in Index : i <= j

\* the first descriptor that is not valid
find_free_desc_locked == CHOOSE i \in Free : \A j \in Free : i <= j

\* slip: the condition variable of the previous call is reused
SysCallOldCond(t) ==
  /\ pc[t] = "run"
  /\ calls' = [calls EXCEPT ![t] = (@ + 1) % MaxCalls]
  /\ executed' = [executed EXCEPT ![[task |-> t, call |-> calls'[t]]] = 0]
  /\ pc' = [pc EXCEPT ![t] = "send"]
  /\ UNCHANGED <<free_count, req_index_shadow, rsp_index_last, tokens, cond>>
  /\ UNCHANGED <<started, req_index_last, rsp_index_shadow, jobs, sharedVars>>

\* sys_read and sys_write up to the request: a fresh condition variable
SysCall(t) ==
  /\ pc[t] = "run"
  /\ calls' = [calls EXCEPT ![t] = (@ + 1) % MaxCalls]
  /\ executed' = [executed EXCEPT ![[task |-> t, call |-> calls'[t]]] = 0]
  /\ cond' = [cond EXCEPT ![t] = [ok |-> FALSE, ret_val |-> NoReq]]
  /\ pc' = [pc EXCEPT ![t] = "send"]
  /\ UNCHANGED <<free_count, req_index_shadow, rsp_index_last, tokens>>
  /\ UNCHANGED <<started, req_index_last, rsp_index_shadow, jobs, sharedVars>>

\* send: while the table is full the task yields and tries again
send_locked(t, op) ==
  LET i == find_free_desc_locked
  IN  /\ ~is_full
      /\ tokens' = [tokens EXCEPT ![i] = t]
      /\ desc' = [desc EXCEPT ![i] = [valid |-> TRUE, opcode |-> op,
                                      args |-> Current(t), ret_val |-> NoReq]]
      /\ free_count' = free_count - 1
      /\ req_ring' = [req_ring EXCEPT ![Slot(req_index_shadow)] = i]
      /\ req_index_shadow' = wrapping_add(req_index_shadow)
      /\ req_index' = req_index_shadow'
      /\ UNCHANGED <<rsp_index_last, rsp_ring, rsp_index>>

Send(t, op) ==
  /\ pc[t] = "send"
  /\ send_locked(t, op)
  /\ pc' = [pc EXCEPT ![t] = "wait"]
  /\ UNCHANGED <<calls, cond, linuxVars>>

has_response == rsp_index_last # rsp_index

\* slip: the descriptor is freed and not counted
free_desc_uncounted(i) ==
  /\ tokens' = [tokens EXCEPT ![i] = NoToken]
  /\ desc' = [desc EXCEPT ![i].valid = FALSE]
  /\ UNCHANGED free_count

\* slip: the token stays behind
free_desc_keep_token(i) ==
  /\ desc' = [desc EXCEPT ![i].valid = FALSE]
  /\ free_count' = free_count + 1
  /\ UNCHANGED tokens

free_desc_locked(i) ==
  /\ tokens' = [tokens EXCEPT ![i] = NoToken]
  /\ desc' = [desc EXCEPT ![i].valid = FALSE]
  /\ free_count' = free_count + 1

signal(t, ret_val) ==
  cond' = [cond EXCEPT ![t] = [ok |-> TRUE, ret_val |-> ret_val]]

\* the next response names a descriptor that is in use
Deliverable ==
  LET i == rsp_ring[Slot(rsp_index_last)]
  IN  i \in Index /\ desc[i].valid

\* pop_response_locked and one turn of the loop of handle_irq.  An index out of
\* range, or of a descriptor that is not valid, is dropped with a warning.
PopResponse ==
  LET i == rsp_ring[Slot(rsp_index_last)]
  IN  /\ has_response
      /\ rsp_index_last' = wrapping_add(rsp_index_last)
      /\ IF Deliverable
         THEN /\ free_desc_locked(i)
              /\ IF tokens[i] # NoToken THEN signal(tokens[i], desc[i].ret_val)
                                        ELSE UNCHANGED cond
         ELSE UNCHANGED <<tokens, desc, free_count, cond>>
      /\ UNCHANGED <<req_index_shadow, pc, calls, linuxVars>>
      /\ UNCHANGED <<req_ring, rsp_ring, req_index, rsp_index>>

\* SyscallCondVar::wait returns and the call with it
Return(t) ==
  /\ pc[t] = "wait"
  /\ cond[t].ok
  /\ pc' = [pc EXCEPT ![t] = "run"]
  /\ UNCHANGED <<free_count, req_index_shadow, rsp_index_last, tokens, calls, cond>>
  /\ UNCHANGED <<linuxVars, sharedVars>>

-----------------------------------------------------------------------------
(* Linux *)

nimbos_setup_syscall_buffers ==
  /\ req_index_last' = 0
  /\ rsp_index_shadow' = rsp_index

Setup ==
  /\ ~started
  /\ started' = TRUE
  /\ nimbos_setup_syscall_buffers
  /\ UNCHANGED <<jobs, executed, nimbosVars, sharedVars>>

has_request == req_index_last # req_index

\* slip: the request is read and not taken off the ring
peek_syscall_request(i) ==
  /\ started
  /\ has_request
  /\ i = req_ring[Slot(req_index_last)]
  /\ i \in Index
  /\ UNCHANGED req_index_last

\* an index out of range fails the call and leaves req_index_last where it is
pop_syscall_request(i) ==
  /\ started
  /\ has_request
  /\ i = req_ring[Slot(req_index_last)]
  /\ i \in Index
  /\ req_index_last' = wrapping_add(req_index_last)

PopRequest ==
  /\ \E i \in Index :
       /\ pop_syscall_request(i)
       /\ jobs' = jobs \cup {[pos |-> req_index_last, idx |-> i, opcode |-> desc[i].opcode,
                              args |-> desc[i].args, ret |-> NoReq]}
  /\ UNCHANGED <<started, rsp_index_shadow, executed, nimbosVars, sharedVars>>

\* The read or write itself.  A write uses the descriptor copied by the pop, the
\* thread of a read looks the descriptor up again.
Execute(j) ==
  LET r == IF j.opcode = "Read" THEN desc[j.idx].args ELSE j.args
  IN  /\ j.ret = NoReq
      /\ executed' = [executed EXCEPT ![r] = @ + 1]
      /\ jobs' = (jobs \ {j}) \cup {[j EXCEPT !.ret = r]}
      /\ UNCHANGED <<started, req_index_last, rsp_index_shadow, nimbosVars, sharedVars>>

\* slip: the index is published and the ring slot not written
push_without_slot(i, ret_val) ==
  /\ desc' = [desc EXCEPT ![i].ret_val = ret_val]
  /\ rsp_index_shadow' = wrapping_add(rsp_index_shadow)
  /\ rsp_index' = rsp_index_shadow'
  /\ UNCHANGED rsp_ring

\* slip: the response carries no result
push_without_result(i, ret_val) ==
  /\ rsp_ring' = [rsp_ring EXCEPT ![Slot(rsp_index_shadow)] = i]
  /\ rsp_index_shadow' = wrapping_add(rsp_index_shadow)
  /\ rsp_index' = rsp_index_shadow'
  /\ UNCHANGED desc

push_syscall_response(i, ret_val) ==
  /\ desc' = [desc EXCEPT ![i].ret_val = ret_val]
  /\ rsp_ring' = [rsp_ring EXCEPT ![Slot(rsp_index_shadow)] = i]
  /\ rsp_index_shadow' = wrapping_add(rsp_index_shadow)
  /\ rsp_index' = rsp_index_shadow'

PushResponse(j) ==
  /\ j.ret # NoReq
  /\ push_syscall_response(j.idx, j.ret)
  /\ jobs' = jobs \ {j}
  /\ UNCHANGED <<started, req_index_last, executed, req_ring, req_index, nimbosVars>>

-----------------------------------------------------------------------------
Next ==
  \/ \E t \in Task : SysCall(t) \/ Return(t) \/ \E op \in Opcode : Send(t, op)
  \/ PopResponse
  \/ Setup
  \/ PopRequest
  \/ \E j \in jobs : Execute(j) \/ PushResponse(j)

Spec == Init /\ [][Next]_vars

-----------------------------------------------------------------------------
(* Properties *)

TypeOK ==
  /\ desc \in [Index -> Descriptor]
  /\ req_ring \in [Index -> Index]
  /\ rsp_ring \in [Index -> Index]
  /\ req_index \in RingIndex /\ rsp_index \in RingIndex
  /\ free_count \in 0..Capacity
  /\ req_index_shadow \in RingIndex /\ rsp_index_last \in RingIndex
  /\ tokens \in [Index -> Task \cup {NoToken}]
  /\ pc \in [Task -> {"run", "send", "wait"}]
  /\ calls \in [Task -> 0..(MaxCalls - 1)]
  /\ cond \in [Task -> [ok : BOOLEAN, ret_val : Request \cup {NoReq}]]
  /\ started \in BOOLEAN
  /\ req_index_last \in RingIndex /\ rsp_index_shadow \in RingIndex
  /\ jobs \subseteq Job
  /\ executed \in [Request -> Nat]

\* the unread part of either ring: its length and its k-th entry
RingAt(ring, lo, k) == ring[Slot((lo + k) % IndexMod)]
ReqSpan == Distance(req_index_last, req_index)
RspSpan == Distance(rsp_index_last, rsp_index)
ReqAt(k) == RingAt(req_ring, req_index_last, k)
RspAt(k) == RingAt(rsp_ring, rsp_index_last, k)

\* free_count is the number of free descriptors, so that the unwrap of
\* find_free_desc_locked in send_locked never fails and a full table is
\* recognised as full.
FreeCountExact == free_count = Cardinality(Free)

\* Every descriptor in use is in exactly one place: the unread part of the
\* request ring, a job of the shadow process, or the unread part of the response
\* ring.  No slot is overwritten before it is read, even after the indices wrap.
OnePlacePerDescriptor ==
  /\ ReqSpan + RspSpan + Cardinality(jobs) + free_count = Capacity
  /\ \A i \in Index : desc[i].valid <=>
       \/ \E k \in Index : k < ReqSpan /\ ReqAt(k) = i
       \/ \E j \in jobs : j.idx = i
       \/ \E k \in Index : k < RspSpan /\ RspAt(k) = i

\* A token is only stored while its task waits for this very call: handle_irq
\* never signals a condition variable whose stack frame is gone.
TokensAreWaiting ==
  \A i \in Index : \A t \in Task : tokens[i] = t =>
     desc[i].valid /\ pc[t] = "wait" /\ ~cond[t].ok /\ desc[i].args = Current(t)

\* A call returns with the result Linux computed for it, not with that of another
\* task or of an earlier call that used the same descriptor.
ReturnsOwnResult ==
  \A t \in Task : pc[t] = "wait" /\ cond[t].ok =>
     cond[t].ret_val = Current(t) /\ executed[Current(t)] = 1

\* Linux carries out no call twice, whoever made it.
AtMostOnce == \A r \in Request : executed[r] <= 1

\* A response handle_irq takes off the ring wakes a task: the branches that drop
\* a response with a warning are never taken.
NoResponseDropped ==
  [][rsp_index_last' # rsp_index_last =>
       \E t \in Task : pc[t] = "wait" /\ ~cond[t].ok /\ cond'[t].ok]_vars

-----------------------------------------------------------------------------
(* Refinement *)

phase ==
  [t \in Task |-> CASE pc[t] = "run"               -> "idle"
                    [] pc[t] # "run" /\ cond[t].ok -> "answered"
                    [] OTHER -> IF executed[Current(t)] = 0 THEN "called" ELSE "served"]

Rpc == INSTANCE SyscallRpc WITH answer <- [t \in Task |-> cond[t].ret_val]

\* Seen from the tasks, the buffer is a remote procedure call: every step of it is
\* a step of SyscallRpc or invisible.
ImplementsRpc == Rpc!Spec
=============================================================================
