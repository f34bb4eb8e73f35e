--------------------------- MODULE ScfGuestProofs ---------------------------
(***************************************************************************)
(* The invariants of ScfGuest for any tasks, any capacity and any shadow   *)
(* process.                                                                *)
(***************************************************************************)
EXTENDS ScfGuest, ScfQueueProofs

\* A descriptor is valid exactly as long as it has a token.
ValidIffToken == \A i \in Index : desc[i].valid <=> tokens[i] # NoToken

GInv ==
  /\ TypeOK
  /\ ValidIffToken
  /\ FreeCountExact
  /\ TokensAreWaiting
  /\ OneDescriptorPerCall
  /\ CondFresh

-----------------------------------------------------------------------------
\* The invariant holds initially.
LEMMA InitGInv == Init => GInv
<1> SUFFICES ASSUME Init PROVE GInv
  OBVIOUS
<1>1. TypeOK /\ FreeCountExact
  BY InitIInv DEF IInv, Counts, FreeCountExact
<1>2. ValidIffToken /\ TokensAreWaiting /\ OneDescriptorPerCall
  BY TokenAssumption DEF Init, new, ValidIffToken, TokensAreWaiting, OneDescriptorPerCall
<1>3. CondFresh
  BY DEF Init, CondFresh
<1> QED
  BY <1>1, <1>2, <1>3 DEF GInv

\* The unwrap of find_free_desc_locked does not fail.
LEMMA FindFreeAnyway ==
  ASSUME TypeOK, FreeCountExact, ~is_full
  PROVE  find_free_desc_locked \in Index /\ ~desc[find_free_desc_locked].valid
<1>1. Free \in SUBSET Nat
  BY CapacityAssumption DEF Free, Index
<1>2. Free # {}
  BY FS_EmptySet DEF FreeCountExact, is_full
<1>3. find_free_desc_locked \in Free
  BY <1>1, <1>2, LeastElement, Zenon DEF find_free_desc_locked
<1> QED
  BY <1>3 DEF Free

\* sys_read and sys_write up to the request
LEMMA SysCallGuest ==
  ASSUME GInv, NEW t \in Task, SysCall(t)
  PROVE  GInv'
<1> USE DEF GInv
<1>1. /\ pc[t] = "run" /\ pc' = [pc EXCEPT ![t] = "send"]
      /\ calls' = [calls EXCEPT ![t] = (@ + 1) % MaxCalls]
      /\ cond' = [cond EXCEPT ![t] = [ok |-> FALSE, ret_val |-> NoReq]]
      /\ executed' = [executed EXCEPT ![[task |-> t, call |-> calls'[t]]] = 0]
  BY DEF SysCall
<1>2. UNCHANGED <<free_count, req_index_shadow, rsp_index_last, tokens, started, req_index_last,
                  rsp_index_shadow, jobs, desc, req_ring, rsp_ring, req_index, rsp_index>>
  BY DEF SysCall, sharedVars
<1>3. TypeOK'
  <2>1. calls' \in [Task -> 0..(MaxCalls - 1)]
    BY <1>1, CallsAssumption DEF TypeOK
  <2>2. /\ pc' \in [Task -> {"run", "send", "wait"}]
        /\ cond' \in [Task -> [ok : BOOLEAN, ret_val : Request \cup {NoReq}]]
        /\ executed' \in [Request -> Nat]
    BY <1>1 DEF TypeOK
  <2> QED
    BY <1>2, <2>1, <2>2 DEF TypeOK
<1>4. \A i \in Index : tokens[i] # t
  BY <1>1 DEF TokensAreWaiting
<1>5. \A u \in Task : u # t => pc'[u] = pc[u] /\ cond'[u] = cond[u] /\ Current(u)' = Current(u)
  BY <1>1 DEF TypeOK, Current
<1>6. pc'[t] = "send" /\ ~cond'[t].ok
  BY <1>1 DEF TypeOK
<1>7. TokensAreWaiting'
  BY <1>2, <1>4, <1>5 DEF TokensAreWaiting
<1>8. OneDescriptorPerCall'
  BY <1>2, <1>5, <1>6 DEF OneDescriptorPerCall
<1>9. ValidIffToken' /\ FreeCountExact' /\ CondFresh'
  BY <1>2, <1>5, <1>6 DEF ValidIffToken, FreeCountExact, Free, CondFresh
<1> QED
  BY <1>3, <1>7, <1>8, <1>9

\* send: the descriptor was free, so it had no token, and the task had none
LEMMA SendGuest ==
  ASSUME GInv, NEW t \in Task, NEW op \in Opcode, Send(t, op)
  PROVE  GInv'
<1> USE DEF GInv
<1>1. PICK i \in Index : i = find_free_desc_locked /\ ~desc[i].valid
  BY FindFreeAnyway, Zenon DEF Send, send_locked
<1>2. /\ pc[t] = "send" /\ pc' = [pc EXCEPT ![t] = "wait"]
      /\ free_count # 0 /\ free_count' = free_count - 1
      /\ tokens' = [tokens EXCEPT ![i] = t]
      /\ desc' = [desc EXCEPT ![i] = [valid |-> TRUE, opcode |-> op,
                                      args |-> Current(t), ret_val |-> NoReq]]
      /\ req_ring' = [req_ring EXCEPT ![Slot(req_index_shadow)] = i]
      /\ req_index_shadow' = wrapping_add(req_index_shadow)
      /\ req_index' = req_index_shadow'
  BY <1>1 DEF Send, send_locked, is_full
<1>3. UNCHANGED <<rsp_index_last, rsp_ring, rsp_index, calls, cond, started, req_index_last,
                  rsp_index_shadow, jobs, executed>>
  BY DEF Send, send_locked, linuxVars
<1>4. /\ desc \in [Index -> Descriptor] /\ tokens \in [Index -> Task \cup {NoToken}]
      /\ pc \in [Task -> {"run", "send", "wait"}]
      /\ req_ring \in [Index -> Index] /\ req_index_shadow \in RingIndex /\ free_count \in 0..Capacity
  BY DEF TypeOK
<1>5. Current(t) \in Request /\ \A u \in Task : Current(u)' = Current(u)
  BY <1>3, CurrentType DEF Current
<1>6. /\ \A x \in Index : x # i => desc'[x] = desc[x] /\ tokens'[x] = tokens[x]
      /\ desc'[i].valid /\ desc'[i].args = Current(t) /\ tokens'[i] = t
  BY <1>2, <1>4
<1>7. pc'[t] = "wait" /\ \A u \in Task : u # t => pc'[u] = pc[u]
  BY <1>2, <1>4
<1>8. tokens[i] = NoToken /\ \A x \in Index : tokens[x] # t
  BY <1>1, <1>2 DEF ValidIffToken, TokensAreWaiting
<1>9. TypeOK'
  <2>1. desc' \in [Index -> Descriptor]
    BY ONLY <1>2, <1>4, <1>5, op \in Opcode DEF Descriptor, ScfOpcode
  <2>2. wrapping_add(req_index_shadow) \in RingIndex
    BY <1>4, WrapStep
  <2>3. free_count' \in 0..Capacity
    BY <1>2, <1>4, CapacityAssumption
  <2>4. /\ req_ring' \in [Index -> Index] /\ tokens' \in [Index -> Task \cup {NoToken}]
        /\ pc' \in [Task -> {"run", "send", "wait"}]
    BY <1>2, <1>4
  <2> QED
    BY <1>2, <1>3, <2>1, <2>2, <2>3, <2>4 DEF TypeOK
<1>10. FreeCountExact'
  <2>1. Free' = Free \ {i} /\ i \in Free
    BY <1>1, <1>6 DEF Free
  <2>2. Cardinality(Free') = Cardinality(Free) - 1
    BY <2>1, FreeFinite, FS_RemoveElement, Zenon
  <2> QED
    BY <1>2, <2>2 DEF FreeCountExact
<1>11. ValidIffToken'
  BY <1>6, TokenAssumption DEF ValidIffToken
<1>12. ~cond'[t].ok
  BY <1>2, <1>3 DEF CondFresh
<1>13. TokensAreWaiting'
  BY <1>3, <1>5, <1>6, <1>7, <1>8, <1>12 DEF TokensAreWaiting
<1>14. OneDescriptorPerCall'
  <2>1. \A x, y \in Index : tokens'[x] = tokens'[y] /\ tokens'[x] # NoToken => x = y
    BY <1>6, <1>8 DEF OneDescriptorPerCall
  <2>2. ASSUME NEW u \in Task, pc'[u] = "wait", ~cond'[u].ok PROVE \E x \in Index : tokens'[x] = u
    <3>1. CASE u = t
      BY <1>6, <3>1
    <3>2. CASE u # t
      <4>1. PICK x \in Index : tokens[x] = u
        BY <1>3, <1>7, <2>2, <3>2 DEF OneDescriptorPerCall
      <4> QED
        BY <1>6, <1>8, <4>1, TokenAssumption
    <3> QED
      BY <3>1, <3>2
  <2> QED
    BY <2>1, <2>2 DEF OneDescriptorPerCall
<1>15. CondFresh'
  BY <1>3, <1>7 DEF CondFresh
<1> QED
  BY <1>9, <1>10, <1>11, <1>13, <1>14, <1>15

\* One turn of handle_irq: a valid descriptor is freed and the task it belongs to is
\* signalled; anything else on the ring is dropped.
LEMMA PopResponseGuest ==
  ASSUME GInv, PopResponse
  PROVE  GInv'
<1> USE DEF GInv
<1>1. /\ rsp_index_last' = wrapping_add(rsp_index_last)
      /\ UNCHANGED <<req_index_shadow, pc, calls, started, req_index_last, rsp_index_shadow, jobs,
                     executed, req_ring, rsp_ring, req_index, rsp_index>>
  BY DEF PopResponse, linuxVars
<1>2. rsp_index_last' \in RingIndex
  BY <1>1, WrapStep DEF TypeOK
<1>3. \A u \in Task : Current(u)' = Current(u)
  BY <1>1 DEF Current
<1>4. CASE Deliverable
  <2>1. PICK i \in Index : i = rsp_ring[Slot(rsp_index_last)] /\ desc[i].valid
    BY <1>4 DEF Deliverable
  <2>2. PICK t \in Task : t = tokens[i]
    BY <2>1 DEF ValidIffToken, TypeOK
  <2>3. /\ tokens' = [tokens EXCEPT ![i] = NoToken]
        /\ desc' = [desc EXCEPT ![i].valid = FALSE]
        /\ free_count' = free_count + 1
        /\ cond' = [cond EXCEPT ![t] = [ok |-> TRUE, ret_val |-> desc[i].ret_val]]
    BY <1>4, <2>1, <2>2, TokenAssumption DEF PopResponse, free_desc_locked, signal
  <2>4. /\ \A x \in Index : x # i => desc'[x] = desc[x] /\ tokens'[x] = tokens[x]
        /\ ~desc'[i].valid /\ tokens'[i] = NoToken
        /\ \A u \in Task : u # t => cond'[u] = cond[u]
        /\ cond'[t].ok
    BY <2>3 DEF TypeOK, Descriptor
  <2>5. pc[t] = "wait" /\ \A x \in Index : tokens'[x] # t
    BY <2>2, <2>4, TokenAssumption DEF TokensAreWaiting, OneDescriptorPerCall
  <2>6. FreeCountExact' /\ free_count' \in 0..Capacity
    <3>1. Free' = Free \cup {i} /\ i \notin Free
      BY <2>1, <2>4 DEF Free
    <3>2. Cardinality(Free') = Cardinality(Free) + 1
      BY <3>1, FreeFinite, FS_AddElement
    <3>3. Cardinality(Free') \in 0..Capacity
      <4>1. IsFiniteSet(Index) /\ Cardinality(Index) = Capacity
        BY FS_Interval, CapacityAssumption DEF Index
      <4>2. Free' \in SUBSET Index
        BY DEF Free
      <4> QED
        BY <4>1, <4>2, FS_Subset, FS_CardinalityType, CapacityAssumption
    <3> QED
      BY <2>3, <3>2, <3>3 DEF FreeCountExact
  <2>7. TypeOK'
    <3>1. /\ desc' \in [Index -> Descriptor] /\ tokens' \in [Index -> Task \cup {NoToken}]
          /\ cond' \in [Task -> [ok : BOOLEAN, ret_val : Request \cup {NoReq}]]
      BY <2>3, ZenonT(40) DEF TypeOK, Descriptor
    <3> QED
      BY <1>1, <1>2, <2>6, <3>1 DEF TypeOK
  <2>8. ValidIffToken'
    BY <2>4 DEF ValidIffToken
  <2>9. TokensAreWaiting'
    BY <1>1, <1>3, <2>4, <2>5, TokenAssumption DEF TokensAreWaiting
  <2>10. OneDescriptorPerCall'
    <3>1. ASSUME NEW u \in Task, pc'[u] = "wait", ~cond'[u].ok PROVE \E x \in Index : tokens'[x] = u
      <4>1. u # t
        BY <2>4, <3>1
      <4>2. PICK x \in Index : tokens[x] = u
        BY <1>1, <2>4, <3>1, <4>1 DEF OneDescriptorPerCall
      <4> QED
        BY <2>2, <2>4, <4>1, <4>2
    <3>2. \A x, y \in Index : tokens'[x] = tokens'[y] /\ tokens'[x] # NoToken => x = y
      BY <2>4 DEF OneDescriptorPerCall
    <3> QED
      BY <3>1, <3>2 DEF OneDescriptorPerCall
  <2>11. CondFresh'
    BY <1>1, <2>4, <2>5 DEF CondFresh
  <2> QED
    BY <2>6, <2>7, <2>8, <2>9, <2>10, <2>11
<1>5. CASE ~Deliverable
  <2>1. UNCHANGED <<tokens, desc, free_count, cond>>
    BY <1>5 DEF PopResponse
  <2>2. TypeOK'
    BY <1>1, <1>2, <2>1 DEF TypeOK
  <2> QED
    BY <1>1, <1>3, <2>1, <2>2, SMTT(20) DEF ValidIffToken, FreeCountExact, Free, TokensAreWaiting,
       OneDescriptorPerCall, CondFresh
<1> QED
  BY <1>4, <1>5

\* The call returns: the task had been signalled, so no token is left of it.
LEMMA ReturnGuest ==
  ASSUME GInv, NEW t \in Task, Return(t)
  PROVE  GInv'
<1> USE DEF GInv
<1>1. /\ pc[t] = "wait" /\ cond[t].ok /\ pc' = [pc EXCEPT ![t] = "run"]
      /\ UNCHANGED <<free_count, req_index_shadow, rsp_index_last, tokens, calls, cond>>
      /\ UNCHANGED <<started, req_index_last, rsp_index_shadow, jobs, executed>>
      /\ UNCHANGED <<desc, req_ring, rsp_ring, req_index, rsp_index>>
  BY DEF Return, linuxVars, sharedVars
<1>2. pc'[t] = "run" /\ \A u \in Task : u # t => pc'[u] = pc[u]
  BY <1>1 DEF TypeOK
<1>3. TypeOK'
  BY <1>1, SMTT(20) DEF TypeOK
<1>4. TokensAreWaiting' /\ OneDescriptorPerCall'
  BY <1>1, <1>2 DEF TokensAreWaiting, OneDescriptorPerCall, Current
<1>5. ValidIffToken' /\ FreeCountExact' /\ CondFresh'
  BY <1>1, <1>2 DEF ValidIffToken, FreeCountExact, Free, CondFresh
<1> QED
  BY <1>3, <1>4, <1>5

\* Whatever a shadow process writes, it makes no descriptor valid and moves no token.
LEMMA AnyResponseGuest ==
  ASSUME GInv, NEW k \in RingIndex, NEW i \in Index, NEW r \in Request, AnyResponse(k, i, r)
  PROVE  GInv'
<1> USE DEF GInv
<1>1. /\ desc' = [desc EXCEPT ![i].ret_val = r]
      /\ rsp_ring' = [rsp_ring EXCEPT ![Slot(k)] = i]
      /\ rsp_index' = wrapping_add(k)
      /\ UNCHANGED <<req_ring, req_index, free_count, req_index_shadow, rsp_index_last, tokens, pc,
                     calls, cond, started, req_index_last, rsp_index_shadow, jobs, executed>>
  BY DEF AnyResponse, nimbosVars, linuxVars
<1>2. \A x \in Index : desc'[x].valid = desc[x].valid /\ desc'[x].args = desc[x].args
  BY <1>1 DEF TypeOK, Descriptor
<1>3. TypeOK'
  <2>1. desc' \in [Index -> Descriptor] /\ rsp_ring' \in [Index -> Index]
    BY <1>1, ZenonT(40) DEF TypeOK, Descriptor
  <2>2. rsp_index' \in RingIndex
    BY <1>1, WrapStep
  <2> QED
    BY <1>1, <2>1, <2>2 DEF TypeOK
<1>4. TokensAreWaiting' /\ OneDescriptorPerCall'
  BY <1>1, <1>2 DEF TokensAreWaiting, OneDescriptorPerCall, Current
<1>5. ValidIffToken' /\ FreeCountExact' /\ CondFresh'
  BY <1>1, <1>2, Zenon DEF ValidIffToken, FreeCountExact, Free, CondFresh
<1> QED
  BY <1>3, <1>4, <1>5

\* The invariant is inductive.
LEMMA NextGInv == GInv /\ [GuestNext]_vars => GInv'
<1> SUFFICES ASSUME GInv, [GuestNext]_vars PROVE GInv'
  BY SMTT(20)
<1>1. CASE UNCHANGED vars
  BY <1>1 DEF vars, nimbosVars, linuxVars, sharedVars, GInv, TypeOK, ValidIffToken, FreeCountExact,
              Free, TokensAreWaiting, OneDescriptorPerCall, CondFresh, Current
<1>2. CASE GuestNext
  BY <1>2, SysCallGuest, SendGuest, PopResponseGuest, ReturnGuest, AnyResponseGuest DEF GuestNext
<1> QED
  BY <1>1, <1>2

\* The invariant holds in every reachable state.
LEMMA GuestInvariance == GuestSpec => []GInv
BY InitGInv, NextGInv, PTL DEF GuestSpec

\* Whatever the shadow process does, free_count stays exact: send never fails to find
\* the descriptor it counts on.
THEOREM FreeCountSurvives == GuestSpec => []FreeCountExact
BY GuestInvariance, PTL DEF GInv

\* Whatever the shadow process does, handle_irq signals only tasks that wait.
THEOREM TokensSurvive == GuestSpec => []TokensAreWaiting
BY GuestInvariance, PTL DEF GInv

\* Whatever the shadow process does, a waiting task has exactly one descriptor.
THEOREM OneDescriptorAlways == GuestSpec => []OneDescriptorPerCall
BY GuestInvariance, PTL DEF GInv
=============================================================================
