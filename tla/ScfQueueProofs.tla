--------------------------- MODULE ScfQueueProofs ---------------------------
(***************************************************************************)
(* Proofs about ScfQueue, for every set of tasks, every capacity and every *)
(* index width that is a proper multiple of the capacity: the inductive    *)
(* invariant, the ring arithmetic behind it, what a step preserves by      *)
(* leaving a part of the state alone, and one lemma per action.            *)
(***************************************************************************)
EXTENDS ScfQueue, FiniteSetTheorems, WellFoundedInduction, TLAPS

(* The inductive invariant.  Indices and Counts say how much of the buffer   *)
(* is in which place; Places where each descriptor is; Tokens who waits for   *)
(* it; Results what Linux has done for it.                                   *)

Indices ==
  /\ req_index_shadow = req_index
  /\ started => rsp_index_shadow = rsp_index
  /\ ~started => req_index_last = 0 /\ jobs = {}

Counts ==
  /\ IsFiniteSet(jobs)
  /\ free_count = Cardinality(Free)
  /\ ReqSpan + RspSpan + Cardinality(jobs) + free_count = Capacity

InRing(i, ring, lo, n) == \E k \in Index : k < n /\ RingAt(ring, lo, k) = i
InReq(i) == InRing(i, req_ring, req_index_last, ReqSpan)
InRsp(i) == InRing(i, rsp_ring, rsp_index_last, RspSpan)
InJob(i) == \E j \in jobs : j.idx = i

Once(ring, lo, n) ==
  \A k, l \in Index : k < n /\ l < n /\ RingAt(ring, lo, k) = RingAt(ring, lo, l) => k = l
ReqOnce == Once(req_ring, req_index_last, ReqSpan)
RspOnce == Once(rsp_ring, rsp_index_last, RspSpan)
JobOnce == \A j, m \in jobs : j.idx = m.idx => j = m
Apart   == \A i \in Index : /\ InReq(i) => ~InJob(i) /\ ~InRsp(i)
                            /\ InJob(i) => ~InRsp(i)
Placed  == \A i \in Index : desc[i].valid <=> InReq(i) \/ InJob(i) \/ InRsp(i)
Places  == ReqOnce /\ RspOnce /\ JobOnce /\ Apart /\ Placed

TokenValid == \A i \in Index : desc[i].valid <=> tokens[i] # NoToken
TokenOnce  == \A i, j \in Index : tokens[i] = tokens[j] /\ tokens[i] # NoToken => i = j
TokenWaits == \A i \in Index : tokens[i] # NoToken =>
                /\ pc[tokens[i]] = "wait"
                /\ ~cond[tokens[i]].ok
                /\ desc[i].args = Current(tokens[i])
CondFresh  == \A t \in Task : pc[t] = "send" => ~cond[t].ok
Tokens     == TokenValid /\ TokenOnce /\ TokenWaits /\ CondFresh

ReqFresh  == \A i \in Index : InReq(i) => executed[desc[i].args] = 0
RspDone   == \A i \in Index : InRsp(i) =>
               executed[desc[i].args] = 1 /\ desc[i].ret_val = desc[i].args
JobResult == \A j \in jobs : /\ j.args = desc[j.idx].args
                             /\ executed[j.args] = IF j.ret = NoReq THEN 0 ELSE 1
                             /\ j.ret \in {NoReq, j.args}
SendFresh == \A t \in Task : pc[t] = "send" => executed[Current(t)] = 0
Results   == ReqFresh /\ RspDone /\ JobResult /\ SendFresh /\ ReturnsOwnResult /\ AtMostOnce

IInv == TypeOK /\ Indices /\ Counts /\ Places /\ Tokens /\ Results

-----------------------------------------------------------------------------
(* Ring arithmetic *)

\* A quotient and a remainder exist for every index and ring size.
LEMMA DivMod ==
  ASSUME NEW C \in Nat \ {0}, NEW x \in Nat
  PROVE  \E q \in Nat : x = (q * C) + (x % C) /\ x % C \in 0..(C - 1)
<1> DEFINE q == x \div C
<1>1. x = (q * C) + (x % C) /\ q \in Nat /\ x % C \in 0..(C - 1)
  OBVIOUS
<1> HIDE DEF q
<1> QED
  BY <1>1

\* No multiple of the ring size lies strictly between zero and the ring size.
LEMMA NoSmallMultiple ==
  ASSUME NEW C \in Nat \ {0}, NEW n \in Int
  PROVE  n * C \notin 1..(C - 1)
<1>1. CASE n <= 0
  BY <1>1
<1>2. CASE n >= 1
  BY <1>2
<1> QED
  BY <1>1, <1>2

\* wrapping_add stays a ring index and only the last index wraps.
LEMMA WrapStep ==
  ASSUME NEW x \in RingIndex
  PROVE  /\ wrapping_add(x) \in RingIndex
         /\ wrapping_add(x) = IF x + 1 = IndexMod THEN 0 ELSE x + 1
BY CapacityAssumption DEF RingIndex, wrapping_add

\* The index k steps after lo, for k below the number of indices.
LEMMA WrapPlus ==
  ASSUME NEW lo \in RingIndex, NEW k \in 0..(IndexMod - 1)
  PROVE  /\ (lo + k) % IndexMod \in RingIndex
         /\ (lo + k) % IndexMod = IF lo + k >= IndexMod THEN lo + k - IndexMod ELSE lo + k
<1>1. CASE lo + k < IndexMod
  BY <1>1, CapacityAssumption DEF RingIndex
<1>2. CASE lo + k >= IndexMod
  <2> DEFINE x == lo + k - IndexMod
  <2>1. x \in Nat /\ x < IndexMod /\ lo + k = x + IndexMod /\ IndexMod \in Nat \ {0}
    BY <1>2, CapacityAssumption DEF RingIndex
  <2> HIDE DEF x
  <2>2. (x + IndexMod) % IndexMod = x
    BY <2>1
  <2> QED
    BY <1>2, <2>1, <2>2 DEF x, RingIndex
<1> QED
  BY <1>1, <1>2, CapacityAssumption DEF RingIndex

\* Two ring indices less than Capacity apart lie in different slots.
LEMMA SlotsDiffer ==
  ASSUME NEW x \in RingIndex, NEW y \in RingIndex,
         Distance(x, y) \in 1..(Capacity - 1)
  PROVE  Slot(x) # Slot(y)
<1> SUFFICES ASSUME Slot(x) = Slot(y) PROVE FALSE
  OBVIOUS
<1>0. Capacity \in Nat \ {0} /\ IndexMod \in Nat /\ x \in Nat /\ y \in Nat
  BY CapacityAssumption DEF RingIndex
<1>1. PICK p \in Nat : x = (p * Capacity) + Slot(x)
  BY <1>0, DivMod DEF Slot
<1>2. PICK q \in Nat : y = (q * Capacity) + Slot(y)
  BY <1>0, DivMod DEF Slot
<1>3. PICK m \in Nat : IndexMod = m * Capacity
  <2>1. PICK m \in Nat : IndexMod = (m * Capacity) + (IndexMod % Capacity)
    BY <1>0, DivMod
  <2>2. m * Capacity \in Int
    BY <1>0
  <2>3. IndexMod = m * Capacity
    BY <2>1, <2>2, CapacityAssumption
  <2> QED
    BY <2>3
<1>4. Slot(x) \in Int /\ Slot(y) \in Int
  BY <1>0, DivMod DEF Slot
<1>5. CASE y >= x
  <2>1. Distance(x, y) = (q - p) * Capacity
    BY <1>0, <1>1, <1>2, <1>4, <1>5 DEF Distance
  <2> QED
    BY <2>1, <1>0, NoSmallMultiple, q - p \in Int
<1>6. CASE ~(y >= x)
  <2>1. Distance(x, y) = ((q - p) + m) * Capacity
    BY <1>0, <1>1, <1>2, <1>3, <1>4, <1>6 DEF Distance
  <2> QED
    BY <2>1, <1>0, NoSmallMultiple, (q - p) + m \in Int
<1> QED
  BY <1>5, <1>6

\* The slot of a ring index is a place in the ring.
LEMMA SlotType == ASSUME NEW x \in RingIndex PROVE Slot(x) \in Index
BY CapacityAssumption DEF Slot, Index, RingIndex

\* Order among the positions of a ring.
LEMMA IndexOrder ==
  ASSUME NEW n \in Nat
  PROVE  /\ 0 \in Index
         /\ \A k \in Index : k < n + 1 <=> k < n \/ k = n
         /\ \A k \in Index : k < n /\ k # 0 => k - 1 \in Index /\ k - 1 < n - 1 /\ (k - 1) + 1 = k
BY CapacityAssumption DEF Index

\* new_ring is ring with v in slot s
Written(new_ring, ring, s, v) ==
  new_ring[s] = v /\ \A x \in Index : x # s => new_ring[x] = ring[x]

\* What writing one entry at the end of a ring does to its unread part.
LEMMA RingPush ==
  ASSUME NEW lo \in RingIndex, NEW hi \in RingIndex,
         NEW ring \in [Index -> Index], NEW v, NEW new_ring,
         Written(new_ring, ring, Slot(hi), v),
         NEW n \in Nat, n = Distance(lo, hi), n < Capacity,
         Once(ring, lo, n)
  PROVE  /\ n \in Index
         /\ Distance(lo, wrapping_add(hi)) = n + 1
         /\ \A x : InRing(x, new_ring, lo, n + 1) <=> InRing(x, ring, lo, n) \/ x = v
         /\ ~InRing(v, ring, lo, n) => Once(new_ring, lo, n + 1)
<1>0. Capacity \in Nat \ {0} /\ IndexMod \in Nat /\ Capacity < IndexMod
  BY CapacityAssumption
<1>1. n \in Index
  BY <1>0 DEF Distance, Index, RingIndex
<1>2. Distance(lo, wrapping_add(hi)) = n + 1
  <2>1. wrapping_add(hi) = IF hi + 1 = IndexMod THEN 0 ELSE hi + 1
    BY ONLY WrapStep, hi \in RingIndex
  <2> QED
    BY <1>0, <2>1 DEF Distance, RingIndex
<1>3. (lo + n) % IndexMod = hi
  <2>1. n \in 0..(IndexMod - 1)
    BY <1>0, <1>1 DEF Index
  <2>2. (lo + n) % IndexMod = IF lo + n >= IndexMod THEN lo + n - IndexMod ELSE lo + n
    BY ONLY <2>1, WrapPlus, lo \in RingIndex
  <2> QED
    BY <1>0, <2>2 DEF Distance, RingIndex
<1>5. RingAt(new_ring, lo, n) = v
  BY <1>3 DEF RingAt, Written
<1>6. ASSUME NEW k \in Index, k < n
      PROVE  RingAt(new_ring, lo, k) = RingAt(ring, lo, k)
  <2> DEFINE x == (lo + k) % IndexMod
  <2>1. x \in RingIndex /\ x = IF lo + k >= IndexMod THEN lo + k - IndexMod ELSE lo + k
    BY <1>0, <1>6, WrapPlus DEF Index
  <2> HIDE DEF x
  <2>2. Distance(x, hi) \in 1..(Capacity - 1)
    BY <1>0, <1>1, <1>6, <2>1 DEF Distance, Index, RingIndex
  <2>3. Slot(x) # Slot(hi)
    BY <2>1, <2>2, SlotsDiffer
  <2> QED
    BY <2>1, <2>3, SlotType DEF RingAt, Written, x
<1>7. \A k \in Index : k < n + 1 <=> k < n \/ k = n
  BY ONLY IndexOrder, n \in Nat
<1>8. \A x : InRing(x, new_ring, lo, n + 1) <=> InRing(x, ring, lo, n) \/ x = v
  BY <1>1, <1>5, <1>6, <1>7 DEF InRing
<1>9. ~InRing(v, ring, lo, n) => Once(new_ring, lo, n + 1)
  BY <1>5, <1>6, <1>7 DEF InRing, Once
<1> QED
  BY <1>1, <1>2, <1>8, <1>9

\* What taking the first entry off a ring does to its unread part.
LEMMA RingPop ==
  ASSUME NEW lo \in RingIndex, NEW hi \in RingIndex,
         NEW ring \in [Index -> Index],
         NEW n \in Nat, n = Distance(lo, hi), n <= Capacity, lo # hi,
         Once(ring, lo, n)
  PROVE  /\ n \in 1..Capacity
         /\ Distance(wrapping_add(lo), hi) = n - 1
         /\ InRing(ring[Slot(lo)], ring, lo, n)
         /\ \A x : InRing(x, ring, wrapping_add(lo), n - 1)
                     <=> InRing(x, ring, lo, n) /\ x # ring[Slot(lo)]
         /\ Once(ring, wrapping_add(lo), n - 1)
<1>0. Capacity \in Nat \ {0} /\ IndexMod \in Nat /\ Capacity < IndexMod
  BY CapacityAssumption
<1>1. n \in 1..Capacity
  BY <1>0 DEF Distance, RingIndex
<1>2. Distance(wrapping_add(lo), hi) = n - 1
  <2>1. wrapping_add(lo) = IF lo + 1 = IndexMod THEN 0 ELSE lo + 1
    BY ONLY WrapStep, lo \in RingIndex
  <2> QED
    BY <1>0, <2>1 DEF Distance, RingIndex
<1>3. RingAt(ring, lo, 0) = ring[Slot(lo)]
  BY <1>0 DEF RingAt, RingIndex
<1>4. ASSUME NEW k \in Index, k < n - 1
      PROVE  /\ k + 1 \in Index
             /\ RingAt(ring, wrapping_add(lo), k) = RingAt(ring, lo, k + 1)
  <2>1. k + 1 \in Index /\ k + 1 \in 0..(IndexMod - 1) /\ k \in 0..(IndexMod - 1)
    BY <1>0, <1>1, <1>4 DEF Index
  <2>2. (wrapping_add(lo) + k) % IndexMod = (lo + (k + 1)) % IndexMod
    <3> DEFINE a == wrapping_add(lo)
    <3>1. a \in RingIndex /\ a = IF lo + 1 = IndexMod THEN 0 ELSE lo + 1
      BY WrapStep
    <3> HIDE DEF a
    <3>2. (a + k) % IndexMod = IF a + k >= IndexMod THEN a + k - IndexMod ELSE a + k
      BY ONLY <2>1, <3>1, WrapPlus
    <3>3. (lo + (k + 1)) % IndexMod
            = IF lo + (k + 1) >= IndexMod THEN lo + (k + 1) - IndexMod ELSE lo + (k + 1)
      BY ONLY <2>1, WrapPlus, lo \in RingIndex
    <3>4. (a + k) % IndexMod = (lo + (k + 1)) % IndexMod
      BY <1>0, <2>1, <3>1, <3>2, <3>3 DEF RingIndex
    <3> QED
      BY <3>4 DEF a
  <2> QED
    BY <2>1, <2>2 DEF RingAt
<1>5. /\ 0 \in Index
      /\ \A k \in Index : k < n /\ k # 0 => k - 1 \in Index /\ k - 1 < n - 1 /\ (k - 1) + 1 = k
  BY ONLY IndexOrder, n \in Nat
<1>8. 0 < n
  BY <1>1
<1>6. ASSUME NEW x
      PROVE  InRing(x, ring, wrapping_add(lo), n - 1)
               <=> InRing(x, ring, lo, n) /\ x # ring[Slot(lo)]
  <2>1. ASSUME NEW k \in Index, k < n - 1, RingAt(ring, wrapping_add(lo), k) = x
        PROVE  InRing(x, ring, lo, n) /\ x # ring[Slot(lo)]
    <3>1. k + 1 \in Index /\ k + 1 < n /\ k + 1 # 0 /\ RingAt(ring, lo, k + 1) = x
      BY <1>1, <1>4, <2>1 DEF Index
    <3> QED
      BY <1>3, <1>5, <1>8, <3>1 DEF InRing, Once
  <2>2. ASSUME NEW k \in Index, k < n, RingAt(ring, lo, k) = x, x # ring[Slot(lo)]
        PROVE  \E l \in Index : l < n - 1 /\ RingAt(ring, wrapping_add(lo), l) = x
    <3>1. k # 0 /\ k - 1 \in Index /\ k - 1 < n - 1 /\ (k - 1) + 1 = k
      BY <1>3, <1>5, <2>2
    <3>2. PICK l \in Index : l < n - 1 /\ l + 1 = k
      BY <3>1
    <3> QED
      BY <1>4, <2>2, <3>2
  <2> QED
    BY <2>1, <2>2 DEF InRing
<1>7. InRing(ring[Slot(lo)], ring, lo, n)
  BY <1>3, <1>5, <1>8 DEF InRing
<1>9. ASSUME NEW k \in Index, NEW l \in Index, k < n - 1, l < n - 1,
             RingAt(ring, wrapping_add(lo), k) = RingAt(ring, wrapping_add(lo), l)
      PROVE  k = l
  <2>1. k + 1 \in Index /\ l + 1 \in Index /\ RingAt(ring, lo, k + 1) = RingAt(ring, lo, l + 1)
    BY <1>4, <1>9
  <2>2. k \in Int /\ l \in Int /\ k + 1 < n /\ l + 1 < n
    BY ONLY <1>1, k \in Index, l \in Index, k < n - 1, l < n - 1, <1>0 DEF Index
  <2>3. k + 1 = l + 1
    BY <2>1, <2>2 DEF Once
  <2> QED
    BY <2>2, <2>3
<1> QED
  BY <1>1, <1>2, <1>6, <1>7, <1>9 DEF Once

\* A set of naturals that is not empty has a least element.
LEMMA LeastElement ==
  ASSUME NEW S \in SUBSET Nat, S # {}
  PROVE  \E x \in S : \A y \in S : x <= y
<1> DEFINE LT == {ss \in Nat \X Nat : ss[1] < ss[2]}
<1>1. IsWellFoundedOn(LT, Nat)
  BY NatLessThanWellFounded, Zenon DEF OpToRel
<1> HIDE DEF LT
<1>2. PICK x \in S : \A y \in S : ~(<<y, x>> \in LT)
  BY <1>1, WFMin
<1>3. ASSUME NEW y \in S PROVE x <= y
  <2> DEFINE p == <<y, x>>
  <2>1. p \notin LT /\ p \in Nat \X Nat /\ p[1] = y /\ p[2] = x
    BY <1>2
  <2> HIDE DEF p
  <2> QED
    BY <2>1 DEF LT
<1> QED
  BY <1>3

-----------------------------------------------------------------------------
(* What the invariant says of the numbers *)

\* While a descriptor is free, find_free_desc_locked returns one.
LEMMA FindFree ==
  ASSUME TypeOK, Counts, ~is_full
  PROVE  find_free_desc_locked \in Index /\ ~desc[find_free_desc_locked].valid
<1>1. Free \in SUBSET Nat
  BY CapacityAssumption DEF Free, Index
<1>2. Free # {}
  BY FS_EmptySet DEF Counts, is_full
<1>3. find_free_desc_locked \in Free
  BY <1>1, <1>2, LeastElement, Zenon DEF find_free_desc_locked
<1> QED
  BY <1>3 DEF Free

\* The spans and the number of jobs are naturals and bounded by the capacity.
LEMMA SpanTypes ==
  ASSUME TypeOK, Counts
  PROVE  /\ ReqSpan \in Nat /\ RspSpan \in Nat /\ Cardinality(jobs) \in Nat
         /\ free_count \in Nat /\ Capacity \in Nat \ {0}
         /\ ReqSpan <= Capacity /\ RspSpan <= Capacity
         /\ ReqSpan + free_count <= Capacity
         /\ RspSpan + Cardinality(jobs) <= Capacity
<1>1. ReqSpan \in Nat /\ RspSpan \in Nat
  BY CapacityAssumption DEF TypeOK, ReqSpan, RspSpan, Distance, RingIndex
<1>2. Cardinality(jobs) \in Nat
  BY FS_CardinalityType DEF Counts
<1>3. free_count \in Nat /\ Capacity \in Nat \ {0}
  BY CapacityAssumption DEF TypeOK
<1> QED
  BY <1>1, <1>2, <1>3 DEF Counts

\* The set of free descriptors is finite and has at most Capacity members.
LEMMA FreeFinite == IsFiniteSet(Free) /\ Cardinality(Free) \in 0..Capacity
<1>1. IsFiniteSet(Index) /\ Cardinality(Index) = Capacity
  BY FS_Interval, CapacityAssumption DEF Index
<1>2. Free \in SUBSET Index
  BY DEF Free
<1>3. IsFiniteSet(Free) /\ Cardinality(Free) <= Capacity /\ Cardinality(Free) \in Nat
  BY <1>1, <1>2, FS_Subset, FS_CardinalityType
<1> QED
  BY <1>3, CapacityAssumption

\* The request a task makes is a request.
LEMMA CurrentType == ASSUME TypeOK, NEW t \in Task PROVE Current(t) \in Request
BY DEF TypeOK, Current, Request

-----------------------------------------------------------------------------
(* The initial state *)

\* The table that ScfQueue starts with: every descriptor free, both rings empty.
LEMMA InitIInv == Init => IInv
<1> SUFFICES ASSUME Init PROVE IInv
  OBVIOUS
<1> USE DEF Init, new
<1>1. TypeOK
  <2>1. desc \in [Index -> Descriptor]
    BY DEF Descriptor, ScfOpcode
  <2>2. 0 \in RingIndex /\ 0 \in 0..(MaxCalls - 1) /\ 0 \in Index /\ Capacity \in 0..Capacity
    BY CapacityAssumption, CallsAssumption DEF RingIndex, Index
  <2> QED
    BY <2>1, <2>2 DEF TypeOK
<1>2. Indices
  BY DEF Indices
<1>3. Free = Index
  BY DEF Free
<1>4. ReqSpan = 0 /\ RspSpan = 0
  BY DEF ReqSpan, RspSpan, Distance
<1>5. Counts
  BY <1>3, <1>4, FS_EmptySet, FS_Interval, CapacityAssumption DEF Counts, Index
<1>6. \A i : ~InReq(i) /\ ~InRsp(i) /\ ~InJob(i)
  BY <1>4, CapacityAssumption DEF InReq, InRsp, InRing, InJob, Index
<1>7. ReqOnce /\ RspOnce
  BY <1>4, CapacityAssumption DEF ReqOnce, RspOnce, Once, Index
<1>8. JobOnce /\ Apart /\ Placed
  BY <1>6 DEF JobOnce, Apart, Placed
<1>9. Tokens
  BY DEF Tokens, TokenValid, TokenOnce, TokenWaits, CondFresh
<1>10. Results
  BY <1>6 DEF Results, ReqFresh, RspDone, JobResult, SendFresh, ReturnsOwnResult, AtMostOnce
<1> QED
  BY <1>1, <1>2, <1>5, <1>7, <1>8, <1>9, <1>10 DEF IInv, Places

-----------------------------------------------------------------------------
(* Frames: the steps that leave a ring, the jobs or the calls alone *)

\* What nobody writes to the request ring leaves its entries where they are.
LEMMA ReqFrame ==
  ASSUME UNCHANGED <<req_ring, req_index, req_index_last>>
  PROVE  /\ ReqSpan' = ReqSpan
         /\ \A i : InReq(i)' <=> InReq(i)
         /\ ReqOnce => ReqOnce'
BY DEF ReqSpan, InReq, ReqOnce

\* The same for the response ring.
LEMMA RspFrame ==
  ASSUME UNCHANGED <<rsp_ring, rsp_index, rsp_index_last>>
  PROVE  /\ RspSpan' = RspSpan
         /\ \A i : InRsp(i)' <=> InRsp(i)
         /\ RspOnce => RspOnce'
BY DEF RspSpan, InRsp, RspOnce

\* The same for the jobs of the shadow process.
LEMMA JobFrame ==
  ASSUME UNCHANGED jobs
  PROVE  /\ \A i : InJob(i)' <=> InJob(i)
         /\ JobOnce => JobOnce'
BY DEF InJob, JobOnce

\* A step that leaves the buffer and the jobs alone preserves Counts and Places.
LEMMA BufferFrame ==
  ASSUME Counts, Places, UNCHANGED <<sharedVars, free_count, rsp_index_last, req_index_last, jobs>>
  PROVE  Counts' /\ Places'
<1> USE DEF sharedVars
<1>1. Counts'
  BY ReqFrame, RspFrame DEF Counts, Free
<1>2. ReqOnce' /\ RspOnce' /\ JobOnce'
  BY ReqFrame, RspFrame, JobFrame DEF Places
<1>3. Apart' /\ Placed'
  BY ReqFrame, RspFrame, JobFrame DEF Places, Apart, Placed
<1> QED
  BY <1>1, <1>2, <1>3 DEF Places

\* A step that leaves the tasks and the table of tokens alone and keeps what the
\* descriptors are for preserves Tokens.
LEMMA TokenFrame ==
  ASSUME Tokens, UNCHANGED <<tokens, pc, cond, calls>>,
         \A i \in Index : desc'[i].valid = desc[i].valid /\ desc'[i].args = desc[i].args
  PROVE  Tokens'
<1>1. TokenValid' /\ TokenOnce' /\ CondFresh'
  BY DEF Tokens, TokenValid, TokenOnce, CondFresh
<1>2. TokenWaits'
  BY DEF Tokens, TokenWaits, Current
<1> QED
  BY <1>1, <1>2 DEF Tokens

\* A step that leaves the tasks and the history alone preserves what is said of
\* the calls that are not in the buffer.
LEMMA CallFrame ==
  ASSUME UNCHANGED <<pc, cond, calls, executed>>
  PROVE  /\ SendFresh => SendFresh'
         /\ ReturnsOwnResult => ReturnsOwnResult'
         /\ AtMostOnce => AtMostOnce'
BY DEF SendFresh, ReturnsOwnResult, AtMostOnce, Current

\* Requests in use are told apart by the tasks that wait for them.
LEMMA ArgsDiffer ==
  ASSUME IInv, NEW i \in Index, desc[i].valid
  PROVE  /\ desc[i].args \in Request
         /\ \A x \in Index : desc[x].valid => /\ desc[x].args \in Request
                                              /\ desc[x].args = desc[i].args => x = i
         /\ \A t \in Task : pc[t] # "wait" \/ cond[t].ok => Current(t) # desc[i].args
<1> USE DEF IInv, Tokens
<1>1. \A x \in Index : desc[x].valid =>
        /\ tokens[x] \in Task /\ desc[x].args = Current(tokens[x])
        /\ pc[tokens[x]] = "wait" /\ ~cond[tokens[x]].ok
  BY DEF TokenValid, TokenWaits, TypeOK
<1>2. \A t, u \in Task : Current(t) = Current(u) => t = u
  BY DEF Current
<1>3. \A x \in Index : desc[x].valid => desc[x].args \in Request
  BY <1>1, CurrentType
<1>4. \A x \in Index : desc[x].valid /\ desc[x].args = desc[i].args => x = i
  BY ONLY <1>1, <1>2, TokenOnce, TokenAssumption, desc[i].valid, i \in Index DEF TokenOnce
<1>5. \A t \in Task : pc[t] # "wait" \/ cond[t].ok => Current(t) # desc[i].args
  BY <1>1, <1>2
<1> QED
  BY <1>3, <1>4, <1>5

-----------------------------------------------------------------------------
(* NimbOS: the steps of a task outside the buffer *)

\* A task that starts a call resets the history of a request no descriptor
\* stands for.
LEMMA SysCallStep ==
  ASSUME IInv, NEW t \in Task, SysCall(t)
  PROVE  IInv'
<1> USE DEF IInv, Places, Tokens, Results
<1>1. PICK c \in 0..(MaxCalls - 1) :
        /\ calls' = [calls EXCEPT ![t] = c]
        /\ executed' = [executed EXCEPT ![[task |-> t, call |-> c]] = 0]
  <2> DEFINE d == (calls[t] + 1) % MaxCalls
  <2>1. d \in 0..(MaxCalls - 1)
    BY CallsAssumption DEF TypeOK
  <2>2. calls' = [calls EXCEPT ![t] = d] /\ calls'[t] = d
    BY DEF SysCall, TypeOK
  <2>3. executed' = [executed EXCEPT ![[task |-> t, call |-> d]] = 0]
    BY <2>2, Zenon DEF SysCall
  <2> QED
    BY <2>1, <2>2, <2>3
<1>2. /\ pc[t] = "run" /\ pc' = [pc EXCEPT ![t] = "send"]
      /\ cond' = [cond EXCEPT ![t] = [ok |-> FALSE, ret_val |-> NoReq]]
      /\ UNCHANGED <<free_count, req_index_shadow, rsp_index_last, tokens>>
      /\ UNCHANGED <<started, req_index_last, rsp_index_shadow, jobs, sharedVars>>
  BY DEF SysCall
<1>3. /\ executed \in [Request -> Nat] /\ tokens \in [Index -> Task \cup {NoToken}]
      /\ pc \in [Task -> {"run", "send", "wait"}] /\ calls \in [Task -> 0..(MaxCalls - 1)]
      /\ cond \in [Task -> [ok : BOOLEAN, ret_val : Request \cup {NoReq}]] /\ jobs \subseteq Job
  BY DEF TypeOK
<1> DEFINE r == [task |-> t, call |-> c]
<1>4. r \in Request /\ Current(t)' = r
  BY <1>1, <1>3 DEF Request, Current
<1>5. \A q \in Request : q # r => executed'[q] = executed[q]
  BY <1>1, <1>3, <1>4
<1>6. executed'[r] = 0
  BY <1>1, <1>3, <1>4
<1>7. \A u \in Task : u # t =>
        /\ Current(u)' = Current(u) /\ Current(u) \in Request /\ Current(u) # r
        /\ pc'[u] = pc[u] /\ cond'[u] = cond[u]
  BY <1>1, <1>2, <1>3, CurrentType DEF Current
<1>8. pc'[t] = "send" /\ ~cond'[t].ok
  BY <1>2, <1>3
<1>9. \A i \in Index : tokens[i] # NoToken => tokens[i] \in Task /\ tokens[i] # t
  BY <1>2, <1>3 DEF TokenWaits
<1>10. \A i \in Index : desc[i].valid => desc[i].args # r /\ desc[i].args \in Request
  BY <1>7, <1>9 DEF TokenValid, TokenWaits
<1> HIDE DEF r
<1>11. TypeOK'
  <2>1. executed' \in [Request -> Nat]
    BY <1>1, <1>3, <1>4 DEF r
  <2>2. /\ calls' \in [Task -> 0..(MaxCalls - 1)] /\ pc' \in [Task -> {"run", "send", "wait"}]
        /\ cond' \in [Task -> [ok : BOOLEAN, ret_val : Request \cup {NoReq}]]
    BY <1>1, <1>2, <1>3
  <2> QED
    BY <1>2, <2>1, <2>2 DEF TypeOK, sharedVars
<1>12. Indices' /\ Counts' /\ Places'
  BY <1>2, BufferFrame DEF sharedVars, Indices
<1>13. TokenValid' /\ TokenOnce' /\ CondFresh'
  BY <1>2, <1>7, <1>8 DEF TokenValid, TokenOnce, CondFresh, sharedVars
<1>14. TokenWaits'
  <2>1. desc' = desc /\ tokens' = tokens
    BY <1>2 DEF sharedVars
  <2> QED
    BY ONLY TokenWaits, <1>7, <1>9, <2>1 DEF TokenWaits
<1>15. ReqFresh'
  BY <1>2, <1>5, <1>10, ReqFrame DEF ReqFresh, Placed, sharedVars
<1>16. RspDone'
  BY <1>2, <1>5, <1>10, RspFrame DEF RspDone, Placed, sharedVars
<1>17. JobResult'
  <2>1. \A j \in jobs : j.idx \in Index /\ desc[j.idx].valid
    BY <1>3 DEF Job, Placed, InJob
  <2> QED
    BY <1>2, <1>5, <1>10, <2>1 DEF JobResult, sharedVars
<1>18. SendFresh'
  BY <1>4, <1>5, <1>6, <1>7 DEF SendFresh
<1>19. ReturnsOwnResult'
  BY <1>5, <1>7, <1>8 DEF ReturnsOwnResult
<1>20. AtMostOnce'
  BY <1>5, <1>6 DEF AtMostOnce
<1> QED
  BY <1>11, <1>12, <1>13, <1>14, <1>15, <1>16, <1>17, <1>18, <1>19, <1>20

\* The calling task leaves SyscallCondVar::wait; its descriptor was freed before.
LEMMA ReturnStep ==
  ASSUME IInv, NEW t \in Task, Return(t)
  PROVE  IInv'
<1> USE DEF IInv, Places, Tokens, Results
<1>1. /\ pc[t] = "wait" /\ cond[t].ok /\ pc' = [pc EXCEPT ![t] = "run"]
      /\ UNCHANGED <<free_count, req_index_shadow, rsp_index_last, tokens, calls, cond>>
      /\ UNCHANGED <<linuxVars, sharedVars>>
  BY DEF Return
<1> USE DEF sharedVars, linuxVars
<1>2. pc' \in [Task -> {"run", "send", "wait"}]
  BY <1>1 DEF TypeOK
<1>3. pc'[t] = "run" /\ \A u \in Task : u # t => pc'[u] = pc[u]
  BY <1>1 DEF TypeOK
<1>4. \A u \in Task : Current(u)' = Current(u)
  BY <1>1 DEF Current
<1>5. TypeOK'
  BY <1>1, <1>2 DEF TypeOK
<1>6. Indices' /\ Counts' /\ Places'
  BY <1>1, BufferFrame DEF Indices
<1>7. \A i \in Index : tokens[i] # NoToken => tokens[i] \in Task /\ tokens[i] # t
  BY <1>1 DEF TokenWaits, TypeOK
<1>8. TokenValid' /\ TokenOnce' /\ CondFresh'
  BY <1>1, <1>3 DEF TokenValid, TokenOnce, CondFresh
<1>9. TokenWaits'
  BY <1>1, <1>3, <1>4, <1>7 DEF TokenWaits
<1>10. ReqFresh' /\ RspDone' /\ JobResult'
  BY <1>1, ReqFrame, RspFrame DEF ReqFresh, RspDone, JobResult
<1>11. SendFresh' /\ ReturnsOwnResult' /\ AtMostOnce'
  BY <1>1, <1>3, <1>4 DEF SendFresh, ReturnsOwnResult, AtMostOnce
<1> QED
  BY <1>5, <1>6, <1>8, <1>9, <1>10, <1>11

\* Before Setup Linux has taken nothing, so starting at request zero is right.
LEMMA SetupStep ==
  ASSUME IInv, Setup
  PROVE  IInv'
<1> USE DEF IInv, Places, Tokens, Results
<1>1. /\ req_index_last' = req_index_last /\ rsp_index_shadow' = rsp_index /\ started'
      /\ UNCHANGED <<jobs, executed, nimbosVars, sharedVars>>
  BY DEF Indices, Setup, nimbos_setup_syscall_buffers
<1> USE DEF sharedVars, nimbosVars
<1>2. TypeOK'
  BY <1>1 DEF TypeOK
<1>3. Indices' /\ Counts' /\ Places'
  BY <1>1, BufferFrame DEF Indices
<1>4. Tokens'
  BY <1>1, TokenFrame
<1>5. ReqFresh' /\ RspDone' /\ JobResult'
  BY <1>1, ReqFrame, RspFrame DEF ReqFresh, RspDone, JobResult
<1>6. SendFresh' /\ ReturnsOwnResult' /\ AtMostOnce'
  BY <1>1, CallFrame
<1> QED
  BY <1>2, <1>3, <1>4, <1>5, <1>6

-----------------------------------------------------------------------------
(* NimbOS: send_locked *)

\* The new entry of the request ring goes to a slot Linux has read: as long as a
\* descriptor is free, fewer than Capacity requests are unread.
LEMMA SendEffect ==
  ASSUME IInv, NEW t \in Task, NEW op \in Opcode, Send(t, op)
  PROVE  \E i \in Index, n \in Nat :
           /\ i = find_free_desc_locked /\ ~desc[i].valid
           /\ n = ReqSpan /\ ReqSpan' = n + 1
           /\ \A x : InReq(x)' <=> InReq(x) \/ x = i
           /\ ~InReq(i) => ReqOnce'
<1> USE DEF IInv, Places
<1>1. PICK i \in Index : i = find_free_desc_locked /\ ~desc[i].valid
  BY FindFree, Zenon DEF Send, send_locked
<1>2. /\ req_ring' = [req_ring EXCEPT ![Slot(req_index)] = i]
      /\ req_index' = wrapping_add(req_index)
      /\ req_index_last' = req_index_last
  BY <1>1 DEF Send, send_locked, linuxVars, Indices
<1>3. PICK n \in Nat : n = ReqSpan /\ n < Capacity
  BY SpanTypes DEF Send, send_locked, is_full
<1>4. req_index_last \in RingIndex /\ req_index \in RingIndex /\ req_ring \in [Index -> Index]
  BY DEF TypeOK
<1>5. /\ n = Distance(req_index_last, req_index)
      /\ Written(req_ring', req_ring, Slot(req_index), i)
  BY <1>2, <1>3, <1>4, SlotType DEF ReqSpan, Written
<1>6. Once(req_ring, req_index_last, n)
  BY <1>3 DEF ReqOnce
<1>7. /\ Distance(req_index_last, wrapping_add(req_index)) = n + 1
      /\ \A x : InRing(x, req_ring', req_index_last, n + 1)
                  <=> InRing(x, req_ring, req_index_last, n) \/ x = i
      /\ ~InRing(i, req_ring, req_index_last, n) => Once(req_ring', req_index_last, n + 1)
  BY ONLY <1>3, <1>4, <1>5, <1>6, RingPush, SMTT(30)
<1>8. ReqSpan' = n + 1
  BY <1>2, <1>7 DEF ReqSpan
<1>9. \A x : InReq(x)' <=> InReq(x) \/ x = i
  BY <1>2, <1>3, <1>7, <1>8 DEF InReq
<1>10. ~InReq(i) => ReqOnce'
  BY ONLY <1>2, <1>3, <1>7, <1>8 DEF InReq, ReqOnce
<1> QED
  BY <1>1, <1>3, <1>8, <1>9, <1>10

\* send takes a free descriptor, stores the token and puts the request on the ring.
LEMMA SendStep ==
  ASSUME IInv, NEW t \in Task, NEW op \in Opcode, Send(t, op)
  PROVE  IInv'
<1> USE DEF IInv, Places, Tokens, Results
<1>1. PICK i \in Index, n \in Nat :
        /\ i = find_free_desc_locked /\ ~desc[i].valid
        /\ n = ReqSpan /\ ReqSpan' = n + 1
        /\ \A x : InReq(x)' <=> InReq(x) \/ x = i
        /\ ~InReq(i) => ReqOnce'
  BY SendEffect
<1>2. /\ pc[t] = "send" /\ pc' = [pc EXCEPT ![t] = "wait"]
      /\ free_count # 0 /\ free_count' = free_count - 1
      /\ tokens' = [tokens EXCEPT ![i] = t]
      /\ desc' = [desc EXCEPT ![i] = [valid |-> TRUE, opcode |-> op,
                                      args |-> Current(t), ret_val |-> NoReq]]
      /\ req_ring' = [req_ring EXCEPT ![Slot(req_index_shadow)] = i]
      /\ req_index_shadow' = wrapping_add(req_index_shadow)
      /\ req_index' = req_index_shadow'
  BY <1>1 DEF Send, send_locked, is_full
<1>3. UNCHANGED <<rsp_index_last, rsp_ring, rsp_index, calls, cond, started, req_index_last,
                  rsp_index_shadow, jobs, executed>>
  BY DEF Send, send_locked, linuxVars
<1>4. /\ desc \in [Index -> Descriptor] /\ tokens \in [Index -> Task \cup {NoToken}]
      /\ pc \in [Task -> {"run", "send", "wait"}] /\ jobs \subseteq Job
      /\ req_ring \in [Index -> Index] /\ req_index_shadow \in RingIndex /\ free_count \in 0..Capacity
  BY DEF TypeOK
<1>5. Current(t) \in Request /\ \A u \in Task : Current(u)' = Current(u)
  BY <1>3, CurrentType DEF Current
<1>6. ~InReq(i) /\ ~InJob(i) /\ ~InRsp(i) /\ tokens[i] = NoToken
  BY <1>1 DEF Placed, TokenValid
<1>7. /\ \A x \in Index : x # i => desc'[x] = desc[x] /\ tokens'[x] = tokens[x]
      /\ desc'[i].valid /\ desc'[i].args = Current(t) /\ tokens'[i] = t
  BY <1>2, <1>4
<1>8. pc'[t] = "wait" /\ \A u \in Task : u # t => pc'[u] = pc[u]
  BY <1>2, <1>4
<1>9. \A x \in Index : tokens[x] # NoToken => tokens[x] \in Task /\ tokens[x] # t
  BY <1>2, <1>4 DEF TokenWaits
<1>10. TypeOK'
  <2>1. desc' \in [Index -> Descriptor]
    BY ONLY <1>2, <1>4, <1>5, op \in Opcode DEF Descriptor, ScfOpcode
  <2>2. wrapping_add(req_index_shadow) \in RingIndex
    BY <1>4, WrapStep
  <2>3. free_count' \in 0..Capacity
    BY <1>2, <1>4, CapacityAssumption
  <2>4. /\ req_ring' \in [Index -> Index] /\ tokens' \in [Index -> Task \cup {NoToken}]
        /\ pc' \in [Task -> {"run", "send", "wait"}]
    BY <1>2, <1>4
  <2> QED
    BY <1>2, <1>3, <2>1, <2>2, <2>3, <2>4 DEF TypeOK
<1>11. Indices'
  BY <1>2, <1>3 DEF Indices
<1>12. Counts'
  <2>1. Free' = Free \ {i} /\ i \in Free
    BY <1>1, <1>7 DEF Free
  <2>2. Cardinality(Free') = Cardinality(Free) - 1
    BY <2>1, FreeFinite, FS_RemoveElement
  <2>3. RspSpan' = RspSpan /\ jobs' = jobs
    BY <1>3, RspFrame
  <2>9. /\ ReqSpan \in Nat /\ RspSpan \in Nat /\ Cardinality(jobs) \in Nat
        /\ free_count \in Nat /\ Capacity \in Nat
        /\ ReqSpan + RspSpan + Cardinality(jobs) + free_count = Capacity
        /\ IsFiniteSet(jobs) /\ free_count = Cardinality(Free)
    BY SpanTypes DEF Counts
  <2> QED
    BY ONLY <1>1, <1>2, <2>2, <2>3, <2>9 DEF Counts
<1>13. ReqOnce' /\ RspOnce' /\ JobOnce'
  BY <1>1, <1>3, <1>6, RspFrame, JobFrame
<1>14. Apart' /\ Placed'
  BY <1>1, <1>3, <1>6, <1>7, RspFrame, JobFrame DEF Apart, Placed
<1>15. TokenValid' /\ TokenOnce'
  <2>1. TokenValid'
    BY ONLY TokenValid, <1>7, TokenAssumption, t \in Task DEF TokenValid
  <2>2. TokenOnce'
    BY ONLY TokenOnce, <1>7, <1>9 DEF TokenOnce
  <2> QED
    BY <2>1, <2>2
<1>16. TokenWaits'
  <2>1. ~cond'[t].ok /\ cond' = cond
    BY <1>2, <1>3 DEF CondFresh
  <2> QED
    <3> SUFFICES ASSUME NEW x \in Index, tokens'[x] # NoToken
                 PROVE  /\ pc'[tokens'[x]] = "wait" /\ ~cond'[tokens'[x]].ok
                        /\ desc'[x].args = Current(tokens'[x])
      BY <1>3 DEF TokenWaits, Current
    <3>1. CASE x = i
      BY <1>7, <1>8, <2>1, <3>1
    <3>2. CASE x # i
      BY <1>7, <1>8, <1>9, <2>1, <3>2 DEF TokenWaits
    <3> QED
      BY <3>1, <3>2
<1>17. CondFresh'
  BY <1>3, <1>8 DEF CondFresh
<1>18. ReqFresh'
  BY <1>1, <1>2, <1>3, <1>7 DEF ReqFresh, SendFresh
<1>19. RspDone'
  BY <1>3, <1>6, <1>7, RspFrame DEF RspDone
<1>20. JobResult'
  <2>1. \A j \in jobs : j.idx \in Index /\ j.idx # i
    BY <1>4, <1>6 DEF Job, InJob
  <2> QED
    BY <1>3, <1>7, <2>1 DEF JobResult
<1>21. SendFresh'
  BY <1>3, <1>5, <1>8 DEF SendFresh
<1>22. ReturnsOwnResult' /\ AtMostOnce'
  BY <1>2, <1>3, <1>5, <1>8 DEF ReturnsOwnResult, AtMostOnce, CondFresh
<1> QED
  BY <1>10, <1>11, <1>12, <1>13, <1>14, <1>15, <1>16, <1>17, <1>18, <1>19, <1>20, <1>21, <1>22

-----------------------------------------------------------------------------
(* Linux: the steps of the shadow process *)

\* The entry Linux takes is a descriptor in use and leaves the request ring.
LEMMA PopRequestEffect ==
  ASSUME IInv, PopRequest
  PROVE  \E i \in Index, n \in 1..Capacity :
           /\ jobs' = jobs \cup {[pos |-> req_index_last, idx |-> i, opcode |-> desc[i].opcode,
                                  args |-> desc[i].args, ret |-> NoReq]}
           /\ InReq(i)
           /\ n = ReqSpan /\ ReqSpan' = n - 1
           /\ \A x : InReq(x)' <=> InReq(x) /\ x # i
           /\ ReqOnce'
<1> USE DEF IInv, Places
<1>1. PICK i \in Index :
        /\ i = req_ring[Slot(req_index_last)] /\ has_request
        /\ req_index_last' = wrapping_add(req_index_last)
        /\ jobs' = jobs \cup {[pos |-> req_index_last, idx |-> i, opcode |-> desc[i].opcode,
                               args |-> desc[i].args, ret |-> NoReq]}
  BY DEF PopRequest, pop_syscall_request
<1>2. req_ring' = req_ring /\ req_index' = req_index
  BY DEF PopRequest, sharedVars
<1>3. PICK n \in Nat : n = ReqSpan /\ n <= Capacity
  BY SpanTypes
<1>4. req_index_last \in RingIndex /\ req_index \in RingIndex /\ req_ring \in [Index -> Index]
  BY DEF TypeOK
<1>5. n = Distance(req_index_last, req_index) /\ req_index_last # req_index
  BY <1>1, <1>3 DEF ReqSpan, has_request
<1>6. Once(req_ring, req_index_last, n)
  BY <1>3 DEF ReqOnce
<1>7. /\ n \in 1..Capacity
      /\ Distance(wrapping_add(req_index_last), req_index) = n - 1
      /\ InRing(req_ring[Slot(req_index_last)], req_ring, req_index_last, n)
      /\ \A x : InRing(x, req_ring, wrapping_add(req_index_last), n - 1)
           <=> InRing(x, req_ring, req_index_last, n) /\ x # req_ring[Slot(req_index_last)]
      /\ Once(req_ring, wrapping_add(req_index_last), n - 1)
  BY ONLY <1>3, <1>4, <1>5, <1>6, RingPop, SMTT(30)
<1>8. ReqSpan' = n - 1
  BY <1>1, <1>2, <1>7 DEF ReqSpan
<1>9. InReq(i) /\ \A x : InReq(x)' <=> InReq(x) /\ x # i
  BY <1>1, <1>2, <1>3, <1>7, <1>8 DEF InReq
<1>10. ReqOnce'
  BY ONLY <1>1, <1>2, <1>7, <1>8 DEF ReqOnce
<1> QED
  BY <1>1, <1>3, <1>7, <1>8, <1>9, <1>10

\* poll_requests moves the oldest request from the ring to the jobs.
LEMMA PopRequestStep ==
  ASSUME IInv, PopRequest
  PROVE  IInv'
<1> USE DEF IInv, Places, Tokens, Results
<1>1. PICK i \in Index, n \in 1..Capacity :
        /\ jobs' = jobs \cup {[pos |-> req_index_last, idx |-> i, opcode |-> desc[i].opcode,
                               args |-> desc[i].args, ret |-> NoReq]}
        /\ InReq(i)
        /\ n = ReqSpan /\ ReqSpan' = n - 1
        /\ \A x : InReq(x)' <=> InReq(x) /\ x # i
        /\ ReqOnce'
  BY PopRequestEffect
<1> DEFINE new_job == [pos |-> req_index_last, idx |-> i, opcode |-> desc[i].opcode,
                       args |-> desc[i].args, ret |-> NoReq]
<1>2. started /\ req_index_last' = wrapping_add(req_index_last)
  BY DEF PopRequest, pop_syscall_request
<1>3. UNCHANGED <<started, rsp_index_shadow, executed, nimbosVars, sharedVars>>
  BY DEF PopRequest
<1> USE DEF sharedVars, nimbosVars
<1>4. desc[i].valid /\ ~InJob(i) /\ ~InRsp(i)
  BY <1>1 DEF Placed, Apart
<1>5. desc[i].args \in Request
  BY <1>4, ArgsDiffer
<1>6. /\ desc \in [Index -> Descriptor] /\ req_index_last \in RingIndex /\ jobs \subseteq Job
  BY DEF TypeOK
<1>7. new_job.idx = i /\ new_job.args = desc[i].args /\ new_job.ret = NoReq /\ jobs' = jobs \cup {new_job}
  BY <1>1
<1>8. new_job \in Job
  BY <1>5, <1>6 DEF Job, Descriptor
<1> HIDE DEF new_job
<1>9. new_job \notin jobs
  BY <1>4, <1>7 DEF InJob
<1>10. \A x : InJob(x)' <=> InJob(x) \/ x = i
  BY <1>7 DEF InJob
<1>11. TypeOK'
  <2>1. wrapping_add(req_index_last) \in RingIndex
    BY <1>6, WrapStep
  <2>2. jobs' \subseteq Job
    BY <1>6, <1>7, <1>8
  <2> QED
    BY <1>2, <1>3, <2>1, <2>2 DEF TypeOK
<1>12. Indices'
  BY <1>2, <1>3 DEF Indices
<1>13. Counts'
  <2>1. IsFiniteSet(jobs') /\ Cardinality(jobs') = Cardinality(jobs) + 1
    BY <1>7, <1>9, FS_AddElement DEF Counts
  <2>2. Free' = Free
    BY <1>3 DEF Free
  <2>3. RspSpan' = RspSpan
    BY <1>3, RspFrame
  <2>4. free_count' = free_count
    BY <1>3
  <2>9. /\ ReqSpan \in Nat /\ RspSpan \in Nat /\ Cardinality(jobs) \in Nat
        /\ free_count \in Nat /\ Capacity \in Nat
        /\ ReqSpan + RspSpan + Cardinality(jobs) + free_count = Capacity
        /\ IsFiniteSet(jobs) /\ free_count = Cardinality(Free)
    BY SpanTypes DEF Counts
  <2> QED
    BY ONLY <1>1, <2>1, <2>2, <2>3, <2>4, <2>9 DEF Counts
<1>14. ReqOnce' /\ RspOnce'
  BY <1>1, <1>3, RspFrame
<1>15. JobOnce'
  BY <1>4, <1>7 DEF JobOnce, InJob
<1>16. Apart' /\ Placed'
  BY <1>1, <1>3, <1>4, <1>10, RspFrame DEF Apart, Placed
<1>17. Tokens'
  BY <1>3, TokenFrame
<1>18. ReqFresh'
  BY <1>1, <1>3 DEF ReqFresh
<1>19. RspDone'
  BY <1>3, RspFrame DEF RspDone
<1>20. JobResult'
  <2>1. executed[desc[i].args] = 0
    BY <1>1 DEF ReqFresh
  <2> QED
    BY ONLY JobResult, <1>3, <1>7, <2>1 DEF JobResult, sharedVars
<1>21. SendFresh' /\ ReturnsOwnResult' /\ AtMostOnce'
  BY <1>3, CallFrame
<1> QED
  BY <1>11, <1>12, <1>13, <1>14, <1>15, <1>16, <1>17, <1>18, <1>19, <1>20, <1>21

\* Linux carries out a job that has no result yet, for the first time.
LEMMA ExecuteStep ==
  ASSUME IInv, NEW j \in jobs, Execute(j)
  PROVE  IInv'
<1> USE DEF IInv, Places, Tokens, Results
<1> DEFINE d == [j EXCEPT !.ret = j.args]
<1>1. j.args = desc[j.idx].args
  BY DEF JobResult
<1>2. /\ j.ret = NoReq /\ executed' = [executed EXCEPT ![j.args] = @ + 1]
      /\ jobs' = (jobs \ {j}) \cup {d}
  BY <1>1 DEF Execute
<1>3. UNCHANGED <<started, req_index_last, rsp_index_shadow, nimbosVars, sharedVars>>
  BY DEF Execute
<1> USE DEF sharedVars, nimbosVars
<1>4. jobs \subseteq Job /\ executed \in [Request -> Nat]
  BY DEF TypeOK
<1>5. /\ j.idx \in Index /\ d \in Job /\ d.idx = j.idx /\ d.args = j.args /\ d.ret = j.args
      /\ d.ret # NoReq
  BY <1>4, TokenAssumption DEF Job
<1> HIDE DEF d
<1>6. \A x : InJob(x)' <=> InJob(x)
  BY <1>2, <1>5 DEF InJob
<1>7. InJob(j.idx) /\ desc[j.idx].valid
  BY <1>5 DEF InJob, Placed
<1>8. /\ j.args \in Request
      /\ \A x \in Index : desc[x].valid => /\ desc[x].args \in Request
                                           /\ desc[x].args = j.args => x = j.idx
      /\ \A t \in Task : pc[t] # "wait" \/ cond[t].ok => Current(t) # j.args
  BY <1>1, <1>5, <1>7, ArgsDiffer
<1>9. executed[j.args] = 0
  BY <1>2 DEF JobResult
<1>10. executed'[j.args] = 1 /\ executed' \in [Request -> Nat] /\ \A q \in Request : q # j.args => executed'[q] = executed[q]
  <2>1. PICK q \in Request : q = j.args
    BY <1>8
  <2>2. executed' = [executed EXCEPT ![q] = 1]
    BY <1>2, <1>9, <2>1
  <2> QED
    BY ONLY <1>4, <2>1, <2>2
<1>11. \A x \in Index : x # j.idx /\ desc[x].valid => executed'[desc[x].args] = executed[desc[x].args]
  BY <1>8, <1>10
<1>12. \A m \in jobs : m # j => /\ m.idx \in Index /\ m.idx # j.idx /\ desc[m.idx].valid
  BY <1>4 DEF Job, JobOnce, Placed, InJob
<1>13. TypeOK'
  <2>1. executed' \in [Request -> Nat]
    BY <1>10
  <2>2. jobs' \subseteq Job
    BY <1>2, <1>4, <1>5
  <2> QED
    BY <1>3, <2>1, <2>2 DEF TypeOK
<1>14. Indices'
  BY <1>3 DEF Indices
<1>15. Counts'
  <2>1. IsFiniteSet(jobs \ {j}) /\ Cardinality(jobs \ {j}) = Cardinality(jobs) - 1
    BY FS_RemoveElement DEF Counts
  <2>2. d \notin jobs \ {j}
    BY <1>5, <1>12
  <2>3. IsFiniteSet(jobs') /\ Cardinality(jobs') = Cardinality(jobs)
    <3>1. Cardinality(jobs) \in Nat
      BY SpanTypes
    <3> QED
      BY ONLY <1>2, <2>1, <2>2, <3>1, FS_AddElement
  <2>4. Free' = Free
    BY <1>3 DEF Free
  <2>5. ReqSpan' = ReqSpan /\ RspSpan' = RspSpan /\ free_count' = free_count
    BY <1>3, ReqFrame, RspFrame
  <2> QED
    BY <2>3, <2>4, <2>5 DEF Counts
<1>16. ReqOnce' /\ RspOnce'
  BY <1>3, ReqFrame, RspFrame
<1>17. JobOnce'
  BY ONLY JobOnce, <1>2, <1>5, <1>12 DEF JobOnce
<1>18. Apart' /\ Placed'
  BY <1>3, <1>6, ReqFrame, RspFrame DEF Apart, Placed
<1>19. Tokens'
  BY <1>3, TokenFrame
<1>20. ~InReq(j.idx) /\ ~InRsp(j.idx)
  BY <1>5, <1>7 DEF Apart
<1>21. ReqFresh'
  BY <1>3, <1>11, <1>20, ReqFrame DEF ReqFresh, Placed
<1>22. RspDone'
  BY <1>3, <1>11, <1>20, RspFrame DEF RspDone, Placed
<1>23. JobResult'
  <2> SUFFICES ASSUME NEW m \in jobs'
               PROVE  /\ m.args = desc[m.idx].args
                      /\ executed'[m.args] = IF m.ret = NoReq THEN 0 ELSE 1
                      /\ m.ret \in {NoReq, m.args}
    BY <1>3 DEF JobResult
  <2>1. CASE m = d
    BY <1>1, <1>5, <1>10, <2>1
  <2>2. CASE m # d
    <3>1. m \in jobs /\ m # j
      BY <1>2, <2>2
    <3> QED
      BY <1>11, <1>12, <3>1 DEF JobResult
  <2> QED
    BY <2>1, <2>2
<1>24. \A t \in Task : pc[t] # "wait" \/ cond[t].ok =>
         Current(t)' = Current(t) /\ executed'[Current(t)] = executed[Current(t)]
  BY <1>3, <1>8, <1>10, CurrentType DEF Current
<1>25. SendFresh' /\ ReturnsOwnResult'
  BY <1>3, <1>24 DEF SendFresh, ReturnsOwnResult
<1>26. AtMostOnce'
  BY ONLY AtMostOnce, <1>8, <1>10 DEF AtMostOnce
<1> QED
  BY <1>13, <1>14, <1>15, <1>16, <1>17, <1>18, <1>19, <1>21, <1>22, <1>23, <1>25, <1>26

\* push_syscall_response moves a job with its result to the response ring.
LEMMA PushResponseStep ==
  ASSUME IInv, NEW j \in jobs, PushResponse(j)
  PROVE  IInv'
<1> USE DEF IInv, Places, Tokens, Results
<1>1. PICK i \in Index : i = j.idx
  BY DEF TypeOK, Job
<1>2. /\ j.ret = j.args /\ j.ret # NoReq /\ started /\ jobs' = jobs \ {j}
      /\ desc' = [desc EXCEPT ![i].ret_val = j.args]
      /\ rsp_ring' = [rsp_ring EXCEPT ![Slot(rsp_index)] = i]
      /\ rsp_index' = wrapping_add(rsp_index) /\ rsp_index_shadow' = rsp_index'
  BY <1>1 DEF PushResponse, push_syscall_response, Indices, JobResult
<1>3. UNCHANGED <<started, req_index_last, executed, req_ring, req_index, nimbosVars>>
  BY DEF PushResponse
<1> USE DEF nimbosVars
<1>4. /\ rsp_index_last \in RingIndex /\ rsp_index \in RingIndex /\ rsp_ring \in [Index -> Index]
      /\ desc \in [Index -> Descriptor] /\ jobs \subseteq Job
  BY DEF TypeOK
<1>5. IsFiniteSet(jobs') /\ Cardinality(jobs') = Cardinality(jobs) - 1 /\ Cardinality(jobs) >= 1
  <2>1. IsFiniteSet(jobs') /\ Cardinality(jobs') = Cardinality(jobs) - 1 /\ Cardinality(jobs') \in Nat
    BY <1>2, FS_RemoveElement, FS_CardinalityType DEF Counts
  <2> QED
    BY <2>1, SpanTypes
<1>6. PICK n \in Nat : n = RspSpan /\ n < Capacity
  BY <1>5, SpanTypes
<1>7. /\ n = Distance(rsp_index_last, rsp_index)
      /\ Written(rsp_ring', rsp_ring, Slot(rsp_index), i)
  BY <1>2, <1>4, <1>6, SlotType DEF RspSpan, Written
<1>8. Once(rsp_ring, rsp_index_last, n)
  BY <1>6 DEF RspOnce
<1>9. /\ Distance(rsp_index_last, wrapping_add(rsp_index)) = n + 1
      /\ \A x : InRing(x, rsp_ring', rsp_index_last, n + 1)
                  <=> InRing(x, rsp_ring, rsp_index_last, n) \/ x = i
      /\ ~InRing(i, rsp_ring, rsp_index_last, n) => Once(rsp_ring', rsp_index_last, n + 1)
  BY ONLY <1>4, <1>6, <1>7, <1>8, RingPush, SMTT(30)
<1>10. RspSpan' = n + 1
  BY <1>2, <1>3, <1>9 DEF RspSpan
<1>11. \A x : InRsp(x)' <=> InRsp(x) \/ x = i
  BY <1>3, <1>6, <1>9, <1>10 DEF InRsp
<1>12. /\ InJob(i) /\ desc[i].valid /\ ~InReq(i) /\ ~InRsp(i)
  BY <1>1 DEF InJob, Placed, Apart
<1>13. j.args = desc[i].args /\ executed[j.args] = 1 /\ j.args \in Request
  BY <1>1, <1>2, <1>4 DEF JobResult, Job
<1>14. \A x : InJob(x)' <=> InJob(x) /\ x # i
  BY <1>1, <1>2 DEF InJob, JobOnce
<1>15. /\ \A x \in Index : desc'[x].valid = desc[x].valid /\ desc'[x].args = desc[x].args
       /\ \A x \in Index : x # i => desc'[x] = desc[x]
       /\ desc'[i].ret_val = desc[i].args
  BY ONLY <1>2, <1>4, <1>13, i \in Index DEF Descriptor
<1>16. TypeOK'
  <2>1. desc' \in [Index -> Descriptor]
    BY ONLY <1>2, <1>4, <1>13 DEF Descriptor
  <2>2. wrapping_add(rsp_index) \in RingIndex
    BY <1>4, WrapStep
  <2>3. rsp_ring' \in [Index -> Index] /\ jobs' \subseteq Job
    BY <1>2, <1>4
  <2> QED
    BY <1>2, <1>3, <2>1, <2>2, <2>3 DEF TypeOK
<1>17. Indices'
  BY <1>2, <1>3 DEF Indices
<1>18. Counts'
  <2>1. Free' = Free
    BY <1>15 DEF Free
  <2>2. ReqSpan' = ReqSpan /\ free_count' = free_count
    BY <1>3, ReqFrame
  <2>9. /\ ReqSpan \in Nat /\ RspSpan \in Nat /\ Cardinality(jobs) \in Nat
        /\ free_count \in Nat /\ Capacity \in Nat
        /\ ReqSpan + RspSpan + Cardinality(jobs) + free_count = Capacity
        /\ IsFiniteSet(jobs) /\ free_count = Cardinality(Free)
    BY SpanTypes DEF Counts
  <2> QED
    BY ONLY <1>5, <1>6, <1>10, <2>1, <2>2, <2>9 DEF Counts
<1>19. ReqOnce'
  BY <1>3, ReqFrame
<1>20. RspOnce'
  <2>1. ~InRing(i, rsp_ring, rsp_index_last, n)
    BY <1>6, <1>12 DEF InRsp
  <2>2. rsp_index_last' = rsp_index_last
    BY <1>3
  <2> QED
    BY ONLY <1>9, <1>10, <2>1, <2>2 DEF RspOnce
<1>21. JobOnce'
  BY <1>2 DEF JobOnce
<1>22. Apart' /\ Placed'
  BY <1>3, <1>11, <1>12, <1>14, <1>15, ReqFrame DEF Apart, Placed
<1>23. Tokens'
  BY <1>3, <1>15, TokenFrame
<1>24. ReqFresh'
  BY <1>3, <1>15, ReqFrame DEF ReqFresh
<1>25. RspDone'
  BY <1>3, <1>11, <1>13, <1>15 DEF RspDone
<1>26. JobResult'
  BY <1>2, <1>3, <1>4, <1>15 DEF JobResult, Job
<1>27. SendFresh' /\ ReturnsOwnResult' /\ AtMostOnce'
  BY <1>3, CallFrame
<1> QED
  BY <1>16, <1>17, <1>18, <1>19, <1>20, <1>21, <1>22, <1>23, <1>24, <1>25, <1>26, <1>27

-----------------------------------------------------------------------------
(* NimbOS: pop_response_locked and handle_irq *)

\* The response NimbOS takes is of a descriptor in use, whose task waits: neither
\* branch that drops a response is taken.
LEMMA PopResponseEffect ==
  ASSUME IInv, PopResponse
  PROVE  \E i \in Index, n \in 1..Capacity, t \in Task :
           /\ desc[i].valid /\ tokens[i] = t /\ pc[t] = "wait" /\ ~cond[t].ok
           /\ desc[i].args = Current(t)
           /\ free_desc_locked(i) /\ signal(t, desc[i].ret_val)
           /\ InRsp(i)
           /\ n = RspSpan /\ RspSpan' = n - 1
           /\ \A x : InRsp(x)' <=> InRsp(x) /\ x # i
           /\ RspOnce'
<1> USE DEF IInv, Places, Tokens
<1>1. /\ has_response /\ rsp_index_last' = wrapping_add(rsp_index_last)
      /\ rsp_ring' = rsp_ring /\ rsp_index' = rsp_index
  BY DEF PopResponse
<1>2. PICK n \in Nat : n = RspSpan /\ n <= Capacity
  BY SpanTypes
<1>3. /\ rsp_index_last \in RingIndex /\ rsp_index \in RingIndex /\ rsp_ring \in [Index -> Index]
      /\ tokens \in [Index -> Task \cup {NoToken}]
  BY DEF TypeOK
<1>4. PICK i \in Index : i = rsp_ring[Slot(rsp_index_last)]
  BY <1>3, SlotType
<1>5. n = Distance(rsp_index_last, rsp_index) /\ rsp_index_last # rsp_index
  BY <1>1, <1>2 DEF RspSpan, has_response
<1>6. Once(rsp_ring, rsp_index_last, n)
  BY <1>2 DEF RspOnce
<1>7. /\ n \in 1..Capacity
      /\ Distance(wrapping_add(rsp_index_last), rsp_index) = n - 1
      /\ InRing(rsp_ring[Slot(rsp_index_last)], rsp_ring, rsp_index_last, n)
      /\ \A x : InRing(x, rsp_ring, wrapping_add(rsp_index_last), n - 1)
           <=> InRing(x, rsp_ring, rsp_index_last, n) /\ x # rsp_ring[Slot(rsp_index_last)]
      /\ Once(rsp_ring, wrapping_add(rsp_index_last), n - 1)
  BY ONLY <1>2, <1>3, <1>5, <1>6, RingPop, SMTT(30)
<1>8. RspSpan' = n - 1
  BY <1>1, <1>7 DEF RspSpan
<1>9. InRsp(i) /\ \A x : InRsp(x)' <=> InRsp(x) /\ x # i
  BY <1>1, <1>2, <1>4, <1>7, <1>8 DEF InRsp
<1>10. RspOnce'
  BY ONLY <1>1, <1>7, <1>8 DEF RspOnce
<1>11. desc[i].valid
  BY <1>9 DEF Placed
<1>12. PICK t \in Task : /\ tokens[i] = t /\ pc[t] = "wait" /\ ~cond[t].ok
                         /\ desc[i].args = Current(t)
  BY <1>3, <1>11 DEF TokenValid, TokenWaits
<1>13. free_desc_locked(i) /\ signal(t, desc[i].ret_val)
  BY <1>4, <1>11, <1>12, TokenAssumption DEF PopResponse, Deliverable
<1> QED
  BY <1>2, <1>7, <1>8, <1>9, <1>10, <1>11, <1>12, <1>13

\* handle_irq takes the oldest response, frees the descriptor and signals the task.
LEMMA PopResponseStep ==
  ASSUME IInv, PopResponse
  PROVE  IInv'
<1> USE DEF IInv, Places, Tokens, Results
<1>1. PICK i \in Index, n \in 1..Capacity, t \in Task :
        /\ desc[i].valid /\ tokens[i] = t /\ pc[t] = "wait" /\ ~cond[t].ok
        /\ desc[i].args = Current(t)
        /\ free_desc_locked(i) /\ signal(t, desc[i].ret_val)
        /\ InRsp(i)
        /\ n = RspSpan /\ RspSpan' = n - 1
        /\ \A x : InRsp(x)' <=> InRsp(x) /\ x # i
        /\ RspOnce'
  BY PopResponseEffect
<1>2. /\ tokens' = [tokens EXCEPT ![i] = NoToken]
      /\ desc' = [desc EXCEPT ![i].valid = FALSE]
      /\ free_count' = free_count + 1
      /\ cond' = [cond EXCEPT ![t] = [ok |-> TRUE, ret_val |-> desc[i].ret_val]]
  BY <1>1 DEF free_desc_locked, signal
<1>3. /\ rsp_index_last' = wrapping_add(rsp_index_last)
      /\ UNCHANGED <<req_index_shadow, pc, calls, linuxVars, req_ring, rsp_ring, req_index, rsp_index>>
  BY DEF PopResponse
<1> USE DEF linuxVars
<1>4. /\ desc \in [Index -> Descriptor] /\ tokens \in [Index -> Task \cup {NoToken}]
      /\ cond \in [Task -> [ok : BOOLEAN, ret_val : Request \cup {NoReq}]]
      /\ rsp_index_last \in RingIndex /\ jobs \subseteq Job
  BY DEF TypeOK
<1>5. ~InReq(i) /\ ~InJob(i)
  BY <1>1 DEF Apart
<1>6. executed[Current(t)] = 1 /\ desc[i].ret_val = Current(t) /\ Current(t) \in Request
  BY <1>1, CurrentType DEF RspDone
<1>7. /\ \A x \in Index : x # i => desc'[x] = desc[x] /\ tokens'[x] = tokens[x]
      /\ ~desc'[i].valid /\ tokens'[i] = NoToken
  BY ONLY <1>2, <1>4, i \in Index DEF Descriptor
<1>8. /\ cond'[t].ok /\ cond'[t].ret_val = Current(t)
      /\ \A u \in Task : u # t => cond'[u] = cond[u]
  BY ONLY <1>2, <1>4, <1>6, t \in Task
<1>9. \A u \in Task : Current(u)' = Current(u) /\ pc'[u] = pc[u]
  BY <1>3 DEF Current
<1>10. \A x \in Index : x # i /\ tokens[x] # NoToken => tokens[x] \in Task /\ tokens[x] # t
  BY <1>1, <1>4, TokenAssumption DEF TokenOnce
<1>11. Counts'
  <2>1. Free' = Free \cup {i} /\ i \notin Free
    BY <1>1, <1>7 DEF Free
  <2>2. Cardinality(Free') = Cardinality(Free) + 1
    BY <2>1, FreeFinite, FS_AddElement
  <2>3. ReqSpan' = ReqSpan /\ jobs' = jobs
    BY <1>3, ReqFrame
  <2>9. /\ ReqSpan \in Nat /\ RspSpan \in Nat /\ Cardinality(jobs) \in Nat
        /\ free_count \in Nat /\ Capacity \in Nat
        /\ ReqSpan + RspSpan + Cardinality(jobs) + free_count = Capacity
        /\ IsFiniteSet(jobs) /\ free_count = Cardinality(Free)
    BY SpanTypes DEF Counts
  <2> QED
    BY ONLY <1>1, <1>2, <2>2, <2>3, <2>9 DEF Counts
<1>12. TypeOK'
  <2>1. wrapping_add(rsp_index_last) \in RingIndex
    BY <1>4, WrapStep
  <2>2. desc' \in [Index -> Descriptor]
    BY ONLY <1>2, <1>4 DEF Descriptor
  <2>3. cond' \in [Task -> [ok : BOOLEAN, ret_val : Request \cup {NoReq}]]
    BY ONLY <1>2, <1>4, <1>6
  <2>4. tokens' \in [Index -> Task \cup {NoToken}]
    BY ONLY <1>2, <1>4
  <2>5. free_count' \in 0..Capacity
    BY <1>1, <1>2, SpanTypes DEF Counts
  <2> QED
    BY <1>3, <2>1, <2>2, <2>3, <2>4, <2>5 DEF TypeOK
<1>13. Indices'
  BY <1>3 DEF Indices
<1>14. ReqOnce' /\ RspOnce' /\ JobOnce'
  BY <1>1, <1>3, ReqFrame, JobFrame
<1>15. Apart' /\ Placed'
  BY <1>1, <1>3, <1>5, <1>7, ReqFrame, JobFrame DEF Apart, Placed
<1>16. TokenValid' /\ TokenOnce'
  BY <1>7 DEF TokenValid, TokenOnce
<1>17. TokenWaits'
  <2> SUFFICES ASSUME NEW x \in Index, tokens'[x] # NoToken
               PROVE  /\ pc'[tokens'[x]] = "wait" /\ ~cond'[tokens'[x]].ok
                      /\ desc'[x].args = Current(tokens'[x])
    BY <1>3 DEF TokenWaits, Current
  <2>1. x # i /\ tokens'[x] = tokens[x] /\ tokens[x] \in Task /\ tokens[x] # t /\ desc'[x] = desc[x]
    BY <1>7, <1>10
  <2> QED
    BY <1>8, <1>9, <2>1 DEF TokenWaits
<1>18. CondFresh'
  BY <1>1, <1>8, <1>9 DEF CondFresh
<1>19. ReqFresh'
  BY <1>3, <1>5, <1>7, ReqFrame DEF ReqFresh
<1>20. RspDone'
  BY <1>1, <1>3, <1>7 DEF RspDone
<1>21. JobResult'
  <2>1. \A j \in jobs : j.idx \in Index /\ j.idx # i
    BY <1>4, <1>5 DEF Job, InJob
  <2> QED
    BY <1>3, <1>7, <2>1 DEF JobResult
<1>22. SendFresh' /\ AtMostOnce'
  BY <1>3, <1>9 DEF SendFresh, AtMostOnce
<1>23. ReturnsOwnResult'
  BY <1>3, <1>6, <1>8, <1>9 DEF ReturnsOwnResult
<1> QED
  BY <1>11, <1>12, <1>13, <1>14, <1>15, <1>16, <1>17, <1>18, <1>19, <1>20, <1>21, <1>22, <1>23

-----------------------------------------------------------------------------
(* The theorems *)

\* A step that changes nothing preserves the invariant.
LEMMA StutterStep == IInv /\ UNCHANGED vars => IInv'
<1> SUFFICES ASSUME IInv, UNCHANGED vars PROVE IInv'
  OBVIOUS
<1> USE DEF IInv, vars, nimbosVars, linuxVars, sharedVars
<1>1. TypeOK' /\ Indices'
  BY DEF TypeOK, Indices
<1>2. Counts' /\ Places' /\ Tokens'
  BY BufferFrame, TokenFrame
<1>3. ReqFresh' /\ RspDone' /\ JobResult'
  BY ReqFrame, RspFrame DEF Results, ReqFresh, RspDone, JobResult
<1>4. SendFresh' /\ ReturnsOwnResult' /\ AtMostOnce'
  BY CallFrame DEF Results
<1> QED
  BY <1>1, <1>2, <1>3, <1>4 DEF Results

\* Every step of NimbOS or of the shadow process keeps the invariant.
LEMMA NextIInv == IInv /\ [Next]_vars => IInv'
<1> SUFFICES ASSUME IInv, [Next]_vars PROVE IInv'
  OBVIOUS
<1>1. ASSUME NEW t \in Task, SysCall(t) PROVE IInv'
  BY <1>1, SysCallStep
<1>2. ASSUME NEW t \in Task, Return(t) PROVE IInv'
  BY <1>2, ReturnStep
<1>3. ASSUME NEW t \in Task, NEW op \in Opcode, Send(t, op) PROVE IInv'
  BY <1>3, SendStep
<1>4. CASE PopResponse
  BY <1>4, PopResponseStep
<1>5. CASE Setup
  BY <1>5, SetupStep
<1>6. CASE PopRequest
  BY <1>6, PopRequestStep
<1>7. ASSUME NEW j \in jobs, Execute(j) PROVE IInv'
  BY <1>7, ExecuteStep
<1>8. ASSUME NEW j \in jobs, PushResponse(j) PROVE IInv'
  BY <1>8, PushResponseStep
<1>9. CASE UNCHANGED vars
  BY <1>9, StutterStep
<1> QED
  BY <1>1, <1>2, <1>3, <1>4, <1>5, <1>6, <1>7, <1>8, <1>9 DEF Next

\* IInv holds in every reachable state, for every capacity, index width and set of
\* tasks.
THEOREM Invariance == Spec => []IInv
BY InitIInv, NextIInv, PTL DEF Spec

\* Every variable keeps its type; in particular the ring indices stay u16 values
\* and free_count neither underflows nor exceeds the capacity.
THEOREM TypeCorrect == Spec => []TypeOK
<1>1. IInv => TypeOK
  BY DEF IInv
<1> QED
  BY <1>1, Invariance, PTL

\* free_count is the number of descriptors that are not valid, so the unwrap of
\* find_free_desc_locked in send_locked never fails.
THEOREM FreeCountIsExact == Spec => []FreeCountExact
<1>1. IInv => FreeCountExact
  BY DEF IInv, Counts, FreeCountExact
<1> QED
  BY <1>1, Invariance, PTL

\* Every descriptor in use is in exactly one of the two rings and the jobs of the
\* shadow process, and the four counts add up to the capacity.
THEOREM EveryDescriptorInOnePlace == Spec => []OnePlacePerDescriptor
<1>1. IInv => OnePlacePerDescriptor
  BY DEF IInv, Counts, Places, Placed, InReq, InRsp, InJob, InRing, ReqAt, RspAt,
         OnePlacePerDescriptor
<1> QED
  BY <1>1, Invariance, PTL

\* handle_irq only ever signals a condition variable whose task is waiting on it.
THEOREM TokensAlwaysWait == Spec => []TokensAreWaiting
<1>1. IInv => TokensAreWaiting
  BY TokenAssumption DEF IInv, Tokens, TokenValid, TokenWaits, TokensAreWaiting
<1> QED
  BY <1>1, Invariance, PTL

\* A forwarded call returns what Linux computed for this call.
THEOREM CallsReturnTheirResult == Spec => []ReturnsOwnResult
<1>1. IInv => ReturnsOwnResult
  BY DEF IInv, Results
<1> QED
  BY <1>1, Invariance, PTL

\* The shadow process carries out no forwarded call twice.
THEOREM ExecutedAtMostOnce == Spec => []AtMostOnce
<1>1. IInv => AtMostOnce
  BY DEF IInv, Results
<1> QED
  BY <1>1, Invariance, PTL

\* Every response handle_irq takes off the ring wakes the task that waits for it.
THEOREM EveryResponseWakes == Spec => NoResponseDropped
<1> DEFINE Wakes == rsp_index_last' # rsp_index_last =>
                      \E t \in Task : pc[t] = "wait" /\ ~cond[t].ok /\ cond'[t].ok
<1>1. IInv /\ [Next]_vars => [Wakes]_vars
  <2> SUFFICES ASSUME IInv, Next, rsp_index_last' # rsp_index_last
               PROVE  \E t \in Task : pc[t] = "wait" /\ ~cond[t].ok /\ cond'[t].ok
    OBVIOUS
  <2>1. PopResponse
    BY DEF Next, SysCall, Return, Send, send_locked, Setup, PopRequest, Execute, PushResponse,
           nimbosVars
  <2>2. PICK i \in Index, t \in Task : /\ pc[t] = "wait" /\ ~cond[t].ok
                                       /\ signal(t, desc[i].ret_val)
    BY <2>1, PopResponseEffect
  <2>3. cond'[t].ok
    BY <2>2 DEF signal, IInv, TypeOK
  <2> QED
    BY <2>2, <2>3
<1> QED
  BY <1>1, Invariance, PTL DEF Spec, NoResponseDropped

=============================================================================
