----------------------------- MODULE UintrProofs ----------------------------
(***************************************************************************)
(* For any tasks, senders and vectors: registers stay with their task, and *)
(* a task with one vector below 31 is owed just what is in its UPID.       *)
(***************************************************************************)
EXTENDS Uintr, FiniteSetTheorems, SequenceTheorems, TLAPS

\* what the registers of a task that has c in them are
Own(t, c) ==
  /\ c.pd = IF t \in Task /\ upid[t] # None THEN t ELSE None
  /\ c.tt = IF t \in Task /\ uitt[t] # <<>> THEN t ELSE None

\* The strengthening: the saved registers of the others are theirs as well, and an
\* entry of a table points to a UPID.
IInv ==
  /\ TypeOK
  /\ Own(current, msr)
  /\ \A t \in Task \cup {root} : t # current => Own(t, frame[t])
  /\ \A t \in Task : \A i \in 1..Len(uitt[t]) : upid[uitt[t][i].to] # None
  /\ PostedIsOwed

\* Nobody can send to a task without a UPID.
NothingOwed == \A t \in Task : upid[t] = None => owed[t] = {}

\* A single vector is the highest one.
LEMMA MaxSingleton == ASSUME NEW v \in Int PROVE Max({v}) = v
BY DEF Max

\* Vectors below 31 are the numbers of their bits in PUIR; no vector sets a bit that
\* PUIR does not have.
LEMMA Shift ==
  ASSUME NEW v \in 0..255
  PROVE  /\ ShiftedBits(v) \subseteq 0..63
         /\ v \in 0..30 => ShiftedBits(v) = {v}
BY DEF ShiftedBits

\* The vector of a link is one of its receiver's.
LEMMA LinkType ==
  ASSUME NEW l \in Link
  PROVE  l.to \in Task /\ l.vec \in 0..255 /\ l.vec \in Vector(l.to)
BY LinkAssumption DEF Vector

\* PUIR holds bits of the vectors of its task.
BitsOf(t, p) == \A n \in p : \E v \in Vector(t) : n \in ShiftedBits(v)

\* Where no vector is above 30 these bits are vectors of the task.
LEMMA LowBits ==
  ASSUME NEW t, NEW p, BitsOf(t, p), Vector(t) \subseteq 0..30
  PROVE  p \subseteq Vector(t)
<1>1. \A v \in Vector(t) : ShiftedBits(v) = {v}
    BY Shift
<1> QED
    BY <1>1 DEF BitsOf

\* Before anything is registered all registers are clear.
LEMMA InitIInv == Init => IInv
<1> SUFFICES ASSUME Init PROVE IInv
    OBVIOUS
<1> USE TaskAssumption DEF Init
<1>1. NoUintr \in Context
    BY DEF NoUintr, Context
<1>0. ready \in Seq(Task \cup {root})
  <2>1. Cardinality(Task) \in Nat
      BY FS_CardinalityType
  <2>2. ready \in [1..Cardinality(Task) -> Task \cup {root}]
      OBVIOUS
  <2> QED
      BY ONLY <2>1, <2>2, SeqDef
<1>2. TypeOK
  <2>1. \A t \in Task : uitt[t] = <<>>
      OBVIOUS
  <2>2. uitt \in [Task -> Seq(Link)] /\ \A t \in Task : Len(uitt[t]) <= MaxUitt
      BY <2>1
  <2> QED
      BY <1>0, <1>1, <2>2 DEF TypeOK
<1>3. \A t \in Task \cup {root} : Own(t, NoUintr)
    BY DEF Own, NoUintr
<1>4. PostedIsOwed
    BY DEF PostedIsOwed
<1> QED
    BY <1>2, <1>3, <1>4 DEF IInv

-----------------------------------------------------------------------------
\* A step that leaves UPIDs, tables and debts alone and keeps or switches registers.
LEMMA SwitchStep ==
  ASSUME IInv, NEW next \in Task \cup {root}, NEW rest \in Seq(Task \cup {root}),
         switch_to(next, rest)
  PROVE  IInv'
<1> USE DEF IInv, switch_to
<1>1. TypeOK'
  <2>1. msr' \in Context /\ frame' \in [Task \cup {root} -> Context]
      BY DEF TypeOK
  <2>2. ipi' \in BOOLEAN
      BY Zenon DEF TypeOK, pending
  <2> QED
      BY <2>1, <2>2 DEF TypeOK
<1>3. Own(current, msr)' /\ \A t \in Task \cup {root} : t # current' => Own(t, frame[t])'
  <2>1. CASE next = current
    <3>1. UNCHANGED <<current, msr, frame, upid, uitt>>
        BY <2>1
    <3> QED
        BY <3>1 DEF Own
  <2>2. CASE next # current
    <3>1. current' = next /\ msr' = frame[next] /\ frame' = [frame EXCEPT ![current] = msr]
        BY <2>2
    <3>2. \A t \in Task \cup {root} : t # next => frame'[t] = IF t = current THEN msr ELSE frame[t]
        BY <3>1 DEF TypeOK
    <3>3. Own(next, frame[next])
        BY <2>2
    <3>4. \A t \in Task \cup {root} : t # next => Own(t, frame'[t])
        BY <3>2
    <3> QED
        BY <3>1, <3>3, <3>4 DEF Own
  <2> QED
      BY <2>1, <2>2
<1>4. PostedIsOwed'
    BY DEF PostedIsOwed
<1> QED
    BY <1>1, <1>3, <1>4

\* Posting a vector adds it to what is posted and to what is owed.
LEMMA PostStep ==
  ASSUME IInv, NEW l \in Link, upid[l.to] # None, Post(l),
         UNCHANGED <<taskVars, uitt>>, ipi' \in BOOLEAN, sending' \subseteq Remote
  PROVE  IInv'
<1> USE DEF IInv, taskVars
<1>1. l.to \in Task /\ l.vec \in 0..255 /\ l.vec \in Vector(l.to)
    BY LinkType
<1> DEFINE u == [on |-> TRUE, puir |-> upid[l.to].puir \cup ShiftedBits(l.vec)]
<1>2. upid[l.to].puir \subseteq 0..63 /\ BitsOf(l.to, upid[l.to].puir)
    BY <1>1, ZenonT(40) DEF TypeOK, Upid, BitsOf
<1>b. ShiftedBits(l.vec) \subseteq 0..63
    BY <1>1, Shift
<1>a. u \in Upid /\ u.puir = upid[l.to].puir \cup ShiftedBits(l.vec)
    BY <1>1, <1>2, <1>b DEF Upid
<1>0. u # None
    BY <1>a, TaskAssumption
<1>3. /\ upid' \in [Task -> Upid \cup {None}]
      /\ owed' \in [Task -> SUBSET (0..255)]
  <2>1. /\ upid' = [upid EXCEPT ![l.to] = u]
        /\ owed' = [owed EXCEPT ![l.to] = owed[l.to] \cup {l.vec}]
      BY DEF Post
  <2>2. /\ upid \in [Task -> Upid \cup {None}] /\ owed \in [Task -> SUBSET (0..255)]
        /\ owed[l.to] \cup {l.vec} \in SUBSET (0..255)
      BY <1>1, ZenonT(40) DEF TypeOK
  <2> QED
      BY ONLY <1>a, <1>1, <2>1, <2>2
<1>4. /\ upid'[l.to] = u
      /\ owed'[l.to] = owed[l.to] \cup {l.vec}
      /\ \A t \in Task : t # l.to => upid'[t] = upid[t] /\ owed'[t] = owed[t]
    BY <1>1, Zenon DEF TypeOK, Post
<1> HIDE DEF u
<1>5. \A t \in Task : upid'[t] # None <=> upid[t] # None
    BY <1>0, <1>1, <1>4
<1>6. TypeOK'
  <2>1. BitsOf(l.to, u.puir)
      BY <1>a, <1>1, <1>2 DEF BitsOf
  <2>2. \A t \in Task : upid'[t] # None => BitsOf(t, upid'[t].puir)
      BY <1>4, <2>1 DEF TypeOK, BitsOf
  <2> QED
      BY <1>3, <2>2 DEF TypeOK, BitsOf
<1>7. Own(current, msr)' /\ \A t \in Task \cup {root} : t # current' => Own(t, frame[t])'
    BY <1>5 DEF Own
<1>8. \A t \in Task : \A i \in 1..Len(uitt[t]) : upid'[uitt[t][i].to] # None
  <2>1. \A t \in Task : \A i \in 1..Len(uitt[t]) : uitt[t][i].to \in Task
      BY LinkType DEF TypeOK
  <2> QED
      BY <1>5, <2>1
<1>9. PostedIsOwed'
  <2> SUFFICES ASSUME NEW t \in Task, upid'[t] # None, Vector(t) \subseteq 0..30
               PROVE  /\ upid'[t].puir \subseteq owed'[t]
                      /\ (\E v \in Vector(t) : Vector(t) = {v}) => owed'[t] = upid'[t].puir
      BY DEF PostedIsOwed
  <2>1. CASE t = l.to
    <3>0. ShiftedBits(l.vec) = {l.vec}
        BY <1>1, <2>1, Shift, ZenonT(40)
    <3>1. upid'[t].puir = upid[t].puir \cup {l.vec} /\ owed'[t] = owed[t] \cup {l.vec}
        BY <1>a, <1>4, <2>1, <3>0
    <3> QED
        BY <3>1, <2>1, SMTT(20) DEF PostedIsOwed
  <2>2. CASE t # l.to
      BY <1>4, <2>2 DEF PostedIsOwed
  <2> QED
      BY <2>1, <2>2
<1> QED
    BY <1>6, <1>7, <1>8, <1>9

\* A delivery takes from the running task what it is owed, and only from it.
LEMMA DeliverStep == IInv /\ deliver => IInv'
<1> SUFFICES ASSUME IInv, deliver PROVE IInv'
    OBVIOUS
<1> USE DEF IInv, deliver
<1>1. current \in Task /\ upid[current] # None /\ msr.pd = current
    BY DEF Own
<1> DEFINE p == upid[current].puir
<1> DEFINE u == [on |-> FALSE, puir |-> {}]
<1>a. u \in Upid /\ u.puir = {}
    BY DEF Upid
<1>0. u # None
    BY <1>a, TaskAssumption
<1>2. Vector(current) \subseteq 0..30 => p \subseteq Vector(current)
    BY <1>1, LowBits DEF TypeOK, BitsOf
<1>3. /\ upid' = [upid EXCEPT ![current] = u]
      /\ \/ p = {} /\ UNCHANGED <<msr, owed>>
         \/ /\ p # {} /\ msr' = [msr EXCEPT !.uif = FALSE]
            /\ owed' = [owed EXCEPT ![current] = @ \ {Max(p)}]
    BY <1>1 DEF helper_rrnzero
<1>4. /\ upid' \in [Task -> Upid \cup {None}]
      /\ owed' \in [Task -> SUBSET (0..255)]
  <2>1. upid' \in [Task -> Upid \cup {None}]
      BY <1>a, <1>1, <1>3 DEF TypeOK
  <2>2. owed[current] \subseteq 0..255 /\ owed \in [Task -> SUBSET (0..255)]
      BY <1>1, Zenon DEF TypeOK
  <2>3. owed' \in [Task -> SUBSET (0..255)]
      BY ONLY <1>1, <1>3, <2>2
  <2> QED
      BY <2>1, <2>3
<1> HIDE DEF u
<1>5. /\ upid'[current] = u
      /\ \A t \in Task : t # current => upid'[t] = upid[t] /\ owed'[t] = owed[t]
    BY <1>1, <1>3 DEF TypeOK
<1>6. \A t \in Task : upid'[t] # None <=> upid[t] # None
    BY <1>0, <1>1, <1>5
<1>7. TypeOK'
  <2>1. msr' \in Context
      BY <1>3, ZenonT(40) DEF TypeOK, Context
  <2>2. \A t \in Task : upid'[t] # None => BitsOf(t, upid'[t].puir)
      BY <1>a, <1>5 DEF TypeOK, BitsOf
  <2> QED
      BY <1>4, <2>1, <2>2 DEF TypeOK, BitsOf
<1>8. Own(current, msr)' /\ \A t \in Task \cup {root} : t # current' => Own(t, frame[t])'
  <2>1. msr'.pd = msr.pd /\ msr'.tt = msr.tt
      BY <1>3 DEF TypeOK, Context
  <2> QED
      BY <1>1, <1>6, <2>1, TaskAssumption DEF Own
<1>9. \A t \in Task : \A i \in 1..Len(uitt[t]) : upid'[uitt[t][i].to] # None
  <2>1. \A t \in Task : \A i \in 1..Len(uitt[t]) : uitt[t][i].to \in Task
      BY LinkType DEF TypeOK
  <2> QED
      BY <1>6, <2>1, SMTT(20)
<1>10. ASSUME NEW v \in Vector(current), Vector(current) = {v}, Vector(current) \subseteq 0..30
       PROVE  owed'[current] = {}
  <2>1. owed[current] = p
      BY <1>1, <1>10 DEF PostedIsOwed
  <2>2. CASE p = {}
      BY <1>3, <2>1, <2>2
  <2>3. CASE p # {}
    <3>1. p = {v} /\ v \in Int
        BY <1>2, <1>10, <2>3, SMTT(20)
    <3>2. Max(p) = v
        BY <3>1, MaxSingleton
    <3> QED
        BY <1>1, <1>3, <2>1, <2>3, <3>1, <3>2, Zenon DEF TypeOK
  <2> QED
      BY <2>2, <2>3
<1>11. PostedIsOwed'
  <2> SUFFICES ASSUME NEW t \in Task, upid'[t] # None, Vector(t) \subseteq 0..30
               PROVE  /\ upid'[t].puir \subseteq owed'[t]
                      /\ (\E v \in Vector(t) : Vector(t) = {v}) => owed'[t] = upid'[t].puir
      BY DEF PostedIsOwed
  <2>1. CASE t = current
      BY <1>a, <1>5, <1>10, <2>1
  <2>2. CASE t # current
      BY <1>5, <2>2 DEF PostedIsOwed
  <2> QED
      BY <2>1, <2>2
<1> QED
    BY <1>7, <1>8, <1>9, <1>11

\* A delivery without a UPID only touches UIF.
LEMMA NowhereStep == IInv /\ deliver_nowhere => IInv'
<1> SUFFICES ASSUME IInv, deliver_nowhere PROVE IInv'
    OBVIOUS
<1>1. msr' \in Context /\ msr'.pd = msr.pd /\ msr'.tt = msr.tt
    BY ZenonT(40) DEF IInv, TypeOK, Context, deliver_nowhere
<1> QED
    BY <1>1, ZenonT(40) DEF IInv, TypeOK, Own, PostedIsOwed, deliver_nowhere

\* A new UPID has nothing in it, and the task has never been sent anything.
LEMMA HandlerStep == IInv /\ NothingOwed /\ uintr_register_handler => IInv'
<1> SUFFICES ASSUME IInv, NothingOwed, uintr_register_handler PROVE IInv'
    OBVIOUS
<1> USE DEF IInv, uintr_register_handler, Runs
<1> DEFINE u == [on |-> FALSE, puir |-> {}]
<1>1. u \in Upid /\ u.puir = {}
    BY DEF Upid
<1>2. u # None /\ current \in Task
    BY <1>1, TaskAssumption
<1>3. /\ upid' = [upid EXCEPT ![current] = u]
      /\ msr' = [msr EXCEPT !.pd = current]
    OBVIOUS
<1> HIDE DEF u
<1>4. upid' \in [Task -> Upid \cup {None}]
    BY <1>1, <1>2, <1>3, ZenonT(40) DEF TypeOK
<1>5. upid'[current] = u /\ \A t \in Task : t # current => upid'[t] = upid[t]
    BY <1>2, <1>3 DEF TypeOK
<1>6. msr' \in Context /\ msr'.pd = current /\ msr'.tt = msr.tt
    BY <1>2, <1>3, Zenon DEF TypeOK, Context
<1>7. TypeOK'
    BY <1>1, <1>4, <1>5, <1>6 DEF TypeOK
<1>8. Own(current, msr)' /\ \A t \in Task \cup {root} : t # current' => Own(t, frame[t])'
    BY <1>2, <1>5, <1>6, TaskAssumption, Zenon DEF Own
<1>9. \A t \in Task : \A i \in 1..Len(uitt[t]) : upid'[uitt[t][i].to] # None
  <2>1. \A t \in Task : \A i \in 1..Len(uitt[t]) : uitt[t][i].to \in Task
      BY LinkType DEF TypeOK
  <2> QED
      BY <1>2, <1>5, <2>1
<1>10. PostedIsOwed'
    BY <1>1, <1>2, <1>5, ZenonT(40) DEF PostedIsOwed, NothingOwed
<1> QED
    BY <1>7, <1>8, <1>9, <1>10

\* A new entry points to a UPID, and the table is in the registers from now on.
LEMMA SenderStep ==
  ASSUME IInv, NEW l \in Link, uintr_register_sender(l) PROVE IInv'
<1> USE DEF IInv, uintr_register_sender, Runs
<1>1. /\ uitt' \in [Task -> Seq(Link)] /\ \A t \in Task : Len(uitt'[t]) <= MaxUitt
      /\ uitt'[current] = Append(uitt[current], l) /\ uitt'[current] # <<>>
      /\ \A t \in Task : t # current => uitt'[t] = uitt[t]
  <2>1. /\ current \in Task /\ uitt[current] \in Seq(Link) /\ Len(uitt[current]) < MaxUitt
        /\ Len(uitt[current]) \in Nat /\ MaxUitt \in Nat
      BY TaskAssumption DEF TypeOK
  <2> DEFINE q == Append(uitt[current], l)
  <2>2. q \in Seq(Link) /\ Len(q) = Len(uitt[current]) + 1 /\ q # <<>>
      BY <2>1
  <2>3. uitt' = [uitt EXCEPT ![current] = q]
      OBVIOUS
  <2> HIDE DEF q
  <2>4. /\ uitt' \in [Task -> Seq(Link)] /\ uitt'[current] = q
        /\ \A t \in Task : t # current => uitt'[t] = uitt[t]
      BY <2>1, <2>2, <2>3 DEF TypeOK
  <2>5. Len(q) <= MaxUitt
      BY <2>1, <2>2
  <2>6. \A t \in Task : Len(uitt'[t]) <= MaxUitt
      BY <2>4, <2>5 DEF TypeOK
  <2> QED
      BY <2>2, <2>4, <2>6 DEF q
<1>2. msr' \in Context /\ msr'.tt = current /\ msr'.pd = msr.pd /\ msr'.uif = msr.uif
    BY DEF TypeOK, Context
<1>3. TypeOK'
    BY <1>1, <1>2, Zenon DEF TypeOK
<1>4. Own(current, msr)' /\ \A t \in Task \cup {root} : t # current' => Own(t, frame[t])'
    BY <1>1, <1>2 DEF Own
<1>5. \A t \in Task : \A i \in 1..Len(uitt'[t]) : upid[uitt'[t][i].to] # None
  <2> SUFFICES ASSUME NEW t \in Task, NEW i \in 1..Len(uitt'[t])
               PROVE  upid[uitt'[t][i].to] # None
      OBVIOUS
  <2>1. CASE t # current
      BY <1>1, <2>1
  <2>2. CASE t = current
    <3>1. uitt[t] \in Seq(Link)
        BY DEF TypeOK
    <3>2. uitt'[t][i] = l \/ (i \in 1..Len(uitt[t]) /\ uitt'[t][i] = uitt[t][i])
        BY <1>1, <2>2, <3>1
    <3> QED
        BY <3>2
  <2> QED
      BY <2>1, <2>2
<1>6. PostedIsOwed'
    BY DEF PostedIsOwed
<1> QED
    BY <1>3, <1>4, <1>5, <1>6

\* One step per action.
LEMMA NextIInv == IInv /\ NothingOwed /\ [Next]_vars => IInv'
<1> SUFFICES ASSUME IInv, NothingOwed, [Next]_vars PROVE IInv'
    OBVIOUS
<1>1. ASSUME yield_current PROVE IInv'
  <2> DEFINE q == Append(ready, current)
  <2>1. q \in Seq(Task \cup {root}) /\ q # <<>>
      BY SMTT(20) DEF IInv, TypeOK
  <2>2. Head(q) \in Task \cup {root} /\ Tail(q) \in Seq(Task \cup {root})
      BY <2>1
  <2>3. switch_to(Head(q), Tail(q))
      BY <1>1 DEF yield_current
  <2> QED
      BY <2>2, <2>3, SwitchStep
<1>2. ASSUME SysEnter \/ SysExit PROVE IInv'
  <2>1. UNCHANGED <<current, ready, msr, frame, upid, uitt, ipi, sending, owed>>
      BY <1>2 DEF SysEnter, SysExit
  <2>2. where' \in [Task \cup {root} -> {"user", "kernel"}]
      BY <1>2 DEF IInv, TypeOK, SysEnter, SysExit
  <2> QED
      BY <2>1, <2>2, ZenonT(40) DEF IInv, TypeOK, Own, PostedIsOwed
<1>3. ASSUME uintr_register_handler PROVE IInv'
    BY <1>3, HandlerStep
<1>4. ASSUME NEW l \in Link, uintr_register_sender(l) PROVE IInv'
    BY <1>4, SenderStep
<1>5. ASSUME NEW i \in 1..MaxUitt, senduipi(i) PROVE IInv'
  <2> DEFINE l == uitt[msr.tt][i]
  <2>1. msr.tt \in Task /\ i \in 1..Len(uitt[msr.tt]) /\ uitt[msr.tt] \in Seq(Link)
      BY <1>5 DEF senduipi, IInv, TypeOK, Context
  <2>2. l \in Link /\ upid[l.to] # None
      BY <2>1 DEF IInv
  <2>3. /\ Post(l) /\ ipi' = ~upid[l.to].on /\ UNCHANGED <<taskVars, uitt>>
        /\ sending' = sending
      BY <1>5 DEF senduipi
  <2>4. ipi' \in BOOLEAN /\ sending' \subseteq Remote
      BY <2>3 DEF IInv, TypeOK
  <2> QED
      BY <2>2, <2>3, <2>4, PostStep, SMTT(20)
<1>6. ASSUME NEW l \in Link, RemotePost(l) PROVE IInv'
  <2>1. ipi' \in BOOLEAN /\ sending' \subseteq Remote
      BY <1>6, SMTT(20) DEF RemotePost, IInv, TypeOK
  <2> QED
      BY <1>6, <2>1, PostStep DEF RemotePost
<1>7. ASSUME NEW r \in Remote, send_ipi(r) PROVE IInv'
    BY <1>7, ZenonT(40) DEF IInv, TypeOK, Own, PostedIsOwed, send_ipi, taskVars
<1>8. ASSUME deliver PROVE IInv'
    BY <1>8, DeliverStep
<1>13. ASSUME deliver_nowhere PROVE IInv'
    BY <1>13, NowhereStep
<1>9. ASSUME drop PROVE IInv'
    BY <1>9, ZenonT(40) DEF IInv, TypeOK, Own, PostedIsOwed, drop, taskVars
<1>10. ASSUME stui PROVE IInv'
  <2>1. msr' \in Context /\ msr'.pd = msr.pd /\ msr'.tt = msr.tt
      BY <1>10 DEF IInv, TypeOK, Context, stui
  <2> QED
      BY <1>10, <2>1, ZenonT(40) DEF IInv, TypeOK, Own, PostedIsOwed, stui
<1>11. ASSUME clui PROVE IInv'
  <2>1. msr' \in Context /\ msr'.pd = msr.pd /\ msr'.tt = msr.tt
      BY <1>11 DEF IInv, TypeOK, Context, clui
  <2> QED
      BY <1>11, <2>1, ZenonT(40) DEF IInv, TypeOK, Own, PostedIsOwed, clui
<1>12. ASSUME UNCHANGED vars PROVE IInv'
    BY <1>12, ZenonT(40) DEF IInv, TypeOK, Own, PostedIsOwed, vars, taskVars
<1> QED
    BY <1>1, <1>2, <1>3, <1>4, <1>5, <1>6, <1>7, <1>8, <1>9, <1>10, <1>11, <1>12, <1>13, SMTT(20)
       DEF Next

\* Sending takes a UPID, and a delivery only takes from what is owed.
LEMMA NextNothingOwed == IInv /\ NothingOwed /\ [Next]_vars => NothingOwed'
<1> SUFFICES ASSUME IInv, NothingOwed, [Next]_vars, NEW t \in Task, upid'[t] = None
             PROVE  owed'[t] = {}
    BY DEF NothingOwed
<1>1. ASSUME uintr_register_handler PROVE owed'[t] = {}
  <2>1. [on |-> FALSE, puir |-> {}] \in Upid
      BY DEF Upid
  <2> QED
      BY <1>1, <2>1, TaskAssumption DEF uintr_register_handler, Runs, NothingOwed, IInv, TypeOK
<1>2. ASSUME NEW l \in Link, upid[l.to] # None, Post(l) PROVE owed'[t] = {}
  <2>0. l.to \in Task /\ l.vec \in 0..255
      BY LinkType
  <2>1. ShiftedBits(l.vec) \subseteq 0..63 /\ upid[l.to].puir \subseteq 0..63
    <3>1. ShiftedBits(l.vec) \subseteq 0..63
        BY <2>0, Shift
    <3>2. upid[l.to].puir \subseteq 0..63
        BY <1>2, <2>0, ZenonT(40) DEF IInv, TypeOK, Upid
    <3> QED
        BY <3>1, <3>2
  <2>2. [on |-> TRUE, puir |-> upid[l.to].puir \cup ShiftedBits(l.vec)] \in Upid
      BY <2>1 DEF Upid
  <2> QED
      BY <1>2, <2>0, <2>2, TaskAssumption, ZenonT(40) DEF Post, NothingOwed, IInv, TypeOK
<1>3. ASSUME NEW i \in 1..MaxUitt, senduipi(i) PROVE owed'[t] = {}
  <2>1. msr.tt \in Task /\ i \in 1..Len(uitt[msr.tt]) /\ uitt[msr.tt] \in Seq(Link)
      BY <1>3 DEF senduipi, IInv, TypeOK, Context
  <2>2. uitt[msr.tt][i] \in Link /\ upid[uitt[msr.tt][i].to] # None
      BY <2>1 DEF IInv
  <2> QED
      BY <1>2, <1>3, <2>2 DEF senduipi
<1>4. ASSUME NEW l \in Link, RemotePost(l) PROVE owed'[t] = {}
    BY <1>2, <1>4 DEF RemotePost
<1>5. ASSUME deliver PROVE owed'[t] = {}
  <2>1. current \in Task /\ upid[current] # None /\ msr.pd = current
      BY <1>5 DEF IInv, Own, deliver
  <2>2. [on |-> FALSE, puir |-> {}] \in Upid
      BY DEF Upid
  <2>3. t # current /\ upid[t] = None
      BY <1>5, <2>1, <2>2, TaskAssumption, Zenon DEF deliver, IInv, TypeOK
  <2> QED
      BY <1>5, <2>1, <2>3 DEF deliver, helper_rrnzero, NothingOwed, IInv, TypeOK
<1>6. ASSUME UNCHANGED <<upid, owed>> PROVE owed'[t] = {}
    BY <1>6 DEF NothingOwed
<1> QED
    BY <1>1, <1>3, <1>4, <1>5, <1>6
       DEF Next, vars, yield_current, switch_to, SysEnter, SysExit, uintr_register_sender,
           send_ipi, deliver_nowhere, drop, stui, clui

\* Spec keeps the inductive invariant.
LEMMA Inductive == Spec => [](IInv /\ NothingOwed)
<1>1. Init => NothingOwed
    BY DEF Init, NothingOwed
<1> QED
    BY <1>1, InitIInv, NextIInv, NextNothingOwed, PTL DEF Spec

\* Types: no UITT outgrows UINTR_MAX_UITT_NR, and PUIR holds the shifted bits of vectors
\* that were registered for the task (uintr.rs, context.rs, misc_helper.c).
THEOREM TypeCorrect == Spec => []TypeOK
<1>1. IInv => TypeOK
    BY DEF IInv
<1> QED
    BY <1>1, Inductive, PTL

\* The context switch (context.rs) leaves the running task with its own UPID and UITT,
\* however many tasks there are and whenever they registered.
THEOREM RegistersStay == Spec => []RegistersOfCurrent
<1>1. IInv => RegistersOfCurrent
    BY DEF IInv, Own, RegistersOfCurrent
<1> QED
    BY <1>1, Inductive, PTL

\* Posting and delivering (senduipi, do_interrupt64) lose, duplicate and misdirect
\* nothing for a task with one vector below 31, for any tasks and senders.
THEOREM NothingLost == Spec => []PostedIsOwed
<1>1. IInv => PostedIsOwed
    BY DEF IInv
<1> QED
    BY <1>1, Inductive, PTL
=============================================================================
