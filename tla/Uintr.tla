------------------------------- MODULE Uintr --------------------------------
(***************************************************************************)
(* User interrupts on the CPU of NimbOS: registration (syscall/uintr.rs),  *)
(* the context switch with its self-IPI (context.rs, manager.rs), and the  *)
(* instructions and the delivery of vector 0xec as the patched QEMU has    *)
(* them (misc_helper.c, seg_helper.c).                                     *)
(*                                                                         *)
(* A notification that finds the CPU in the kernel, UIF clear or another   *)
(* task running is consumed, while ON keeps the next one from being sent.  *)
(* What makes up for it is the look at PUIR after every context switch.    *)
(*                                                                         *)
(* QEMU holds its iothread lock in senduipi and in the delivery of an      *)
(* interrupt, so each is one step; the IPI leaves after the unlock.  A     *)
(* switch runs with interrupts off up to the return to where the resumed   *)
(* task was.                                                               *)
(***************************************************************************)
EXTENDS Integers, Sequences, FiniteSets, FiniteSetsExt

CONSTANTS
  Task,    \* the user tasks
  root,    \* the root task, a kernel task that is always ready
  Link,    \* what is sent: records of sender, vector and receiver
  MaxUitt, \* UINTR_MAX_UITT_NR
  None

Remote == {l.from : l \in Link} \ Task   \* senders on other CPUs: threads of Linux
Vector(t) == {l.vec : l \in {k \in Link : k.to = t}}

\* the bits of the 64 bit PUIR that 1 << user_vec sets: an int, shifted modulo its
\* width and sign extended
ShiftedBits(v) == IF v % 32 = 31 THEN 31..63 ELSE {v % 32}

Upid == [on : BOOLEAN, puir : SUBSET (0..63)]

ASSUME LinkAssumption ==
  \A l \in Link : l.to \in Task /\ l.vec \in 0..255 /\ l.from # root

ASSUME TaskAssumption ==
  /\ MaxUitt \in Nat
  /\ IsFiniteSet(Task) /\ root \notin Task /\ None \notin Task
  /\ None \notin Upid

VARIABLES
  current,  \* PerCpu.current_task
  ready,    \* SimpleScheduler.ready_queue
  where,    \* where a task is: in "user" mode, or in the "kernel" with interrupts on
  msr,      \* the CPU: UIF, and the tasks whose UPID and UITT UINTR_PD and UINTR_TT point to
  frame,    \* ContextSwitchFrame: the same, of the tasks that do not run
  upid,     \* TaskContext.uintr_upid_ctx, None or ON and PUIR
  uitt,     \* TaskContext.uitt: the links in its entries
  ipi,      \* 0xec is pending at the local APIC
  sending,  \* remote senders between the unlock of senduipi and send_ipi
  owed      \* history: the vectors sent to a task since its handler last ran for them

taskVars == <<current, ready, where, msr, frame>>
vars == <<taskVars, upid, uitt, ipi, sending, owed>>

NoUintr == [uif |-> FALSE, pd |-> None, tt |-> None]

Init ==
  /\ current = root
  /\ \E q \in [1..Cardinality(Task) -> Task] : ready = q /\ \A t \in Task : \E i \in DOMAIN q : q[i] = t
  /\ where = [t \in Task \cup {root} |-> IF t = root THEN "kernel" ELSE "user"]
  /\ msr = NoUintr
  /\ frame = [t \in Task \cup {root} |-> NoUintr]
  /\ upid = [t \in Task |-> None]
  /\ uitt = [t \in Task |-> <<>>]
  /\ ipi = FALSE
  /\ sending = {}
  /\ owed = [t \in Task |-> {}]

-----------------------------------------------------------------------------
(* NimbOS *)

\* the current task goes on in mode m: a pending interrupt comes first
Runs(m) == current \in Task /\ where[current] = m /\ ~ipi

pending(t) == t \in Task /\ upid[t] # None /\ upid[t].puir # {}

\* slip: the resumed task does not look for what was posted meanwhile
switch_unchecked(next, rest) ==
  /\ current' = next
  /\ ready' = rest
  /\ frame' = [frame EXCEPT ![current] = msr]
  /\ msr' = frame[next]
  /\ UNCHANGED <<where, upid, uitt, ipi, sending, owed>>

\* slip: the switch leaves the MSRs alone
switch_uif_only(next, rest) ==
  /\ current' = next
  /\ ready' = rest
  /\ frame' = [frame EXCEPT ![current] = msr]
  /\ msr' = [msr EXCEPT !.uif = frame[next].uif]
  /\ ipi' = (ipi \/ pending(next))
  /\ UNCHANGED <<where, upid, uitt, sending, owed>>

\* TaskManager::switch_to and context_switch
switch_to(next, rest) ==
  /\ current' = next
  /\ ready' = rest
  /\ IF next = current THEN UNCHANGED <<msr, frame, ipi>>
     ELSE /\ frame' = [frame EXCEPT ![current] = msr]
          /\ msr' = frame[next]
          /\ ipi' = (ipi \/ pending(next))
  /\ UNCHANGED <<where, upid, uitt, sending, owed>>

\* yield_current: the timer interrupt, whose vector 0xf0 has priority over 0xec, and
\* sys_yield and the like
yield_current ==
  LET q == Append(ready, current) IN switch_to(Head(q), Tail(q))

SysEnter ==
  /\ Runs("user")
  /\ where' = [where EXCEPT ![current] = "kernel"]
  /\ UNCHANGED <<current, ready, msr, frame, upid, uitt, ipi, sending, owed>>

SysExit ==
  /\ Runs("kernel")
  /\ where' = [where EXCEPT ![current] = "user"]
  /\ UNCHANGED <<current, ready, msr, frame, upid, uitt, ipi, sending, owed>>

\* a second registration changes nothing
uintr_register_handler ==
  /\ Runs("kernel") /\ upid[current] = None
  /\ upid' = [upid EXCEPT ![current] = [on |-> FALSE, puir |-> {}]]
  /\ msr' = [msr EXCEPT !.pd = current]
  /\ UNCHANGED <<current, ready, where, frame, uitt, ipi, sending, owed>>

\* the first free entry is the next one, since none is given back; without a free
\* one it is ENOSPC
uintr_register_sender(l) ==
  /\ Runs("kernel") /\ l.from = current /\ upid[l.to] # None
  /\ Len(uitt[current]) < MaxUitt
  /\ uitt' = [uitt EXCEPT ![current] = Append(@, l)]
  /\ msr' = [msr EXCEPT !.tt = current]
  /\ UNCHANGED <<current, ready, where, frame, upid, ipi, sending, owed>>

-----------------------------------------------------------------------------
(* QEMU *)

\* senduipi up to the unlock
Post(l) ==
  /\ upid' = [upid EXCEPT ![l.to] = [on |-> TRUE, puir |-> @.puir \cup ShiftedBits(l.vec)]]
  /\ owed' = [owed EXCEPT ![l.to] = @ \cup {l.vec}]

\* on this CPU: programs use the indices they were given
senduipi(i) ==
  /\ Runs("user") /\ msr.tt # None /\ i \in 1..Len(uitt[msr.tt])
  /\ LET l == uitt[msr.tt][i] IN
       /\ Post(l)
       /\ ipi' = ~upid[l.to].on
  /\ UNCHANGED <<taskVars, uitt, sending>>

\* on another CPU, by a thread of Linux that was given the address of the UPID
RemotePost(l) ==
  /\ l.from \in Remote /\ upid[l.to] # None /\ l.from \notin sending
  /\ Post(l)
  /\ sending' = IF upid[l.to].on THEN sending ELSE sending \cup {l.from}
  /\ UNCHANGED <<taskVars, uitt, ipi>>

send_ipi(r) ==
  /\ r \in sending
  /\ sending' = sending \ {r}
  /\ ipi' = TRUE
  /\ UNCHANGED <<taskVars, upid, uitt, owed>>

Deliverable == msr.uif /\ where[current] = "user"

\* the handler of the running task is entered for the highest vector; the others
\* remain in UIRR, which is next written before it is next read
helper_rrnzero(rr) ==
  /\ msr' = [msr EXCEPT !.uif = FALSE]
  /\ owed' = [owed EXCEPT ![current] = @ \ {Max(rr)}]

\* slip: PUIR is not cleared when it is moved to UIRR
deliver_again ==
  /\ ipi /\ Deliverable /\ msr.pd # None
  /\ ipi' = FALSE
  /\ upid' = [upid EXCEPT ![msr.pd].on = FALSE]
  /\ msr' = [msr EXCEPT !.uif = FALSE]
  /\ owed' = [owed EXCEPT ![current] = @ \ upid[msr.pd].puir]
  /\ UNCHANGED <<current, ready, where, frame, uitt, sending>>

\* do_interrupt64 for 0xec in user mode with UIF set
deliver ==
  /\ ipi /\ Deliverable /\ msr.pd # None
  /\ ipi' = FALSE
  /\ upid' = [upid EXCEPT ![msr.pd] = [on |-> FALSE, puir |-> {}]]
  /\ IF upid[msr.pd].puir # {} THEN helper_rrnzero(upid[msr.pd].puir)
     ELSE UNCHANGED <<msr, owed>>
  /\ UNCHANGED <<current, ready, where, frame, uitt, sending>>

\* the same with UINTR_PD = 0, in a task without a UPID.  get_hphys2 does not look
\* whether the address translates, so what is read as a UPID is anything: a handler
\* is entered or not.
deliver_nowhere ==
  /\ ipi /\ Deliverable /\ msr.pd = None
  /\ ipi' = FALSE
  /\ \E uif \in BOOLEAN : msr' = [msr EXCEPT !.uif = uif]
  /\ UNCHANGED <<current, ready, where, frame, upid, uitt, sending, owed>>

\* do_interrupt64 otherwise: the interrupt is acknowledged, and that is all
drop ==
  /\ ipi /\ ~Deliverable
  /\ ipi' = FALSE
  /\ UNCHANGED <<taskVars, upid, uitt, sending, owed>>

\* stui, and uiret at the end of a handler: neither asks for a UPID
stui ==
  /\ Runs("user")
  /\ msr' = [msr EXCEPT !.uif = TRUE]
  /\ UNCHANGED <<current, ready, where, frame, upid, uitt, ipi, sending, owed>>

clui ==
  /\ Runs("user")
  /\ msr' = [msr EXCEPT !.uif = FALSE]
  /\ UNCHANGED <<current, ready, where, frame, upid, uitt, ipi, sending, owed>>

-----------------------------------------------------------------------------
Next ==
  \/ yield_current \/ SysEnter \/ SysExit
  \/ uintr_register_handler \/ \E l \in Link : uintr_register_sender(l)
  \/ \E i \in 1..MaxUitt : senduipi(i)
  \/ \E l \in Link : RemotePost(l)
  \/ \E r \in Remote : send_ipi(r)
  \/ deliver \/ deliver_nowhere \/ drop \/ stui \/ clui

\* The timer keeps ticking and remote CPUs keep running.  Ticks come independently of
\* what the program does: one that is in user mode with UIF set again and again is
\* interrupted there some time, and does not always lose its turn at the very
\* moment it gets it.
Fairness ==
  /\ WF_vars(yield_current) /\ WF_vars(drop \/ deliver_nowhere)
  /\ \A r \in Remote : WF_vars(send_ipi(r))
  /\ \A t \in Task : /\ SF_vars(yield_current /\ current = t /\ Deliverable)
                     /\ SF_vars(deliver /\ current = t)

Spec == Init /\ [][Next]_vars /\ Fairness

-----------------------------------------------------------------------------
(* Properties *)

Context == [uif : BOOLEAN, pd : Task \cup {None}, tt : Task \cup {None}]

TypeOK ==
  /\ current \in Task \cup {root}
  /\ ready \in Seq(Task \cup {root})
  /\ where \in [Task \cup {root} -> {"user", "kernel"}]
  /\ msr \in Context /\ frame \in [Task \cup {root} -> Context]
  /\ upid \in [Task -> Upid \cup {None}]
  /\ \A t \in Task : upid[t] # None => \A n \in upid[t].puir : \E v \in Vector(t) : n \in ShiftedBits(v)
  /\ uitt \in [Task -> Seq(Link)] /\ \A t \in Task : Len(uitt[t]) <= MaxUitt
  /\ ipi \in BOOLEAN /\ sending \subseteq Remote
  /\ owed \in [Task -> SUBSET (0..255)]

\* Whatever ran in between, a task that runs has its own UPID and its own table in
\* the registers, or none while it has none.  (UIF may be set without a UPID.)
RegistersOfCurrent ==
  /\ msr.pd = IF current \in Task /\ upid[current] # None THEN current ELSE None
  /\ msr.tt = IF current \in Task /\ uitt[current] # <<>> THEN current ELSE None

\* Each task is owed what is posted in its UPID, and if it has a single vector nothing
\* else: no interrupt is lost, handled twice or handled by another task, however
\* IPIs are dropped, consumed by other tasks or suppressed by ON.  (A second
\* vector that is pending at the same time stays behind in UIRR and is lost.)
\* This is so for the vectors that the shift of an int can express.
PostedIsOwed ==
  \A t \in Task : upid[t] # None /\ Vector(t) \subseteq 0..30 =>
    /\ upid[t].puir \subseteq owed[t]
    /\ (\E v \in Vector(t) : Vector(t) = {v}) => owed[t] = upid[t].puir

\* What misc_helper.c:114 says of senduipi, "tempUPID.PIR[tempUITTE.UV] := 1;": the bit
\* of the vector that is sent is set in the receiver's PUIR.
VectorPosted ==
  [][\A t \in Task : \A v \in owed'[t] \ owed[t] : v \in upid'[t].puir]_vars

\* What is posted is delivered in the end to a task that comes back to user mode with
\* UIF set again and again, although no second IPI is ever sent for it.
PostedIsDelivered ==
  \A t \in Task :
    []<>(current = t /\ Deliverable) => (pending(t) ~> ~pending(t))
=============================================================================
