------------------------ MODULE RtosLifecycleProofs -------------------------
(***************************************************************************)
(* The invariants of RtosLifecycle for any number of processes that issue  *)
(* commands and any RT regions.                                            *)
(***************************************************************************)
EXTENDS RtosLifecycle, TLAPS

\* The commands: who holds the lock, when the CPUs are guests, and that the RT CPU is
\* away from Linux as long as they are.
Commands ==
  /\ \A c \in Caller : pc[c] \in {"config", "config size", "down", "enter"} => ~guest /\ ~enabled
  /\ \A c \in Caller : pc[c] \in {"enter", "end"} => ~online
  /\ \A c \in Caller : pc[c] = "end" => guest
  /\ guest => ~online /\ (enabled \/ \E c \in Caller : pc[c] = "end")
  /\ lock = "disable" => enabled /\ ~online
  /\ enabled /\ lock # "disable" => guest

\* The module: what is registered at each of its steps, and what a boot under way rests
\* on.
Module ==
  /\ n \in {"load", "hypercall", "loaded", "free_irq", "oops"} \/ InHypercall => irq /\ misc
  /\ n \in {"get", "get size", "request_irq"} => misc /\ ~irq
  /\ InHypercall => guest /\ contains(config, region.start)
  /\ n \in {"start_ap", "delay"} => page = region.start
  /\ rt = "boot" => n = "delay"
  /\ rt = "nimbos" => n \in {"delay", "loaded", "oops"}
  /\ (InHypercall \/ n = "loaded") /\ ~taken => guest \/ enabled
  /\ n = "delay" /\ ~taken => rt \in {"boot", "nimbos"}

IInv ==
  /\ TypeOK
  /\ Commands
  /\ Module
  /\ EntryInRegion
  /\ OneOwner
  /\ RegisteredWhileRunning
  /\ StartedIfLoaded

-----------------------------------------------------------------------------
\* The inductive invariant holds in the initial states.
LEMMA InitIInv == Init => IInv
BY CallerAssumption
   DEF Init, IInv, TypeOK, Commands, Module, EntryInRegion, OneOwner, RegisteredWhileRunning,
       StartedIfLoaded, InHypercall

\* Each step of an enable command preserves it.
LEMMA EnableIInv ==
  ASSUME IInv, NEW c \in Caller,
         \/ \E r \in Region \cup {NoRegion} : CopyStart(c, r)
         \/ CopySize(c) \/ Lock(c) \/ ConfigStart(c) \/ ConfigSize(c) \/ CpuDown(c)
         \/ Enter(c) \/ EnableEnd(c)
  PROVE  IInv'
<1> USE CallerAssumption
    DEF IInv, TypeOK, Commands, Module, EntryInRegion, OneOwner, RegisteredWhileRunning,
        StartedIfLoaded, InHypercall, Goto, modVars, rtVars
<1>1. CASE \E r \in Region \cup {NoRegion} : CopyStart(c, r)
  <2>1. /\ pc[c] = "out" /\ Goto(c, "size")
        /\ UNCHANGED <<lock, enabled, guest, config, online, modVars, rtVars, taken>>
    BY <1>1 DEF CopyStart
  <2>2. /\ pc'[c] = "size" /\ \A d \in Caller : d # c => pc'[d] = pc[d]
        /\ pc' \in [Caller -> {"out", "size", "lock", "config", "config size", "down", "enter",
                              "end"}]
    BY <2>1
  <2>3. TypeOK' /\ Commands'
    BY <2>1, <2>2, ZenonT(40)
  <2> QED
    BY <2>1, <2>3, Zenon
<1>2. CASE CopySize(c)
  <2>1. pc[c] = "size" /\ (Goto(c, "lock") \/ Goto(c, "out"))
    BY <1>2 DEF CopySize
  <2>2. UNCHANGED <<lock, enabled, arg, guest, config, online, modVars, rtVars, taken>>
    BY <1>2 DEF CopySize
  <2>3. \A d \in Caller : d # c => pc'[d] = pc[d]
    BY <2>1
  <2>4. /\ pc'[c] \in {"lock", "out"}
        /\ pc' \in [Caller -> {"out", "size", "lock", "config", "config size", "down", "enter",
                              "end"}]
    BY <2>1
  <2>5. TypeOK' /\ Commands'
    BY <2>1, <2>2, <2>3, <2>4, ZenonT(40)
  <2> QED
    BY <2>2, <2>5, Zenon
<1>3. CASE Lock(c)
  <2>1. CASE lock = None /\ ~enabled /\ lock' = c /\ Goto(c, "config")
    BY <1>3, <2>1 DEF Lock
  <2>2. CASE lock' = lock /\ Goto(c, "out")
    BY <1>3, <2>2, ZenonT(40) DEF Lock
  <2> QED
    BY <1>3, <2>1, <2>2 DEF Lock
<1>4. CASE ConfigStart(c)
  BY <1>4, Zenon DEF ConfigStart
<1>5. CASE ConfigSize(c)
  BY <1>5, Zenon DEF ConfigSize
<1>6. CASE CpuDown(c)
  BY <1>6 DEF CpuDown, cpu_down
<1>7. CASE Enter(c)
  <2>1. CASE guest' = TRUE /\ Goto(c, "end") /\ UNCHANGED <<lock, online, rt>>
    BY <1>7, <2>1, Zenon DEF Enter
  <2>2. CASE cpu_up /\ Goto(c, "out") /\ lock' = None /\ UNCHANGED guest
    BY <1>7, <2>2 DEF Enter, cpu_up
  <2> QED
    BY <1>7, <2>1, <2>2 DEF Enter
<1>8. CASE EnableEnd(c)
  BY <1>8, Zenon DEF EnableEnd
<1> QED
  BY <1>1, <1>2, <1>3, <1>4, <1>5, <1>6, <1>7, <1>8

\* So does each step of a disable command.
LEMMA DisableIInv ==
  ASSUME IInv, DisableBegin \/ Leave \/ DisableEnd
  PROVE  IInv'
<1> USE CallerAssumption
    DEF IInv, TypeOK, Commands, Module, EntryInRegion, OneOwner, RegisteredWhileRunning,
        StartedIfLoaded, InHypercall, modVars, rtVars
<1>1. CASE DisableBegin
  BY <1>1, Zenon DEF DisableBegin
<1>2. CASE Leave
  BY <1>2, ZenonT(40) DEF Leave
<1>3. CASE DisableEnd
  BY <1>3, Zenon DEF DisableEnd, cpu_up
<1> QED
  BY <1>1, <1>2, <1>3

\* So does each step of the module.
LEMMA ModuleIInv ==
  ASSUME IInv,
         \/ misc_register \/ get_rt_memory_region \/ GetSize \/ request_irq \/ load
         \/ hypercall_start \/ shutdown_rtos \/ free_irq
  PROVE  IInv'
<1> USE CallerAssumption
    DEF IInv, TypeOK, Commands, Module, EntryInRegion, OneOwner, RegisteredWhileRunning,
        StartedIfLoaded, InHypercall, cmdVars, rtVars, err_unregister
<1>1. CASE misc_register
  BY <1>1 DEF misc_register
<1>2. CASE get_rt_memory_region
  BY <1>2 DEF get_rt_memory_region
<1>3. CASE GetSize
  BY <1>3, Zenon DEF GetSize
<1>4. CASE request_irq
  <2>1. CASE irq' = TRUE /\ n' = "load" /\ UNCHANGED misc
    BY <1>4, <2>1, Zenon DEF request_irq
  <2>2. CASE err_unregister /\ UNCHANGED irq
    BY <1>4, <2>2 DEF request_irq
  <2> QED
    BY <1>4, <2>1, <2>2, Zenon DEF request_irq
<1>5. CASE load
  BY <1>5, Zenon DEF load
<1>6. CASE hypercall_start
  BY <1>6, Zenon DEF hypercall_start
<1>7. CASE shutdown_rtos
  BY <1>7, Zenon DEF shutdown_rtos
<1>8. CASE free_irq
  BY <1>8, ZenonT(40) DEF free_irq
<1> QED
  BY <1>1, <1>2, <1>3, <1>4, <1>5, <1>6, <1>7, <1>8, Zenon

\* So does each step of start_rt_cpus and of the RT CPU.
LEMMA BootIInv ==
  ASSUME IInv, prepare \/ start_ap \/ ap_start \/ restore
  PROVE  IInv'
<1> USE CallerAssumption
    DEF IInv, TypeOK, Commands, Module, EntryInRegion, OneOwner, RegisteredWhileRunning,
        StartedIfLoaded, InHypercall, cmdVars, modVars
<1>1. CASE prepare
  BY <1>1 DEF prepare
<1>2. CASE start_ap
  BY <1>2 DEF start_ap
<1>3. CASE ap_start
  BY <1>3, Zenon DEF ap_start
<1>4. CASE restore
  BY <1>4 DEF restore
<1> QED
  BY <1>1, <1>2, <1>3, <1>4

\* The invariant is inductive.
LEMMA NextIInv == IInv /\ [Next]_vars => IInv'
<1> SUFFICES ASSUME IInv, [Next]_vars PROVE IInv'
  OBVIOUS
<1>1. CASE UNCHANGED vars
  <2> USE <1>1 DEF IInv, vars, cmdVars, modVars, rtVars, InHypercall
  <2>1. TypeOK'
    BY DEF TypeOK
  <2>2. Commands'
    BY DEF Commands
  <2>3. Module' /\ EntryInRegion' /\ StartedIfLoaded'
    BY DEF Module, EntryInRegion, StartedIfLoaded
  <2>4. OneOwner' /\ RegisteredWhileRunning'
    BY DEF OneOwner, RegisteredWhileRunning
  <2> QED
    BY <2>1, <2>2, <2>3, <2>4
<1>2. CASE Next
  BY <1>2, EnableIInv, DisableIInv, ModuleIInv, BootIInv DEF Next
<1> QED
  BY <1>1, <1>2

\* The invariant holds in every reachable state.
LEMMA Invariance == Spec => []IInv
BY InitIInv, NextIInv, PTL DEF Spec

\* The command that holds jailhouse_lock is the one that is past it; types.
THEOREM TypeCorrect == Spec => []TypeOK
BY Invariance, PTL DEF IInv

\* NimbOS runs only above a hypervisor and from an entry in its RT memory.
THEOREM StartsInside == Spec => []EntryInRegion
BY Invariance, PTL DEF IInv

\* Linux and NimbOS never own the RT CPU at the same time.
THEOREM OneOwnerAlways == Spec => []OneOwner
BY Invariance, PTL DEF IInv

\* NimbOS's interrupts are handled while it runs, and every error path takes back what
\* it registered.
THEOREM NothingLeftBehind == Spec => []RegisteredWhileRunning
BY Invariance, PTL DEF IInv

\* A module that stays loaded has started NimbOS, but for the wrong region or a disable.
THEOREM LoadedMeansStarted == Spec => []StartedIfLoaded
BY Invariance, PTL DEF IInv
=============================================================================
