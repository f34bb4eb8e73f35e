----------------------------- MODULE Hypervisor -----------------------------
(***************************************************************************)
(* Switching the hypervisor on and off: the commands of the jailhouse      *)
(* driver (jailhouse/driver/main.c), which send every CPU of Linux into    *)
(* the image, and what the image (RVM1.5) does on each of them: the        *)
(* barriers of main.rs, percpu.rs and hypervisor_disable.                  *)
(*                                                                         *)
(* A CPU that waits at a barrier spins on a counter that only grows and on *)
(* ERROR_NUM, so that reading both is one step.                            *)
(***************************************************************************)
EXTENDS Integers, FiniteSets

CONSTANTS
  Cpu,   \* the CPUs Linux keeps, the others are for the RTOS
  Error  \* what the initialisation of the image can fail with

ASSUME CpuAssumption == IsFiniteSet(Cpu) /\ Cpu # {}

\* told apart from success, the error of wait_for and that of a failed vmlaunch
ASSUME ErrorAssumption == Error \cap {"ok", "EBUSY", "EIO"} = {}

VARIABLES
  cmd,            \* driver: the command that holds jailhouse_lock
  enabled,        \* driver: jailhouse_enabled
  mapped,         \* driver: hypervisor_mem
  error_code,     \* driver: error_code
  call_done,      \* driver: call_done
  entered,        \* image: ENTERED_CPUS
  early,          \* image: INIT_EARLY_OK
  inited,         \* image: INITED_CPUS
  late,           \* image: INIT_LATE_OK
  error_num,      \* image: ERROR_NUM
  activated,      \* image: ACTIVATED_CPUS
  try_disable,    \* image: TRY_DISABLE_CPUS
  pc,             \* where each CPU is
  id,             \* PerCpu.id
  guest,          \* the CPU runs Linux as a guest
  context,        \* whose page table, GDT, IDT and control registers the CPU has loaded
  ret,            \* the error at hand, or the code the entry returns
  cpus,           \* hypervisor_disable: its copy of ACTIVATED_CPUS
  launch_failed   \* history: a vmlaunch has failed

driverVars == <<cmd, enabled, mapped, error_code, call_done>>
imageVars  == <<entered, early, inited, late, error_num, activated, try_disable>>
cpuVars    == <<pc, id, guest, context, ret, cpus, launch_failed>>
vars       == <<driverVars, imageVars, cpuVars>>

vm_cpus == Cardinality(Cpu)
Code    == Error \cup {"ok", "EBUSY", "EIO"}

Init ==
  /\ cmd = "idle" /\ enabled = FALSE /\ mapped = FALSE
  /\ error_code = "ok" /\ call_done = 0
  /\ entered = 0 /\ early = FALSE /\ inited = 0 /\ late = FALSE
  /\ error_num = "ok" /\ activated = 0 /\ try_disable = 0
  /\ pc = [c \in Cpu |-> "linux"]
  /\ id = [c \in Cpu |-> 0]
  /\ guest = [c \in Cpu |-> FALSE]
  /\ context = [c \in Cpu |-> "linux"]
  /\ ret = [c \in Cpu |-> "ok"]
  /\ cpus = [c \in Cpu |-> 0]
  /\ launch_failed = FALSE

Goto(c, where) == pc' = [pc EXCEPT ![c] = where]

-----------------------------------------------------------------------------
(* The driver *)

\* jailhouse_cmd_enable up to its loop: the image is copied afresh, the rest of its
\* memory zeroed, and every CPU sent to enter_hypervisor.  After a failed vmlaunch a
\* CPU of Linux runs with registers that are not its own: what comes then is beyond
\* this model.
EnableBegin ==
  /\ cmd = "idle" /\ ~enabled /\ ~launch_failed
  /\ cmd' = "enable" /\ mapped' = TRUE /\ error_code' = "ok" /\ call_done' = 0
  /\ entered' = 0 /\ early' = FALSE /\ inited' = 0 /\ late' = FALSE
  /\ error_num' = "ok" /\ activated' = 0 /\ try_disable' = 0
  /\ pc' = [c \in Cpu |-> "enter"]
  /\ ret' = [c \in Cpu |-> "ok"]
  /\ UNCHANGED <<enabled, id, guest, context, cpus, launch_failed>>

\* one of the checks before that fails, possibly after the old mapping is gone
EnableRefused ==
  /\ cmd = "idle" /\ ~enabled
  /\ mapped /\ mapped' = FALSE
  /\ UNCHANGED <<cmd, enabled, error_code, call_done, imageVars, cpuVars>>

\* slip: the command ends at the first answer
EnableEndEarly ==
  /\ cmd = "enable" /\ call_done > 0
  /\ cmd' = "idle"
  /\ enabled' = (error_code = "ok")
  /\ mapped' = (error_code = "ok")
  /\ UNCHANGED <<error_code, call_done, imageVars, cpuVars>>

\* the rest of jailhouse_cmd_enable, once every CPU has called back
EnableEnd ==
  /\ cmd = "enable" /\ call_done = vm_cpus
  /\ cmd' = "idle"
  /\ enabled' = (error_code = "ok")
  /\ mapped' = (error_code = "ok")
  /\ UNCHANGED <<error_code, call_done, imageVars, cpuVars>>

DisableBegin ==
  /\ cmd = "idle" /\ enabled /\ ~launch_failed
  /\ cmd' = "disable" /\ error_code' = "ok" /\ call_done' = 0
  /\ pc' = [c \in Cpu |-> "leave"]
  /\ UNCHANGED <<enabled, mapped, imageVars, id, guest, context, ret, cpus, launch_failed>>

DisableEnd ==
  /\ cmd = "disable" /\ call_done = vm_cpus
  /\ cmd' = "idle"
  /\ enabled' = (error_code # "ok")
  /\ UNCHANGED <<mapped, error_code, call_done, imageVars, cpuVars>>

\* the rest of enter_hypervisor and of leave_hypervisor
CallDone(c) ==
  /\ pc[c] = "returned"
  /\ error_code' = IF ret[c] # "ok" THEN ret[c] ELSE error_code
  /\ call_done' = call_done + 1
  /\ Goto(c, "linux")
  /\ UNCHANGED <<cmd, enabled, mapped, imageVars, id, guest, context, ret, cpus, launch_failed>>

-----------------------------------------------------------------------------
(* The image, on its way in *)

\* a CPU fails and still has to tell the others
Fail(c, e) == Goto(c, "store") /\ ret' = [ret EXCEPT ![c] = e]

\* PerCpu::new
Enter(c) ==
  /\ pc[c] = "enter"
  /\ id' = [id EXCEPT ![c] = entered]
  /\ entered' = entered + 1
  /\ Goto(c, "wait_entered")
  /\ UNCHANGED <<early, inited, late, error_num, activated, try_disable>>
  /\ UNCHANGED <<driverVars, guest, context, ret, cpus, launch_failed>>

\* slip: an error of another CPU does not end the wait
wait_for_deaf(c, condition, next) ==
  /\ condition /\ Goto(c, next) /\ UNCHANGED ret
  /\ UNCHANGED <<driverVars, imageVars, id, guest, context, cpus, launch_failed>>

wait_for(c, condition, next) ==
  /\ \/ error_num # "ok" /\ Fail(c, "EBUSY")
     \/ error_num = "ok" /\ condition /\ Goto(c, next) /\ UNCHANGED ret
  /\ UNCHANGED <<driverVars, imageVars, id, guest, context, cpus, launch_failed>>

is_primary(c) == id[c] = 0

WaitEntered(c) ==
  /\ pc[c] = "wait_entered"
  /\ wait_for(c, entered >= vm_cpus, IF is_primary(c) THEN "early" ELSE "wait_early")

primary_init_early(c) ==
  /\ pc[c] = "early"
  /\ \/ early' = TRUE /\ Goto(c, "init") /\ UNCHANGED ret
     \/ \E e \in Error : Fail(c, e) /\ UNCHANGED early
  /\ UNCHANGED <<entered, inited, late, error_num, activated, try_disable>>
  /\ UNCHANGED <<driverVars, id, guest, context, cpus, launch_failed>>

WaitEarly(c) == pc[c] = "wait_early" /\ wait_for(c, early, "init")

\* slip: a CPU counts as initialised although it failed
init_counted(c) ==
  /\ pc[c] = "init"
  /\ \/ Goto(c, "wait_inited") /\ UNCHANGED ret
     \/ \E e \in Error : Fail(c, e)
  /\ inited' = inited + 1
  /\ UNCHANGED <<entered, early, late, error_num, activated, try_disable>>
  /\ context' = [context EXCEPT ![c] = "image"]
  /\ UNCHANGED <<driverVars, id, guest, cpus, launch_failed>>

\* PerCpu::init, which loads what the image runs with first, and INITED_CPUS
init(c) ==
  /\ pc[c] = "init"
  /\ \/ inited' = inited + 1 /\ Goto(c, "wait_inited") /\ UNCHANGED ret
     \/ \E e \in Error : Fail(c, e) /\ UNCHANGED inited
  /\ UNCHANGED <<entered, early, late, error_num, activated, try_disable>>
  /\ context' = [context EXCEPT ![c] = "image"]
  /\ UNCHANGED <<driverVars, id, guest, cpus, launch_failed>>

WaitInited(c) ==
  /\ pc[c] = "wait_inited"
  /\ wait_for(c, inited >= vm_cpus, IF is_primary(c) THEN "late" ELSE "wait_late")

primary_init_late(c) ==
  /\ pc[c] = "late"
  /\ late' = TRUE
  /\ Goto(c, "activate")
  /\ UNCHANGED <<entered, early, inited, error_num, activated, try_disable>>
  /\ UNCHANGED <<driverVars, id, guest, context, ret, cpus, launch_failed>>

WaitLate(c) == pc[c] = "wait_late" /\ wait_for(c, late, "activate")

activate_vmm(c) ==
  /\ pc[c] = "activate"
  /\ activated' = activated + 1
  /\ Goto(c, "vmlaunch")
  /\ UNCHANGED <<entered, early, inited, late, error_num, try_disable>>
  /\ UNCHANGED <<driverVars, id, guest, context, ret, cpus, launch_failed>>

\* Vcpu::enter: Linux goes on behind its call of the entry, with 0 in rax
VmLaunch(c) ==
  /\ pc[c] = "vmlaunch"
  /\ guest' = [guest EXCEPT ![c] = TRUE]
  /\ ret' = [ret EXCEPT ![c] = "ok"]
  /\ Goto(c, "returned")
  /\ UNCHANGED <<driverVars, imageVars, id, context, cpus, launch_failed>>

\* The panic handler takes a CPU back to Linux; whether its code is 0 depends on the
\* exit reason in the VMCS.
try_handle_panic(c) ==
  /\ activated' = activated - 1
  /\ context' = [context EXCEPT ![c] = "linux"]
  /\ \E e \in {"ok", "EIO"} : ret' = [ret EXCEPT ![c] = e]
  /\ Goto(c, "returned")

\* A vmlaunch that fails goes on with the registers of Linux and a stack in the middle
\* of the Vcpu.  The code may get as far as its error, fault and reach the panic
\* handler, or be lost.
VmLaunchFails(c) ==
  /\ pc[c] = "vmlaunch"
  /\ launch_failed' = TRUE
  /\ \/ Fail(c, "EIO") /\ UNCHANGED <<activated, context>>
     \/ try_handle_panic(c)
     \/ Goto(c, "lost") /\ UNCHANGED <<activated, context, ret>>
  /\ UNCHANGED <<entered, early, inited, late, error_num, try_disable>>
  /\ UNCHANGED <<driverVars, id, guest, cpus>>

\* vm_cpu_entry: the error is stored, and what is stored then is returned
StoreError(c) ==
  /\ pc[c] = "store"
  /\ error_num' = ret[c]
  /\ Goto(c, "load")
  /\ UNCHANGED <<entered, early, inited, late, activated, try_disable>>
  /\ UNCHANGED <<driverVars, id, guest, context, ret, cpus, launch_failed>>

\* The way back to enter_hypervisor is over the stack and the code of Linux.  The page
\* table that PerCpu::init has loaded maps neither, and nothing loads the old
\* one again: such a CPU faults where no fault can be delivered and is lost.
arch_entry_return(c) == Goto(c, IF context[c] = "linux" THEN "returned" ELSE "lost")

LoadError(c) ==
  /\ pc[c] = "load"
  /\ ret' = [ret EXCEPT ![c] = error_num]
  /\ arch_entry_return(c)
  /\ UNCHANGED <<driverVars, imageVars, id, guest, context, cpus, launch_failed>>

-----------------------------------------------------------------------------
(* The image, on its way out: hypervisor_disable *)

ReadActivated(c) ==
  /\ pc[c] = "leave"
  /\ cpus' = [cpus EXCEPT ![c] = activated]
  /\ Goto(c, "try")
  /\ UNCHANGED <<driverVars, imageVars, id, guest, context, ret, launch_failed>>

TryDisable(c) ==
  /\ pc[c] = "try"
  /\ try_disable' = try_disable + 1
  /\ Goto(c, "wait_disable")
  /\ UNCHANGED <<entered, early, inited, late, error_num, activated>>
  /\ UNCHANGED <<driverVars, id, guest, context, ret, cpus, launch_failed>>

\* slip: the barrier opens one CPU too early
deactivate_off_by_one(c) ==
  /\ pc[c] = "wait_disable" /\ try_disable >= cpus[c] - 1
  /\ activated' = activated - 1
  /\ guest' = [guest EXCEPT ![c] = FALSE]
  /\ context' = [context EXCEPT ![c] = "linux"]
  /\ ret' = [ret EXCEPT ![c] = "ok"]
  /\ Goto(c, "returned")
  /\ UNCHANGED <<entered, early, inited, late, error_num, try_disable>>
  /\ UNCHANGED <<driverVars, id, cpus, launch_failed>>

\* the wait for the other CPUs, and deactivate_vmm
deactivate_vmm(c) ==
  /\ pc[c] = "wait_disable" /\ try_disable >= cpus[c]
  /\ activated' = activated - 1
  /\ guest' = [guest EXCEPT ![c] = FALSE]
  /\ context' = [context EXCEPT ![c] = "linux"]
  /\ ret' = [ret EXCEPT ![c] = "ok"]
  /\ Goto(c, "returned")
  /\ UNCHANGED <<entered, early, inited, late, error_num, try_disable>>
  /\ UNCHANGED <<driverVars, id, cpus, launch_failed>>

-----------------------------------------------------------------------------
CpuStep(c) ==
  \/ Enter(c) \/ WaitEntered(c) \/ primary_init_early(c) \/ WaitEarly(c) \/ init(c)
  \/ WaitInited(c) \/ primary_init_late(c) \/ WaitLate(c) \/ activate_vmm(c) \/ VmLaunch(c)
  \/ VmLaunchFails(c) \/ StoreError(c) \/ LoadError(c)
  \/ ReadActivated(c) \/ TryDisable(c) \/ deactivate_vmm(c)
  \/ CallDone(c)

Next ==
  \/ EnableBegin \/ EnableRefused \/ EnableEnd \/ DisableBegin \/ DisableEnd
  \/ \E c \in Cpu : CpuStep(c)

\* a CPU runs with interrupts off from its entry to its return, and the driver
\* spins until all have called back
Fairness == WF_vars(EnableEnd \/ DisableEnd) /\ \A c \in Cpu : WF_vars(CpuStep(c))

Spec == Init /\ [][Next]_vars /\ Fairness

-----------------------------------------------------------------------------
(* Properties *)

TypeOK ==
  /\ cmd \in {"idle", "enable", "disable"}
  /\ enabled \in BOOLEAN /\ mapped \in BOOLEAN
  /\ error_code \in Code /\ call_done \in 0..vm_cpus
  /\ entered \in 0..vm_cpus /\ inited \in 0..vm_cpus
  /\ early \in BOOLEAN /\ late \in BOOLEAN
  /\ error_num \in Code
  /\ activated \in 0..vm_cpus /\ try_disable \in 0..vm_cpus
  /\ pc \in [Cpu -> {"linux", "enter", "wait_entered", "early", "wait_early", "init",
                     "wait_inited", "late", "wait_late", "activate", "vmlaunch", "store",
                     "load", "returned", "lost", "leave", "try", "wait_disable"}]
  /\ id \in [Cpu -> 0..vm_cpus]
  /\ guest \in [Cpu -> BOOLEAN]
  /\ context \in [Cpu -> {"linux", "image"}]
  /\ ret \in [Cpu -> Code]
  /\ cpus \in [Cpu -> 0..vm_cpus]
  /\ launch_failed \in BOOLEAN

\* While the hypervisor comes up, a CPU runs as a guest only when every CPU has passed
\* its initialisation (main.rs): a failure before that leaves all of them outside.
NoGuestBeforeAllInited ==
  cmd = "enable" /\ (\E c \in Cpu : guest[c]) =>
    \A c \in Cpu : /\ pc[c] \notin {"enter", "wait_entered", "early", "wait_early", "init"}
                    /\ ret[c] \notin Error

\* Outside the commands either all CPUs are guests and the driver says so, or none
\* is, the driver says that and all of them are in Linux's own context: a failed
\* enable leaves nothing behind when it ends.  A failed vmlaunch is the exception,
\* since nothing holds the CPUs together behind the last barrier.
AllOrNothing ==
  cmd = "idle" /\ ~launch_failed => \A c \in Cpu :
    /\ guest[c] = enabled
    /\ ~enabled => context[c] = "linux"

\* The memory of the hypervisor stays mapped while a CPU runs in it and, unless a
\* vmlaunch failed, while one runs above it.
MappedWhileUsed ==
  \A c \in Cpu :
    pc[c] \notin {"linux", "returned"} \/ (guest[c] /\ ~launch_failed) => mapped

\* No CPU leaves the hypervisor before all of them have asked to.
LeaveTogether ==
  cmd = "disable" /\ (\E c \in Cpu : ~guest[c]) =>
    \A c \in Cpu : pc[c] \in {"wait_disable", "returned", "linux"}

\* No CPU waits at a barrier for one that will not come, and every CPU gets back to
\* Linux or is lost.  A disable always ends, and an enable does so unless a CPU is
\* lost on its way back: the driver then spins on call_done for good.
CommandsEnd ==
  /\ cmd = "disable" ~> cmd = "idle"
  /\ cmd = "enable" ~> cmd = "idle" \/ \E c \in Cpu : pc[c] = "lost"
  /\ \A c \in Cpu : pc[c] = "enter" ~> pc[c] \in {"linux", "lost"}
=============================================================================
