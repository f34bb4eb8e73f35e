--------------------------- MODULE RtosLifecycle ----------------------------
(***************************************************************************)
(* How NimbOS gets the RT CPU and its memory, and loses them again: the    *)
(* jailhouse driver, whose commands take the CPU from Linux and give it    *)
(* back, the module of nimbos-driver, which starts and stops NimbOS by     *)
(* hypercalls, and the hypercalls of RVM, which boot the CPU with INIT and *)
(* startup IPIs.  There is one RT CPU (rt_cpus).  What the commands do on  *)
(* the CPUs of Linux is in Hypervisor, the memory in MemoryMap.            *)
(*                                                                         *)
(* rt_region of the jailhouse driver is read and written without a lock,   *)
(* so each of its two words is a step of its own.                          *)
(***************************************************************************)
EXTENDS Integers

CONSTANTS
  Caller,  \* processes that issue the enable command
  Region,  \* the RT memory regions they may ask for
  None

ASSUME RtRegionAssumption ==
  \A r \in Region : r.start \in Nat \ {0} /\ r.size \in Nat \ {0}

ASSUME CallerAssumption == Caller \cap {None, "disable"} = {} /\ None # "disable"

VARIABLES
  rt_region,  \* jailhouse driver: rt_region
  lock,       \* jailhouse driver: who holds jailhouse_lock
  enabled,    \* jailhouse driver: jailhouse_enabled
  pc,         \* where each enable command is
  arg,        \* its argument
  guest,      \* the CPUs of Linux run above the hypervisor
  config,     \* RVM: rtos_memory in the system configuration
  online,     \* Linux counts the RT CPU as its own
  rt,         \* what the RT CPU does
  entry,      \* where it began to run NimbOS
  page,       \* the start page: boot code with this entry, or 0 for what Linux has there
  n,          \* where nimbos_init or nimbos_exit is
  region,     \* nimbos-driver: rt_region
  misc, irq,  \* nimbos-driver: the device and the interrupt are registered
  taken       \* history: a disable took the RT CPU back since nimbos_init

cmdVars == <<rt_region, lock, enabled, pc, arg, guest, config, online>>
modVars == <<n, region, misc, irq>>
rtVars == <<rt, entry, page>>
vars == <<cmdVars, modVars, rtVars, taken>>

NoRegion == [start |-> 0, size |-> 0]

Init ==
  /\ rt_region = NoRegion /\ lock = None /\ enabled = FALSE
  /\ pc = [c \in Caller |-> "out"] /\ arg = [c \in Caller |-> NoRegion]
  /\ guest = FALSE /\ config = NoRegion /\ online = TRUE
  /\ rt = "linux" /\ entry = 0 /\ page = 0
  /\ n = "out" /\ region = NoRegion /\ misc = FALSE /\ irq = FALSE /\ taken = FALSE

Goto(c, where) == pc' = [pc EXCEPT ![c] = where]

-----------------------------------------------------------------------------
(* jailhouse driver: the enable command *)

\* copy_from_user; it clears what it cannot read, which is all of it if r is NoRegion
CopyStart(c, r) ==
  /\ pc[c] = "out" /\ Goto(c, "size")
  /\ arg' = [arg EXCEPT ![c] = r]
  /\ rt_region' = [rt_region EXCEPT !.start = r.start]
  /\ UNCHANGED <<lock, enabled, guest, config, online, modVars, rtVars, taken>>

CopySize(c) ==
  /\ pc[c] = "size"
  /\ \/ /\ arg[c] # NoRegion /\ Goto(c, "lock")
        /\ rt_region' = [rt_region EXCEPT !.size = arg[c].size]
     \/ /\ Goto(c, "out")   \* EFAULT
        /\ rt_region' = [rt_region EXCEPT !.size = 0]
  /\ UNCHANGED <<lock, enabled, arg, guest, config, online, modVars, rtVars, taken>>

\* the lock, and what may end the command before it has touched anything else
Lock(c) ==
  /\ pc[c] = "lock"
  /\ \/ lock = None /\ ~enabled /\ lock' = c /\ Goto(c, "config")
     \/ lock = None /\ lock' = None /\ Goto(c, "out")   \* EBUSY, no image, no memory
     \/ UNCHANGED lock /\ Goto(c, "out")                \* EINTR
  /\ UNCHANGED <<rt_region, enabled, arg, guest, config, online, modVars, rtVars, taken>>

\* init_system_config
ConfigStart(c) ==
  /\ pc[c] = "config" /\ Goto(c, "config size")
  /\ config' = [start |-> rt_region.start, size |-> 0]
  /\ UNCHANGED <<rt_region, lock, enabled, arg, guest, online, modVars, rtVars, taken>>

ConfigSize(c) ==
  /\ pc[c] = "config size" /\ Goto(c, "down")
  /\ config' = [config EXCEPT !.size = rt_region.size]
  /\ UNCHANGED <<rt_region, lock, enabled, arg, guest, online, modVars, rtVars, taken>>

cpu_down == online' = FALSE /\ rt' = "offline"
cpu_up == online' = TRUE /\ rt' = "linux"

CpuDown(c) ==
  /\ pc[c] = "down" /\ Goto(c, "enter")
  /\ cpu_down
  /\ UNCHANGED <<rt_region, lock, enabled, arg, guest, config, modVars, entry, page, taken>>

\* every CPU enters the hypervisor, or none does and the RT CPU goes back
Enter(c) ==
  /\ pc[c] = "enter"
  /\ \/ guest' = TRUE /\ Goto(c, "end") /\ UNCHANGED <<lock, online, rt>>
     \/ cpu_up /\ Goto(c, "out") /\ lock' = None /\ UNCHANGED guest
  /\ UNCHANGED <<rt_region, enabled, arg, config, modVars, entry, page, taken>>

EnableEnd(c) ==
  /\ pc[c] = "end" /\ Goto(c, "out")
  /\ enabled' = TRUE /\ lock' = None
  /\ UNCHANGED <<rt_region, arg, guest, config, online, modVars, rtVars, taken>>

-----------------------------------------------------------------------------
(* jailhouse driver: the disable command *)

InHypercall == n \in {"prepare", "start_ap", "delay"}

DisableBegin ==
  /\ lock = None /\ enabled /\ ~online
  /\ lock' = "disable"
  /\ UNCHANGED <<rt_region, enabled, pc, arg, guest, config, online, modVars, rtVars, taken>>

\* the CPUs of Linux leave together: not before a hypercall on one of them has ended
Leave ==
  /\ lock = "disable" /\ guest /\ ~InHypercall
  /\ guest' = FALSE
  /\ UNCHANGED <<rt_region, lock, enabled, pc, arg, config, online, modVars, rtVars, taken>>

\* slip: the RT CPU goes back before the hypervisor is left
DisableEndEarly ==
  /\ lock = "disable"
  /\ cpu_up /\ taken' = TRUE
  /\ enabled' = guest /\ lock' = IF guest THEN lock ELSE None
  /\ UNCHANGED <<rt_region, pc, arg, guest, config, modVars, entry, page>>

\* the RT CPU goes back to Linux, whatever it does at the time.  It would also if a CPU
\* had reported an error, but those are of VMX instructions that succeed on a
\* CPU that is in VMX operation with a current VMCS.
DisableEnd ==
  /\ lock = "disable" /\ ~guest
  /\ cpu_up /\ taken' = TRUE
  /\ enabled' = FALSE /\ lock' = None
  /\ UNCHANGED <<rt_region, pc, arg, guest, config, modVars, entry, page>>

-----------------------------------------------------------------------------
(* nimbos-driver: loading and unloading the module *)

misc_register ==
  /\ n = "out" /\ n' = "get"
  /\ misc' = TRUE /\ taken' = FALSE
  /\ UNCHANGED <<cmdVars, rtVars, region, irq>>

err_unregister == misc' = FALSE /\ n' = "out"

\* get_rt_memory_region
get_rt_memory_region ==
  /\ n = "get"
  /\ IF rt_region.start = 0 \/ rt_region.size = 0
     THEN err_unregister /\ UNCHANGED region
     ELSE /\ region' = [start |-> rt_region.start, size |-> 0]
          /\ n' = "get size" /\ UNCHANGED misc
  /\ UNCHANGED <<cmdVars, rtVars, irq, taken>>

GetSize ==
  /\ n = "get size" /\ n' = "request_irq"
  /\ region' = [region EXCEPT !.size = rt_region.size]
  /\ UNCHANGED <<cmdVars, rtVars, misc, irq, taken>>

request_irq ==
  /\ n = "request_irq"
  /\ \/ irq' = TRUE /\ n' = "load" /\ UNCHANGED misc
     \/ err_unregister /\ UNCHANGED irq
  /\ UNCHANGED <<cmdVars, rtVars, region, taken>>

\* slip: the interrupt stays registered
load_keeping_irq ==
  /\ n = "load"
  /\ \/ n' = "hypercall" /\ UNCHANGED <<misc, irq>>
     \/ err_unregister /\ UNCHANGED irq
  /\ UNCHANGED <<cmdVars, rtVars, region, taken>>

\* start_rtos up to the hypercall: the image may be missing or too large
load ==
  /\ n = "load"
  /\ \/ n' = "hypercall" /\ UNCHANGED <<misc, irq>>
     \/ irq' = FALSE /\ err_unregister
  /\ UNCHANGED <<cmdVars, rtVars, region, taken>>

contains(r, x) == r.start <= x /\ x < r.start + r.size

\* vmcall outside of a guest is an invalid instruction; the error of the hypercall is
\* dropped
hypercall_start ==
  /\ n = "hypercall"
  /\ n' = IF ~guest THEN "oops" ELSE IF contains(config, region.start) THEN "prepare" ELSE "loaded"
  /\ UNCHANGED <<cmdVars, rtVars, region, misc, irq, taken>>

\* nimbos_exit: shutdown_rtos and, in RVM, shutdown_rt_cpus
shutdown_rtos ==
  /\ n = "loaded"
  /\ IF ~guest THEN n' = "oops" /\ UNCHANGED rt
     ELSE n' = "free_irq" /\ rt' = "reset"
  /\ UNCHANGED <<cmdVars, region, misc, irq, entry, page, taken>>

free_irq ==
  /\ n = "free_irq"
  /\ irq' = FALSE /\ err_unregister
  /\ UNCHANGED <<cmdVars, rtVars, region, taken>>

-----------------------------------------------------------------------------
(* RVM: start_rt_cpus *)

\* the page is saved and gets the boot code and the entry
prepare ==
  /\ n = "prepare" /\ n' = "start_ap"
  /\ page' = region.start
  /\ UNCHANGED <<cmdVars, rt, entry, region, misc, irq, taken>>

\* slip: only a CPU that Linux has put offline is started
start_ap_offline ==
  /\ n = "start_ap" /\ n' = "delay"
  /\ rt' = IF rt = "offline" THEN "boot" ELSE rt
  /\ UNCHANGED <<cmdVars, entry, page, region, misc, irq, taken>>

\* INIT and two startup IPIs, which the CPU obeys whatever it does
start_ap ==
  /\ n = "start_ap" /\ n' = "delay"
  /\ rt' = "boot"
  /\ UNCHANGED <<cmdVars, entry, page, region, misc, irq, taken>>

\* the RT CPU: the code on the start page
ap_start ==
  /\ rt = "boot"
  /\ rt' = "nimbos" /\ entry' = page
  /\ UNCHANGED <<cmdVars, modVars, page, taken>>

\* slip: the page is restored without waiting
restore_at_once ==
  /\ n = "delay"
  /\ page' = 0 /\ n' = "loaded"
  /\ UNCHANGED <<cmdVars, rt, entry, region, misc, irq, taken>>

\* delay_us, which is long enough for the CPU, and the page is restored
restore ==
  /\ n = "delay" /\ rt # "boot"
  /\ page' = 0 /\ n' = "loaded"
  /\ UNCHANGED <<cmdVars, rt, entry, region, misc, irq, taken>>

-----------------------------------------------------------------------------
Next ==
  \/ \E c \in Caller :
       \/ \E r \in Region \cup {NoRegion} : CopyStart(c, r)
       \/ CopySize(c) \/ Lock(c) \/ ConfigStart(c) \/ ConfigSize(c) \/ CpuDown(c)
       \/ Enter(c) \/ EnableEnd(c)
  \/ DisableBegin \/ Leave \/ DisableEnd
  \/ misc_register \/ get_rt_memory_region \/ GetSize \/ request_irq \/ load \/ hypercall_start
  \/ shutdown_rtos \/ free_irq
  \/ prepare \/ start_ap \/ ap_start \/ restore

Spec == Init /\ [][Next]_vars

-----------------------------------------------------------------------------
(* Properties *)

TypeOK ==
  /\ lock \in Caller \cup {None, "disable"}
  /\ \A c \in Caller : lock = c <=> pc[c] \notin {"out", "size", "lock"}
  /\ pc \in [Caller -> {"out", "size", "lock", "config", "config size", "down", "enter", "end"}]
  /\ rt \in {"linux", "offline", "reset", "boot", "nimbos"}
  /\ n \in {"out", "get", "get size", "request_irq", "load", "hypercall", "prepare",
            "start_ap", "delay", "loaded", "free_irq", "oops"}
  /\ \A x \in {enabled, guest, online, misc, irq, taken} : x \in BOOLEAN

\* NimbOS runs only while there is a hypervisor, and from an entry in the RT memory of
\* that one: although rt_region may have been overwritten, in part or in whole, by a
\* command that was refused before the module was loaded.
EntryInRegion ==
  rt = "nimbos" => (guest \/ enabled) /\ contains(config, entry)

\* The RT CPU has one owner: no INIT or startup IPI reaches it while Linux runs on it,
\* whenever the module is loaded or unloaded during a command.
OneOwner == online <=> rt = "linux"

\* NimbOS runs only while its interrupts are handled, nothing stays registered when
\* the module is gone, and Linux's start page is as it was whenever no boot is under way.
RegisteredWhileRunning ==
  /\ rt \in {"boot", "nimbos"} => irq /\ misc
  /\ n = "out" => ~irq /\ ~misc
  /\ ~InHypercall => page = 0

\* Once loaded, the module has started NimbOS, unless the RT memory region it was given
\* was not the hypervisor's, or a disable took the CPU back meanwhile.
StartedIfLoaded ==
  n = "loaded" /\ ~taken => rt = "nimbos" \/ ~contains(config, region.start)
=============================================================================
