# A TLA+ model of the compound RTOS

The repository puts a real-time system, NimbOS, beside Linux on one machine: a
hypervisor (RVM1.5, loaded by the `jailhouse` driver) takes a CPU and some memory from
Linux, the `nimbos-driver` starts NimbOS there, and a *shadow process* on Linux carries
out the system calls that NimbOS forwards through shared memory. User interrupts
(UINTR), emulated in the patched QEMU, connect user programs of the two sides.

This directory holds TLA+ specifications of the parts where several CPUs, processes or
interrupts meet, the TLC configurations that check them on small instances, and TLAPS
proofs that hold for instances of any size. `PROJECT.json` lists components, runs,
theorems, findings and hazards, and says which source lines each definition stands for.

## The system and its parts

| Part | Source | Model |
|---|---|---|
| Forwarding buffer, NimbOS side | `nimbos/kernel/src/scf/queue.rs`, `syscall.rs` | `ScfQueue`, `ScfSystem`, `ScfGuest` |
| Forwarding buffer, shadow process | `nimbos-driver/apps/libs/scf.c`, `syscall.c` | `ScfQueue`, `ScfSystem` |
| Data pool of forwarded calls | `nimbos/kernel/src/scf/allocator.rs` | `DataPool` |
| Linux driver: interrupt, signal, registration | `nimbos-driver/driver/syscall_handler.c`, `file_ops.c` | `ScfSystem` (one process) |
| Linux driver: start and stop of NimbOS | `nimbos-driver/driver/main.c` | `RtosLifecycle` |
| Hypervisor start and stop on all CPUs | `RVM1.5/src/main.rs`, `percpu.rs`, `hypercall/mod.rs` | `Hypervisor` |
| Boot of the RT CPU | `RVM1.5/src/arch/x86_64/boot_rt.rs`, `boot_rt.S`, `apic.rs` | `RtosLifecycle` |
| Memory of the root cell | `RVM1.5/src/cell.rs`, `memory/mm.rs`, `paging.rs`, `mapper.rs` | `MemoryMap` |
| jailhouse driver, enable and disable | `jailhouse/driver/main.c` | `Hypervisor` (CPUs), `MemoryMap` (memory), `RtosLifecycle` (RT region and CPU) |
| Tasks and scheduler of NimbOS | `nimbos/kernel/src/task`, `syscall/task.rs` | `TaskManager` |
| User interrupts, NimbOS and QEMU | `nimbos/kernel/src/syscall/uintr.rs`, `arch/x86_64/context.rs`, `qemu-uintr/target/i386/tcg` | `Uintr` |
| VM exits, memory of NimbOS, device drivers, boot code, user programs | | not modelled, see below |

How they interact: the driver's enable command scans Linux's memory, takes the RT CPU
offline, sends every other CPU into the image and continues on them as guests; the
module of `nimbos-driver` starts NimbOS on the CPU that Linux gave up. A NimbOS
task that reads or writes takes buffers from the data pool, puts a request into the ring
and sends an interrupt; the driver turns it into a signal to the shadow process, which
takes the requests off the ring, executes them (writes in the signal handler, reads in
threads of their own) and pushes responses; the timer interrupt of NimbOS takes those and
wakes the tasks. User interrupts bypass all this: a sender writes into the receiver's
posted-interrupt descriptor (UPID) and notifies its CPU.

## Modules

**`SyscallRpc`** says what a forwarded call promises: it is carried out once, and returns
the answer to this very call.

**`ScfQueue`** is the buffer: the descriptor table, the two rings of descriptor indices with
`u16` positions, `free_count`, the tokens (which task waits for a descriptor), the tasks
(`pc`, `cond`) and the shadow process (`jobs`). Each critical section under `meta.lock` is an
action: `Send`, `PopResponse` (one turn of `handle_irq`), `PopRequest`, `PushResponse`;
outside it are `SysCall`, `Return`, `Setup` and `Execute`. A request is named by its task and
the number of the call, and the value Linux returns is that name, so that a mix-up is
visible. `executed` is a history variable. Argument buffers are left to `DataPool`.

**`ScfSystem`** extends it with everything around the buffer: the pending interrupt `ipi`, the
signal queue, the registration with the driver, start-up, the two levels at which the
main thread can be in `poll_requests` (`level`: from `nimbos_setup_syscall`, and from the
signal handler that interrupts it), the lock, the timer interrupt, and the end of the
process: by a signal before the handler is installed (`Killed`), or by the assertion
on the result of a write (`WriteAborts`), which may leave the lock taken. Each of its actions
that touches the buffer is built from the action of `ScfQueue`, so that what is proved of
`ScfQueue` holds here.

**`ScfGuest`** replaces Linux by anything that can call `push_syscall_response`: any
descriptor index in range, any ring position, at any time. It stands for shadow processes
that are killed, started again, or several at once.

**`DataPool`** is the buddy heap from which `sys_read` and `sys_write` take a block for the data
and one for the arguments. Addresses count words of 8 bytes; allocation and deallocation get
the size class of the layout the code passes. The heap is a library, modelled from its use:
a block of the smallest class that has one is split, a freed one is merged with its buddy.

**`Hypervisor`** models the two driver commands (`EnableBegin`/`End`, `DisableBegin`/`End` under
`jailhouse_lock`) and a program counter per CPU for the entry of the image: the barriers on
`ENTERED_CPUS`, `INIT_EARLY_OK`, `INITED_CPUS`, `INIT_LATE_OK`, the error paths through
`ERROR_NUM` (store and load are separate steps), `vmlaunch`, and `hypervisor_disable`. The bodies
of the initialisation are a choice between success and an error. `context` records whether the CPU
has Linux's page table and descriptor tables loaded or those of the image: a CPU that fails after
`PerCpu::init` has loaded the image's cannot return into Linux's code and is `"lost"`
(`arch_entry_return`). A failed `vmlaunch` (`VmLaunchFails`) goes on with the guest's registers,
and may get back with an error, end in the panic handler, or be lost.

**`MemoryMap`** follows memory through one enable command after the other: the driver's scan
of the resources (`Scan`, one per step: rounding, cutting out the hypervisor, merging with
the last region), the resource it requests for the hypervisor, and in RVM the construction
of the root cell's memory set (`insert`) and page table (`map_page`, small and large pages),
which may run out of frames at any page; the request may fail, too. Addresses are small
numbers.

**`RtosLifecycle`** interleaves enable commands of several processes, a disable command and the
loading and unloading of the `nimbos-driver` module. `rt_region`, which the commands write before
they take the lock and the module reads without it, is read and written word by word, and its copy
from user memory may fail half way (`CopySize`). `rt` is what the RT CPU does, `page` what is on
the start page that RVM borrows from Linux to boot it, `n` where the module is; a hypercall
outside a guest is an invalid instruction (`"oops"`).

**`TaskManager`** models the single CPU of NimbOS. All its locks turn interrupts off, so that a
critical section is an action and the timer may strike between any two. `strong_count`
counts the `Arc`s of a task from where they are stored; failing assertions and
`unreachable!()` are recorded in `panicked`, which stops the system. Exit codes and register
contents are left out; an address space is either there or cleared.

**`Uintr`** models user interrupts on that CPU: the registers (`msr`: UIF, and whose UPID and
target table they point to), their copies in the frames of tasks that do not run, the
UPIDs (ON and PUIR), a pending notification `ipi`, and the senders: tasks of NimbOS and
threads of Linux. `deliver` and `drop` are the two ways QEMU treats vector 0xec; a dropped
notification leaves ON set, so that only the look at PUIR in `switch_to` recovers it. A task may set
UIF without a UPID, and a notification is then processed with none (`deliver_nowhere`). A vector is
any byte, and `ShiftedBits` says which bits QEMU's shift of an `int` sets for it. `owed` is a history
variable: what was sent and not yet handled.

A definition introduced by "slip:" is a plausible mistake in the definition that follows
it. Put in its place it violates the property `PROJECT.json` names, which shows that the
property depends on that line of the code.

## Runs

| Run | Question | Distinct states | Result |
|---|---|---|---|
| `queue` | 3 tasks, 2 descriptors, indices wrap at 4: are descriptors, tokens and results exact; does the buffer implement `SyscallRpc`? | 281,670 up to symmetry | yes |
| `system` | 2 tasks with interrupt, signals, start-up, two levels, lock: is a request ever forgotten, do the levels serve the same request? | 2.5 million up to symmetry | no |
| `system_live` | does every call return, does every call that was answered? | 292,913 | yes, if no notification hits the start-up and the shadow process does not die of a short write; an answered one also then, unless the lock was left taken |
| `guest` | does the bookkeeping of NimbOS survive any shadow process? | 620,291 | yes |
| `hypervisor` | 3 CPUs, any initialisation step or `vmlaunch` may fail: do they change over together, is memory mapped while used, does every command end? | 50,165 | yes until a `vmlaunch` fails, after which the CPUs are not together; an enable that loses a CPU does not end |
| `memory` | every list of up to 3 resources that begin and end at 9 addresses, 3 places for the hypervisor, enabled and disabled repeatedly: are the regions disjoint pages, does RVM accept them, what does the guest see? | 655,440 | as promised; the array needs one entry more if the hypervisor is cut out of the middle of a resource |
| `rtos` | 2 processes, 2 regions, one inside the other: who owns the RT CPU, where does NimbOS start, what stays registered? | 4.9 million | one owner, inside the RT memory, nothing left behind |
| `tasks` | a kernel task and a shell with up to 2 descendants: queue, tree, counts, address spaces, shutdown; does each ready task run, is each orphan reaped? | 17,454 | exact; yes |
| `uintr` | 2 tasks and a thread of Linux send and are preempted anywhere: whose registers are loaded, is a posted interrupt lost, is it delivered? | 44,176 | exact for tasks with one vector; of two vectors pending together one is lost |
| `vector_shift` | does `senduipi` set the bit of its vector, for every vector NimbOS accepts? | | no, finding |
| `setup_stuck` | does the first poll of the start-up complete? | | no, finding |
| `pool_full` | does the data pool suffice for calls that fit into it? | | no, finding |

`queue`, `guest`, `uintr`, `memory` and `rtos` check for deadlock. The others do not,
because the system really stops: a dead shadow process leaves NimbOS waiting, the machine
is shut down or panics, and after a failed `vmlaunch` or with a lost CPU this model follows
the CPUs no further. (In `rtos` a process that is stuck in an invalid instruction leaves the
commands of the others going.)

### Bounds

- `Capacity` 2 with three tasks: the table is full while another task wants to send. `IndexMod`
  4 stands for 2^16: it is twice the capacity, so that the positions wrap and the slot of a
  position is reused before they do. `CapacityAssumption` states what the code's values
  satisfy, and the proofs cover all of them.
- `MaxCalls` numbers the calls of a task modulo 2 (or 1 where only the current call matters).
- `MaxSignals` 1: a second signal is dropped, as at `RLIMIT_SIGPENDING`.
- Three CPUs: the one that fails, one that waits and one that is ahead are different. `Error` has
  one member: an initialisation error differs from `EBUSY` and `EIO`, not from another.
- `MaxPid` 5 with `Boot` 3: root, a kernel task, the shell and two descendants, enough for
  two siblings, or child and grandchild, in every order of exit. Process ids are not
  reused. With one descendant more liveness takes ten minutes; the invariants are proved
  for every `MaxPid`. The code spawns two equal kernel tasks; the model has one.
- Pages of 2 and large pages of 4 in `memory`: resources may share a page, and a large page holds
  the end of one region and the beginning of the next. Three resources: one before, one
  around or beside, and one after the hypervisor.
- Two callers and two regions in `rtos`: one command is refused, or overwrites `rt_region`, while
  another is under way; of overlapping regions one entry is in both and one is not.
- Two tasks in `uintr`, one with one vector and two senders, one with two vectors; the table has one
  entry (`MaxUitt`), so that it is full. `vector_shift` has links with vectors above 30.
- Two tasks and 16 words in `pool_full`: the four blocks of two calls never need more than four
  words each, so that a heap which got back what it gave would never be exhausted.

### Fairness

- `ScfSystem`: strong fairness per task, since the scheduler is round robin (`NoStarvation`) and a
  waiting task tries again at each turn; weak fairness of the timer, the interrupt, and the
  main thread; strong fairness for read threads, which poll a lock that is free most of the time.
  Tasks are not required to make calls.
- `Hypervisor`: each CPU runs with interrupts off from entry to return and the driver spins:
  weak fairness for each. A new command is never required.
- `TaskManager`: the timer keeps ticking (weak fairness of `yield_current`); a tick is long
  enough for the root task to take a step eventually although it is preempted again and
  again (strong fairness of `RootStep`). Other tasks may do nothing for ever.
- `Uintr`: the timer keeps ticking, other CPUs send the notifications they have begun, and a
  notification that is not delivered is dropped or processed without a UPID. Ticks
  are independent of what a program does, so a task that is in user mode with UIF set
  again and again is interrupted there some time, and does not lose every notification to
  a tick (strong fairness, per task). `PostedIsDelivered` is stated of such tasks only: one that
  keeps UIF clear gets nothing, as it should.

`EveryCallReturns` is checked with as many tasks as descriptors: the code gives no order among
tasks that wait for a descriptor. It also takes a read to end some time and its thread to
be created.

## Proofs

Every invariant, action property and refinement that a passing run checks is also a
theorem, and so are type invariants that no run lists. Each theorem is about
every value of the constants that satisfies the named assumptions, which TLC evaluates in
the runs of the modules that declare them. The theorems on `ScfSystem` are about `SysSafety`,
its specification without fairness.

**The buffer.** `ScfQueueProofs` proves type correctness, the invariants of
run `queue` (`FreeCountIsExact`, `EveryDescriptorInOnePlace`, `TokensAlwaysWait`,
`CallsReturnTheirResult`), that no call is executed twice (`ExecutedAtMostOnce`), and the action
property `EveryResponseWakes`. Assumptions: `CapacityAssumption` (the capacity
divides the index range and is smaller), `CallsAssumption`, `TokenAssumption` (the null token is
no task). None of the invariants is inductive by itself. `FreeCountExact` needs that a
descriptor on the response ring is valid and on it once; that needs that no slot is
overwritten before it is read; that follows from counting, since ring entries, jobs and
free descriptors add up to the capacity, and from arithmetic on wrapped positions
(`SlotsDiffer`, `RingPush`, `RingPop`): fewer than `Capacity` consecutive positions have different
slots, across the wrap too. The inductive invariant `IInv` is the conjunction of `TypeOK`,
`Indices` (the private copies of the indices agree with the published ones), `Counts`, `Places`
(each descriptor is in one place, once), `Tokens` (a descriptor is valid exactly if it has a
token, and each token's task waits for exactly that call) and `Results` (what a job or a
response carries belongs to the call in the descriptor, and how often that call was
executed).

**The system around it.** `QueueImplementsRpc` in `ScfSystemProofs` maps each action of `ScfQueue`
to a step of `SyscallRpc` or a stutter. The steps of `ScfSystem` are steps of `ScfQueue` or leave
the buffer alone by the way they are written, which is a lemma; with it `SystemImplementsRpc` says
that the whole system, with interrupts, handler and death, still carries out no call twice and
gives each its own answer. Of the system itself it proves `SysTypeCorrect`,
`NoRequestEverForgotten` and `LevelsAlwaysApart`. The invariant `SysInv` has two parts beside the
types. `OnItsWay` (with `Listening` and `Registered`, which say at which points of the start-up
the process is registered and alive): when requests are on the ring and neither the first poll nor
the handler is at work, a signal is queued, an interrupt is pending, or a task is about to send
one; this is what makes it harmless that a second interrupt or signal is absorbed.
`LevelsServeApart`: what the handler and the poll it interrupted hold are different jobs, each
still there. That a job stays where it is until its own level pushes it (`JobsKept`) uses that a
descriptor is in one place, from `ScfQueueProofs`.

**Any shadow process.** `ScfGuestProofs` proves the invariants of run `guest` (`TokensSurvive`,
`OneDescriptorAlways`) and that `free_count` stays exact (`FreeCountSurvives`). Nothing can be
said about the rings here, and nothing is needed: the invariant adds that a descriptor is valid
exactly if it has a token (`ValidIffToken`), which a response cannot change, and that a task about
to send has not been signalled.

**The hypervisor.** `HypervisorProofs` proves type correctness, `EnterAfterAll`, `LeaveAfterAll`,
`AllOrNone` and `StaysMapped` for any number of CPUs and any error codes that differ from the
model's own. The barriers compare counters, so the invariant bounds each counter by the number of
CPUs that are past the place where it is increased (`EnableCounts`): a counter that has reached
the number of all CPUs shows that all of them are past it. `EnablePlaces` says what follows for a
CPU behind a barrier and how errors travel, and that a CPU back in Linux after an error never
loaded the image's tables, or saw a `vmlaunch` fail; `DisableInv` is the counterpart for the way
out, and `IdleInv` says how a command leaves the CPUs for the next.

**Memory.** `MemoryMapProofs` proves all properties of run `memory` for every page size, every
large page size that is a multiple of it, every ordered list of disjoint resources and every
page-aligned region of the hypervisor (`SizeAssumption`, `RegionAssumption`; `NoneAssumption` says
that "no error" is not an error). The invariant has three parts, one on top of the other. `IInv`,
for `RegionsStayApart`: the resources stay in order when the hypervisor's is inserted (`InOrder`),
and every region ends no later than the page in which the last resource scanned ends (`Below`), on
which the merging of neighbours rests. `ScanInv`, for `RegionsAlwaysFit`: the regions show the
pages of the resources seen so far, with their rights, and nothing else (`Covered`); each resource
adds one region, and two if it is cut, which can happen to one of them only because they do not
overlap. `MapInv`, for `RegionsAlwaysAccepted` and `ReservedAlwaysAccepted`: what was inserted is
a prefix of the list that `Cell::new_root` works through (`Inserting`), and the page table maps
exactly this prefix and the current region up to `va`, without overlaps (`Mapping`). Since every
region is whole pages, a large page never reaches beyond the current region, so that no entry and
no table is in its way (`NotMapped`). `GuestSeesItsMemory` (`GuestView`) follows from the three:
an address is in one region at most, which is mapped in full.

**Tasks.** `TaskManagerProofs` proves the invariants of run `tasks` for every `MaxPid` and `Boot`
with `PidAssumption`: `TypeCorrect`, `NothingPanics`, `QueueIsExact`, `EveryTaskHasOneParent`,
`ShutdownIsLast` and `AddressSpacesKept`. The inductive invariant adds what the code relies on
without saying so: the list of a parent has exactly its children, each once (`ListsExact`), every
task that exists is in the list of its parent, which is no zombie (`Listed`); what the task that
runs is in the middle of (`OpFits`), and what is spawned and not yet in the queue (`NewbornFits`);
the root task and the idle task never end (`FirstTwo`); and process ids at or above `next_pid` are
not in use (`PidsFresh`). A parent is older than its children, so that the oldest task that is
left is a child of the root task (`NoChildrenNoTasks`): when the root task has no children there
is no other task, which is why `ShutdownLast` holds.

**The RT CPU.** `RtosLifecycleProofs` proves `TypeCorrect`, `StartsInside`, `OneOwnerAlways`,
`NothingLeftBehind` and `LoadedMeansStarted` for any number of callers and any regions. Its
invariant has two parts: `Commands` relates the place of each command to the lock, to the CPUs
being guests and to the RT CPU being offline; `Module` says what is registered at each step of the
module and that a boot under way keeps the hypervisor from being left.

**User interrupts.** `UintrProofs` proves `TypeCorrect`, `RegistersStay` and `NothingLost` for any
tasks, senders and vectors up to 255 (`LinkAssumption`): what the frames hold for tasks that do
not run is the same as what the registers hold for the one that does. `PostedIsOwed` speaks of
tasks whose vectors are below 31, the ones for which QEMU's shift sets the bit of the vector
(`LowBits`); the other vectors are there and disturb neither.

Only model-checked: the liveness properties `EveryCallReturns`, `AnsweredCallsReturn`,
`CommandsEnd`, `NoStarvation`, `OrphansReaped` and `PostedIsDelivered`, because fairness and
ENABLED are outside the prover; and the three findings, whose runs end with a counterexample.
`DataPool` has no theorem: its heap is a library, and its only property is the one that fails.

## Findings

1. `setup_stuck`: the signal handler is installed before the first `poll_requests` (`syscall.c:164`); it can
   interrupt that inside the critical section and then spins for a lock its own thread
   holds. A signal a little earlier, between the registration (160) and the installation of
   the handler (161), kills the process; the property excludes that as well.
2. `pool_full`: `dealloc` (`allocator.rs:76`) passes the heap the layout of one byte for a buffer of `len`
   bytes. Of a buffer longer than 8 bytes all but the first 8 are lost, and after enough
   calls the assertion "syscall data pool is full" stops the kernel.
3. `vector_shift`: `senduipi` computes `1<<uitte.user_vec` in an `int` (`misc_helper.c:115`) where the comment
   above it says "tempUPID.PIR[tempUITTE.UV] := 1;". Vectors 32 to 63 set the bit of another
   vector, and 31 sets bits 31 to 63, so that the handler is entered for 63. NimbOS takes any
   byte as a vector (`syscall/uintr.rs:231`).

Plain from the code or from the models, without a run of their own:

- Behind the last barrier one CPU may fail in `vmlaunch` while others are guests and returned
  0; the driver then unmaps the image. The comment at `jailhouse/driver/main.c:166`, "either
  returns 0 or the same error code across all CPUs", is also too strong for the barriers
  before, since a waiting CPU stores `EBUSY` over the error of the CPU it waits for
  (`main.rs:149`). `AllOrNothing` and `MappedWhileUsed` except a failed `vmlaunch`.
- An error in `PerCpu::init` or behind it hangs the enable command: the image's page table is
  loaded (`percpu.rs:82`), nothing loads Linux's again, and the return (`entry.rs:19-56`) is over
  Linux's stack and code. The driver waits for that CPU for ever (`main.c:588`). `CommandsEnd`
  says exactly this.
- A write that takes fewer bytes than asked for fails an assertion and ends the shadow process
  (`syscall.c:89`): calls that are not answered never return. If a read thread is inside the
  critical section at that moment, the lock stays taken and NimbOS spins on it with
  interrupts off. `EveryCallReturns` and `AnsweredCallsReturn` except these.
- A task that sets UIF without having registered a handler, and is notified, makes QEMU work on
  the UPID address 0, of which it ignores the failed translation (`excp_helper.c:352-364`).
- A restarted shadow process begins at request 0 and repeats calls (`scf.c:49`).
- `exec` in a task that has called `clone`, and not yet waited for it, fails its assertion
  (`structs.rs:270`); `TaskManager` records it, and `NoPanic` excepts it.
- The driver's array of regions has one entry too few when the hypervisor's region lies
  inside a resource (`RegionsFit` says exactly when).
- A hypervisor region that no resource contains is refused when it is enabled a second time
  (`ReservedAccepted`).
- The second of two vectors that are pending together stays in UIRR and is overwritten
  (`PostedIsOwed`).
- The module stays loaded when the hypercall that starts NimbOS fails (`StartedIfLoaded`).

## Not modelled

- QEMU outside the user-interrupt helpers, by far the largest part of the source tree, is
  upstream code that this system runs on and does not change. Likewise Linux.
- VM exits and CPU state of RVM: emulation of single instructions on the registers of one
  CPU.
- Memory of NimbOS (frame allocator, memory sets, user access): sequential code under one lock;
  `TaskManager` knows whether an address space is there.
- Boot code, device drivers and user programs: straight-line, or the arbitrary callers of the
  models.
- The list of several registered processes in the driver, read in the interrupt and changed
  without a lock: what a torn list does is undefined.
- The end of a task with a UPID: the UPID is freed while senders still point to it.
- The weak memory of the two sides of the buffer: every access is under the lock, with
  fences on both sides.
- CPU hot-plug by Linux: `cpu_down` and `cpu_up` of the RT CPU are taken to succeed, and the delay
  after the startup IPIs, by which the start page is restored, to be long enough. The driver
  compares `call_done` with `num_online_cpus()`, which is constant here.
- What Linux does on CPUs that a failed enable left behind: `EnableBegin` requires that
  there are none. Of a failed `vmlaunch` the model has the three ways the code can go on, not
  what it may overwrite on them; likewise what is written at address 0 in `deliver_nowhere`.
- A failing `deactivate_vmm`, and so a disable command that fails: `vmclear` and `vmxoff` succeed
  on a CPU in VMX operation.
- `send_ipi` sends nothing if the IOAPIC entry has no vector (`apic.rs:44`). The module requests the
  interrupt before it starts NimbOS (`main.c:140`, `147`), so that `Notify` takes it to be set.
- Page sizes other than a small and one large one, and frames for the upper levels of the
  page table: `map_page` may run out of frames at any small or large page, which ends the
  command in the same way.
- The creation of a task in `TaskManager` is one step (`NewTask`): it is not in any list or queue
  before it is complete.
- The race of two enable commands on `hv_region` (`MemoryMap` runs one command at a time); the request
  `INIT_UINTR`; errors of `pthread_create`, whose result the code ignores.
