---------------------------- MODULE TaskManager -----------------------------
(***************************************************************************)
(* The tasks of NimbOS on its one CPU: the round-robin queue, the switch,  *)
(* the family tree, and fork, clone, exec, exit and waitpid (kernel/src/   *)
(* task and syscall/task.rs).                                              *)
(*                                                                         *)
(* Every lock is a SpinNoIrqLock, so what happens under one is a single    *)
(* step; between two of them the timer may take the CPU away.  A failed    *)
(* assertion stops the kernel and is recorded in panicked.                 *)
(***************************************************************************)
EXTENDS Integers, Sequences, Functions, FiniteSets

CONSTANTS
  MaxPid,   \* bound: the last pid that is handed out
  Boot,     \* the last pid of the tasks init() spawns
  Kernel    \* those of them, beside the root task, that run in the kernel

ASSUME PidAssumption ==
  /\ MaxPid \in Nat /\ Boot \in 1..MaxPid
  /\ Kernel \subseteq 2..Boot

VARIABLES
  state,      \* Task.state, "none" before the task is made, "gone" once it is dropped
  children,   \* Task.children
  parent,     \* Task.parent
  vm,         \* Task.vm: the task its address space was made for
  cleared,    \* the address spaces that were cleared
  ready,      \* SimpleScheduler.ready_queue
  current,    \* PerCpu.current_task
  next_pid,   \* NEXT_PID
  op,         \* what each task is in the middle of
  newborn,    \* sys_fork, sys_clone: new_task between its creation and its spawn
  off,        \* the machine was shut down
  panicked    \* the assertions that failed

treeVars  == <<children, parent>>
vmVars    == <<vm, cleared>>
schedVars == <<state, ready, current>>
vars == <<state, children, parent, vm, cleared, ready, current, next_pid, op,
          newborn, off, panicked>>

idle == 0
root == 1
Task == 0..MaxPid
NoVm == -1
curr_task == current

-----------------------------------------------------------------------------
Exists(t)  == state[t] \notin {"none", "gone"}
is_user(t) == vm[t] # NoVm
Alive      == ~off /\ panicked = {}

\* the children of every task, as pairs of a task and a place in its list
Places(kids) == UNION {{<<p, i>> : i \in 1..Len(kids[p])} : p \in Task}

\* Arc::strong_count of a task: the ready queue q, the lists of children kids, and
\* what else is at hand
strong_count(t, q, kids, other) ==
  Cardinality({i \in 1..Len(q) : q[i] = t})
    + Cardinality({x \in Places(kids) : kids[x[1]][x[2]] = t})
    + Cardinality({p \in Task : t # idle /\ newborn[p] = t})
    + (IF t \in {idle, root} THEN 1 ELSE 0)
    + other

\* Arc::strong_count of an address space
vm_count(a) == Cardinality({t \in Task : Exists(t) /\ vm[t] = a})

Failed(name, assertion) == IF assertion THEN {} ELSE {name}

Init ==
  /\ state = [t \in Task |-> CASE t = idle -> "Running" [] t \in 1..Boot -> "Ready"
                               [] OTHER -> "none"]
  /\ children = [t \in Task |-> IF t = root THEN [i \in 1..(Boot - 1) |-> i + 1] ELSE <<>>]
  /\ parent = [t \in Task |-> IF t \in 2..Boot THEN root ELSE idle]
  /\ vm = [t \in Task |-> IF t \in (2..Boot) \ Kernel THEN t ELSE NoVm]
  /\ cleared = {}
  /\ ready = [i \in 1..Boot |-> i]
  /\ current = idle
  /\ next_pid = Boot + 1
  /\ op = [t \in Task |-> "run"]
  /\ newborn = [t \in Task |-> idle]
  /\ off = FALSE
  /\ panicked = {}

-----------------------------------------------------------------------------
(* TaskManager *)

\* resched and switch_to, from the queue, the states and the lists the caller leaves.
\* The task that is resumed goes on behind its own switch, and for the idle task
\* and for a zombie that is unreachable!().
resched(q, st, kids) ==
  LET next == IF q = <<>> THEN idle ELSE Head(q)
      rest == IF q = <<>> THEN q ELSE Tail(q)
  IN  /\ current' = next
      /\ ready' = rest
      /\ state' = [st EXCEPT ![next] = "Running"]
      /\ panicked' =
           Failed("resched", st[curr_task] # "Running")
             \cup Failed("switch_to", \A t \in {curr_task, next} :
                           next # curr_task => strong_count(t, rest, kids, 1) > 1)
             \cup Failed("root task exit", next # idle)
             \cup Failed("task exited", st[next] # "Zombie")

\* slip: the task that yields is put back in front
yield_to_front ==
  /\ Alive
  /\ resched(IF curr_task = idle THEN ready ELSE <<curr_task>> \o ready,
             [state EXCEPT ![curr_task] = "Ready"], children)
  /\ UNCHANGED <<treeVars, vmVars, next_pid, op, newborn, off>>

\* yield_current: sys_yield, each turn of sys_nanosleep, and the timer
yield_current ==
  /\ Alive
  /\ resched(IF curr_task = idle THEN ready ELSE Append(ready, curr_task),
             [state EXCEPT ![curr_task] = "Ready"], children)
  /\ UNCHANGED <<treeVars, vmVars, next_pid, op, newborn, off>>

\* slip: the list of the task that exits keeps its children
exit_keeping_children ==
  /\ Alive /\ op[curr_task] = "exit"
  /\ children' = [children EXCEPT ![root] = @ \o children[curr_task]]
  /\ parent' = [t \in Task |-> IF t \in Range(children[curr_task]) THEN root ELSE parent[t]]
  /\ resched(ready, [state EXCEPT ![curr_task] = "Zombie"], children')
  /\ UNCHANGED <<vmVars, next_pid, op, newborn, off>>

\* exit_current: the children go to the root task
exit_current ==
  /\ Alive /\ op[curr_task] = "exit"
  /\ children' = [children EXCEPT ![root] = @ \o children[curr_task], ![curr_task] = <<>>]
  /\ parent' = [t \in Task |-> IF t \in Range(children[curr_task]) THEN root ELSE parent[t]]
  /\ resched(ready, [state EXCEPT ![curr_task] = "Zombie"], children')
  /\ UNCHANGED <<vmVars, next_pid, op, newborn, off>>

\* slip: the task is spawned twice
spawn_twice ==
  /\ Alive /\ op[curr_task] = "spawn"
  /\ panicked' = Failed("spawn", state[newborn[curr_task]] = "Ready")
  /\ ready' = ready \o <<newborn[curr_task], newborn[curr_task]>>
  /\ newborn' = [newborn EXCEPT ![curr_task] = idle]
  /\ op' = [op EXCEPT ![curr_task] = "run"]
  /\ UNCHANGED <<state, treeVars, vmVars, current, next_pid, off>>

\* spawn_task
spawn ==
  /\ Alive /\ op[curr_task] = "spawn"
  /\ panicked' = Failed("spawn", state[newborn[curr_task]] = "Ready")
  /\ ready' = Append(ready, newborn[curr_task])
  /\ newborn' = [newborn EXCEPT ![curr_task] = idle]
  /\ op' = [op EXCEPT ![curr_task] = "run"]
  /\ UNCHANGED <<state, treeVars, vmVars, current, next_pid, off>>

-----------------------------------------------------------------------------
(* System calls *)

\* new_fork and new_clone: a task with an address space of its own, or of its parent's
NewTask(space) ==
  /\ Alive /\ op[curr_task] = "run" /\ is_user(curr_task) /\ next_pid <= MaxPid
  /\ next_pid' = next_pid + 1
  /\ state' = [state EXCEPT ![next_pid] = "Ready"]
  /\ children' = [children EXCEPT ![curr_task] = Append(@, next_pid)]
  /\ parent' = [parent EXCEPT ![next_pid] = curr_task]
  /\ vm' = [vm EXCEPT ![next_pid] = space]
  /\ newborn' = [newborn EXCEPT ![curr_task] = next_pid]
  /\ op' = [op EXCEPT ![curr_task] = "spawn"]
  /\ UNCHANGED <<cleared, ready, current, off, panicked>>

sys_fork  == NewTask(next_pid)
sys_clone == NewTask(vm[curr_task])

\* exec reloads the address space in place, which it asserts to be the task's own
sys_exec ==
  /\ Alive /\ op[curr_task] = "run" /\ is_user(curr_task)
  /\ panicked' = Failed("exec", vm_count(vm[curr_task]) = 1)
  /\ UNCHANGED <<schedVars, treeVars, vmVars, next_pid, op, newborn, off>>

\* slip: a kernel task's missing address space is cleared like any other
exit_unwrapped ==
  /\ Alive /\ op[curr_task] = "run" /\ curr_task \notin {idle, root}
  /\ op' = [op EXCEPT ![curr_task] = "exit"]
  /\ cleared' = cleared \cup {a \in {vm[curr_task]} : a = NoVm \/ vm_count(a) = 1}
  /\ UNCHANGED <<schedVars, treeVars, vm, next_pid, newborn, off, panicked>>

\* slip: the address space goes with the first task that leaves it
exit_clearing ==
  /\ Alive /\ op[curr_task] = "run" /\ curr_task \notin {idle, root}
  /\ op' = [op EXCEPT ![curr_task] = "exit"]
  /\ cleared' = cleared \cup ({vm[curr_task]} \ {NoVm})
  /\ UNCHANGED <<schedVars, treeVars, vm, next_pid, newborn, off, panicked>>

\* exit, up to the lock of the task manager: a system call, a fault, an unknown system
\* call, or the end of a kernel task's function
exit ==
  /\ Alive /\ op[curr_task] = "run" /\ curr_task \notin {idle, root}
  /\ op' = [op EXCEPT ![curr_task] = "exit"]
  /\ cleared' = cleared \cup {a \in {vm[curr_task]} \ {NoVm} : vm_count(a) = 1}
  /\ UNCHANGED <<schedVars, treeVars, vm, next_pid, newborn, off, panicked>>

\* the places in the list of the current task that waitpid(pid) takes a child from
Zombies(pid) ==
  {i \in 1..Len(children[curr_task]) :
     LET t == children[curr_task][i] IN pid \in {-1, t} /\ state[t] = "Zombie"}

\* Vec::remove
remove(s, i) == SubSeq(s, 1, i - 1) \o SubSeq(s, i + 1, Len(s))

\* waitpid, when it finds a zombie: the first one leaves the list and is dropped
Reap(pid) ==
  \E i \in Zombies(pid) :
    LET child == children[curr_task][i] IN
    /\ \A j \in Zombies(pid) : i <= j
    /\ children' = [children EXCEPT ![curr_task] = remove(@, i)]
    /\ panicked' = Failed("waitpid", strong_count(child, ready, children', 1) = 1)
    /\ state' = [state EXCEPT ![child] = "gone"]
    /\ UNCHANGED <<parent, vmVars, ready, current, next_pid, newborn, off>>

sys_waitpid(pid) ==
  /\ Alive /\ op[curr_task] = "run" /\ is_user(curr_task)
  /\ Reap(pid)
  /\ UNCHANGED op

-----------------------------------------------------------------------------
(* The root task: reap what there is, then shut down or yield *)

\* slip: only the oldest child is looked at
RootReapOldest ==
  /\ Alive /\ curr_task = root /\ op[curr_task] = "run"
  /\ \/ 1 \in Zombies(-1) /\ Reap(-1) /\ UNCHANGED op
     \/ /\ 1 \notin Zombies(-1)
        /\ op' = [op EXCEPT ![curr_task] = "check"]
        /\ UNCHANGED <<schedVars, treeVars, vmVars, next_pid, newborn, off, panicked>>

RootReap ==
  /\ Alive /\ curr_task = root /\ op[curr_task] = "run"
  /\ \/ Reap(-1) /\ UNCHANGED op
     \/ /\ Zombies(-1) = {}
        /\ op' = [op EXCEPT ![curr_task] = "check"]
        /\ UNCHANGED <<schedVars, treeVars, vmVars, next_pid, newborn, off, panicked>>

\* slip: the root task looks for children that run, not for any
RootShutdownReady ==
  /\ Alive /\ curr_task = root /\ op[curr_task] = "check"
  /\ \A i \in 1..Len(children[curr_task]) : state[children[curr_task][i]] = "Zombie"
  /\ off' = TRUE
  /\ UNCHANGED <<schedVars, treeVars, vmVars, next_pid, op, newborn, panicked>>

RootShutdown ==
  /\ Alive /\ curr_task = root /\ op[curr_task] = "check"
  /\ children[curr_task] = <<>>
  /\ off' = TRUE
  /\ UNCHANGED <<schedVars, treeVars, vmVars, next_pid, op, newborn, panicked>>

RootYield ==
  /\ Alive /\ curr_task = root /\ op[curr_task] = "check"
  /\ children[curr_task] # <<>>
  /\ op' = [op EXCEPT ![curr_task] = "run"]
  /\ resched(Append(ready, curr_task), [state EXCEPT ![curr_task] = "Ready"], children)
  /\ UNCHANGED <<treeVars, vmVars, next_pid, newborn, off>>

-----------------------------------------------------------------------------
RootStep == RootReap \/ RootShutdown \/ RootYield

Next ==
  \/ yield_current \/ exit \/ exit_current \/ spawn
  \/ sys_fork \/ sys_clone \/ sys_exec
  \/ \E pid \in {-1} \cup (2..MaxPid) : sys_waitpid(pid)
  \/ RootStep

\* the timer keeps ticking, and a tick is long enough for the root task, however often
\* it is preempted, to take its next step in the end
Fairness == WF_vars(yield_current) /\ SF_vars(RootStep)

Spec == Init /\ [][Next]_vars /\ Fairness

-----------------------------------------------------------------------------
(* Properties *)

TypeOK ==
  /\ state \in [Task -> {"none", "Ready", "Running", "Zombie", "gone"}]
  /\ children \in [Task -> Seq(Task)] /\ parent \in [Task -> Task]
  /\ vm \in [Task -> Task \cup {NoVm}] /\ cleared \subseteq Task
  /\ ready \in Seq(Task) /\ current \in Task /\ next_pid \in 1..(MaxPid + 1)
  /\ op \in [Task -> {"run", "spawn", "exit", "check"}]
  /\ newborn \in [Task -> Task]
  /\ off \in BOOLEAN

\* No assertion about states and reference counts fails, nothing marked unreachable is
\* reached: a task is never dropped while it runs, never resumed after its exit, and is
\* down to its last reference when waitpid takes it.  (exec's assertion is apart:
\* it does fail, in a task that shares its address space with one it cloned.)
NoPanic == panicked \subseteq {"exec"}

\* The ready queue holds each task that waits for the CPU once, and no other.
QueueExact ==
  /\ IsInjective(ready)
  /\ Range(ready) = {t \in Task \ {idle} : state[t] = "Ready" /\ t \notin Range(newborn)}
  /\ {t \in Task : state[t] = "Running"} = {current}

\* Every task is in the list of exactly one other, its parent, which is not a zombie:
\* nobody is lost to waitpid, whoever exits in whatever order.
OneLivingParent ==
  \A t \in 2..MaxPid :
    LET in == {x \in Places(children) : children[x[1]][x[2]] = t} IN
    IF Exists(t)
    THEN /\ Cardinality(in) = 1
         /\ \A x \in in : x[1] = parent[t] /\ state[parent[t]] \in {"Ready", "Running"}
    ELSE in = {}

\* The root task shuts the machine down only when every other task has been reaped.
ShutdownLast == off => \A t \in 2..MaxPid : ~Exists(t)

\* A task that has not begun to exit still has its address space.
AddressSpaceKept ==
  \A t \in Task : Exists(t) /\ op[t] # "exit" => vm[t] \notin cleared

\* Round robin: a task in the queue gets the CPU, unless the machine stops.
NoStarvation ==
  \A t \in 1..MaxPid : t \in Range(ready) ~> (current = t \/ ~Alive)

\* What the root task inherits it reaps.
OrphansReaped ==
  \A t \in 2..MaxPid :
    state[t] = "Zombie" /\ parent[t] = root ~> state[t] = "gone" \/ ~Alive
=============================================================================
