----------------------------- MODULE ScfSystem -----------------------------
(***************************************************************************)
(* Syscall forwarding with what surrounds the buffer of ScfQueue: the      *)
(* inter-processor interrupt a task sends after its request, the interrupt *)
(* handler and the signal of the Linux driver, the start-up of the shadow  *)
(* process, its signal handler and its read threads, the cross-domain spin *)
(* lock, and the timer interrupt of NimbOS that collects the responses.    *)
(*                                                                         *)
(* The main thread of the shadow process runs poll_requests at two levels: *)
(* from nimbos_setup_syscall and from the signal handler, which interrupts *)
(* the former between any two steps.  Its lock acquisitions are therefore  *)
(* steps of their own.  A critical section of NimbOS (interrupts off) or   *)
(* of a read thread cannot be interrupted by code that takes the lock, and *)
(* is one step taken while the lock is free.                               *)
(***************************************************************************)
EXTENDS ScfQueue

CONSTANTS
  Uses,        \* the forwarded calls the program of each task makes
  MaxSignals,  \* bound: queued signals, RLIMIT_SIGPENDING in Linux
  QuietStart   \* whether no notification arrives between the ioctl and the
               \* end of the first poll_requests of nimbos_setup_syscall

ASSUME UsesAssumption == Uses \in [Task -> SUBSET Opcode]

ASSUME SignalAssumption == MaxSignals \in Nat \ {0} /\ QuietStart \in BOOLEAN

VARIABLES
  notify,      \* NimbOS: the task is about to call notify
  irq,         \* NimbOS: handle_irq runs in the timer interrupt
  ipi,         \* the interrupt is pending at the Linux CPU
  registered,  \* driver: the shadow process is in the list of handlers
  signals,     \* Linux: signals queued for the main thread
  dead,        \* Linux: the shadow process was killed
  base,        \* main thread: progress of nimbos_setup_syscall
  level,       \* main thread: where each level of poll_requests is
  serving,     \* main thread: the write each level is serving
  lock         \* shared: meta.lock, free, held by a level of the main thread, or left
               \* by a read thread that died with it

Level == {"setup", "handler"}

sysVars == <<notify, irq, ipi, registered, signals, dead, base, level, serving, lock>>
shadowVars == <<base, level, serving, lock>>
allVars == <<vars, sysVars>>

SysInit ==
  /\ Init
  /\ notify = [t \in Task |-> FALSE]
  /\ irq = FALSE /\ ipi = FALSE
  /\ registered = FALSE /\ signals = 0 /\ dead = FALSE
  /\ base = "start"
  /\ level = [l \in Level |-> "off"]
  /\ serving = [l \in Level |-> 0]
  /\ lock = "free"

-----------------------------------------------------------------------------
(* NimbOS.  Its tasks do not run during the timer interrupt. *)

TaskSysCall(t) == ~irq /\ SysCall(t) /\ UNCHANGED sysVars

TaskSend(t) ==
  /\ ~irq /\ lock = "free"
  /\ \E op \in Uses[t] : Send(t, op)
  /\ notify' = [notify EXCEPT ![t] = TRUE]
  /\ UNCHANGED <<irq, ipi, registered, signals, dead, shadowVars>>

\* an interrupt that is still pending absorbs the new one
Notify(t) ==
  /\ ~irq /\ notify[t]
  /\ notify' = [notify EXCEPT ![t] = FALSE]
  /\ ipi' = TRUE
  /\ UNCHANGED <<vars, irq, registered, signals, dead, shadowVars>>

TaskReturn(t) == ~irq /\ ~notify[t] /\ Return(t) /\ UNCHANGED sysVars

\* timer_tick calls handle_irq; a tick that finds no response changes nothing
TimerTick ==
  /\ ~irq /\ has_response
  /\ irq' = TRUE
  /\ UNCHANGED <<vars, notify, ipi, registered, signals, dead, shadowVars>>

\* slip: the loop of handle_irq does not end when there is no response
IrqLoopForever ==
  /\ irq /\ lock = "free"
  /\ PopResponse \/ (~has_response /\ UNCHANGED vars)
  /\ UNCHANGED sysVars

\* one turn of the loop of handle_irq: it ends when pop_response yields nothing,
\* also because the response was dropped
IrqLoop ==
  /\ irq /\ lock = "free"
  /\ \/ has_response /\ PopResponse /\ irq' = Deliverable
     \/ ~has_response /\ irq' = FALSE /\ UNCHANGED vars
  /\ UNCHANGED <<notify, ipi, registered, signals, dead, shadowVars>>

-----------------------------------------------------------------------------
(* The driver *)

\* signal_all_handlers; send_sig_info fails when the queue is full
irq_handler ==
  /\ ipi
  /\ QuietStart => base \notin {"registered", "poll"}
  /\ ipi' = FALSE
  /\ signals' = IF registered /\ signals < MaxSignals THEN signals + 1 ELSE signals
  /\ UNCHANGED <<vars, notify, irq, registered, dead, shadowVars>>

-----------------------------------------------------------------------------
(* The shadow process *)

SetupBuffers ==
  /\ base = "start"
  /\ Setup
  /\ base' = "mapped"
  /\ UNCHANGED <<notify, irq, ipi, registered, signals, dead, level, serving, lock>>

\* ioctl(NIMBOS_SETUP_SYSCALL): add_syscall_handler
Register ==
  /\ base = "mapped"
  /\ registered' = TRUE
  /\ base' = "registered"
  /\ UNCHANGED <<vars, notify, irq, ipi, signals, dead, level, serving, lock>>

\* signal() installs the handler, and the first poll_requests begins
InstallHandler ==
  /\ base = "registered" /\ ~dead
  /\ base' = "poll"
  /\ level' = [level EXCEPT !["setup"] = "lock_pop"]
  /\ UNCHANGED <<vars, notify, irq, ipi, registered, signals, dead, serving, lock>>

\* The process dies with all its threads.  The kernel closes its device, which takes
\* it off the list of handlers.
Dies ==
  /\ dead' = TRUE
  /\ registered' = FALSE
  /\ signals' = 0
  /\ level' = [l \in Level |-> "off"]
  /\ serving' = [l \in Level |-> 0]

\* a signal before the handler is installed has its default action
Killed ==
  /\ base = "registered" /\ ~dead /\ signals > 0
  /\ Dies
  /\ UNCHANGED <<vars, notify, irq, ipi, base, lock>>

\* nimbos_syscall_handler: the signal is masked until it returns
EnterHandler ==
  /\ base \in {"poll", "app"} /\ ~dead
  /\ signals > 0 /\ level["handler"] = "off"
  /\ signals' = signals - 1
  /\ level' = [level EXCEPT !["handler"] = "lock_pop"]
  /\ UNCHANGED <<vars, notify, irq, ipi, registered, dead, base, serving, lock>>

\* the handler runs on top of nimbos_setup_syscall
Runs(l, where) ==
  /\ level[l] = where /\ ~dead
  /\ l = "setup" => level["handler"] = "off"

spin_lock(l, from, to) ==
  /\ Runs(l, from) /\ lock = "free"
  /\ lock' = l
  /\ level' = [level EXCEPT ![l] = to]
  /\ UNCHANGED <<vars, notify, irq, ipi, registered, signals, dead, base, serving>>

LockPop(l)  == spin_lock(l, "lock_pop", "pop")
LockPush(l) == spin_lock(l, "lock_push", "push")

\* slip: the loop of poll_requests is an if
PopOnce(l) ==
  /\ Runs(l, "pop")
  /\ lock' = "free"
  /\ \/ /\ has_request
        /\ PopRequest
        /\ LET i == req_ring[Slot(req_index_last)]
           IN  /\ level' = [level EXCEPT ![l] = IF desc[i].opcode = "Write" THEN "write" ELSE "off"]
               /\ serving' = [serving EXCEPT ![l] = i]
        /\ UNCHANGED base
     \/ /\ ~has_request
        /\ level' = [level EXCEPT ![l] = "off"]
        /\ base' = "app"
        /\ UNCHANGED <<vars, serving>>
  /\ UNCHANGED <<notify, irq, ipi, registered, signals, dead>>

\* The critical section of pop_syscall_request, and the switch of poll_requests:
\* a read is left to a thread of its own, the main thread serves a write itself.
Pop(l) ==
  /\ Runs(l, "pop")
  /\ lock' = "free"
  /\ \/ /\ has_request
        /\ PopRequest
        /\ LET i == req_ring[Slot(req_index_last)]
           IN  IF desc[i].opcode = "Write"
               THEN /\ level' = [level EXCEPT ![l] = "write"]
                    /\ serving' = [serving EXCEPT ![l] = i]
               ELSE /\ level' = [level EXCEPT ![l] = "lock_pop"]
                    /\ UNCHANGED serving
        /\ UNCHANGED base
     \/ /\ ~has_request
        /\ level' = [level EXCEPT ![l] = "off"]
        /\ base' = IF l = "setup" THEN "app" ELSE base
        /\ UNCHANGED <<vars, serving>>
  /\ UNCHANGED <<notify, irq, ipi, registered, signals, dead>>

\* a write that takes all of its bytes
Write(l) ==
  /\ Runs(l, "write")
  /\ \E j \in jobs : j.idx = serving[l] /\ Execute(j)
  /\ level' = [level EXCEPT ![l] = "lock_push"]
  /\ UNCHANGED <<notify, irq, ipi, registered, signals, dead, base, serving, lock>>

\* assert(ret == args->len): a write that fails, or takes less, aborts the process.  A
\* read thread may be in push_syscall_response at that moment, before or
\* after it has published its response: the lock stays taken.
WriteAborts(l) ==
  /\ Runs(l, "write")
  /\ Dies
  /\ \/ UNCHANGED <<vars, lock>>
     \/ /\ lock = "free" /\ lock' = "left"
        /\ \E j \in jobs : /\ j.opcode = "Read" /\ j.ret # NoReq
                           /\ PushResponse(j) \/ UNCHANGED vars
  /\ UNCHANGED <<notify, irq, ipi, base>>

Push(l) ==
  /\ Runs(l, "push")
  /\ \E j \in jobs : j.idx = serving[l] /\ PushResponse(j)
  /\ lock' = "free"
  /\ level' = [level EXCEPT ![l] = "lock_pop"]
  /\ UNCHANGED <<notify, irq, ipi, registered, signals, dead, base, serving>>

\* slip: the thread returns without a response
ReadThreadNoPush(i) ==
  /\ \E j \in jobs : j.idx = i /\ j.opcode = "Read" /\ Execute(j)
  /\ UNCHANGED sysVars

\* read_thread_fn
ReadThread(i) ==
  /\ ~dead
  /\ \E j \in jobs : /\ j.idx = i /\ j.opcode = "Read"
                     /\ Execute(j) \/ (lock = "free" /\ PushResponse(j))
  /\ UNCHANGED sysVars

-----------------------------------------------------------------------------
MainThread ==
  \/ SetupBuffers \/ Register \/ InstallHandler
  \/ \E l \in Level : LockPop(l) \/ Pop(l) \/ Write(l) \/ WriteAborts(l) \/ LockPush(l) \/ Push(l)

SysNext ==
  \/ \E t \in Task : TaskSysCall(t) \/ TaskSend(t) \/ Notify(t) \/ TaskReturn(t)
  \/ TimerTick \/ IrqLoop
  \/ irq_handler
  \/ Killed \/ EnterHandler
  \/ MainThread
  \/ \E i \in Index : ReadThread(i)

SysSafety == SysInit /\ [][SysNext]_allVars

\* Strong fairness for tasks, because the scheduler of NimbOS is round robin and
\* every timer interrupt ends: a task that can go on whenever it gets its turn goes
\* on.  Strong fairness for read threads at the lock, because it is free for a
\* system call or more between two critical sections of the main thread and a
\* waiter polls it all along.  A task in user code need not make a call.
Fairness ==
  /\ \A t \in Task : SF_allVars(TaskSend(t) \/ Notify(t) \/ TaskReturn(t))
  /\ WF_allVars(TimerTick \/ IrqLoop)
  /\ WF_allVars(irq_handler)
  /\ WF_allVars(EnterHandler \/ MainThread)
  /\ SF_allVars(\E i \in Index : ReadThread(i))

SysSpec == SysSafety /\ Fairness

-----------------------------------------------------------------------------
(* Properties *)

SysTypeOK ==
  /\ notify \in [Task -> BOOLEAN]
  /\ irq \in BOOLEAN /\ ipi \in BOOLEAN /\ registered \in BOOLEAN /\ dead \in BOOLEAN
  /\ signals \in 0..MaxSignals
  /\ base \in {"start", "mapped", "registered", "poll", "app"}
  /\ level \in [Level -> {"off", "lock_pop", "pop", "write", "lock_push", "push"}]
  /\ serving \in [Level -> Index]
  /\ lock \in Level \cup {"free", "left"}

\* No request is forgotten: once a living shadow process idles in its application, with
\* no notification on its way from a task, the interrupt controller or the signal
\* queue, every request has been taken.  Interrupts are absorbed and signals
\* dropped, but poll_requests drains the ring at every signal.
NoRequestForgotten ==
  /\ base = "app" /\ ~dead /\ level["handler"] = "off"
  /\ signals = 0 /\ ~ipi /\ \A t \in Task : ~notify[t]
  => ~has_request

\* Whatever the signal handler interrupts, the two levels of the main thread never
\* serve the same descriptor.
LevelsServeApart ==
  \A l \in Level : level[l] \in {"write", "lock_push", "push"} =>
    /\ \E j \in jobs : j.idx = serving[l] /\ j.opcode = "Write"
    /\ \A k \in Level \ {l} :
         level[k] \in {"write", "lock_push", "push"} => serving[k] # serving[l]

\* Every forwarded call returns unless the shadow process dies, if there are no more
\* tasks than descriptors, no notification hits nimbos_setup_syscall in the middle,
\* reads end and their threads can be created.  A short write is what it dies of.
EveryCallReturns == \A t \in Task : pc[t] = "send" ~> pc[t] = "run" \/ dead

Answered(t) == \E k \in Index : k < RspSpan /\ tokens[RspAt(k)] = t

\* A call whose response is on the ring returns, even if the shadow process dies before
\* handle_irq has seen the response, unless it dies with the lock in its hands.
\* No task runs during the timer interrupt, so that does not spend forever on
\* responses either, although Linux goes on to push them.
AnsweredCallsReturn == \A t \in Task : Answered(t) ~> pc[t] = "run" \/ lock = "left"

\* The comment of nimbos_setup_syscall, "handle requests before app starting": its
\* poll_requests gets through, if the process lives to see it.
SetupCompletes == base = "poll" ~> base = "app" \/ dead
=============================================================================
