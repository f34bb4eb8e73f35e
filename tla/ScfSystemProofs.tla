-------------------------- MODULE ScfSystemProofs ---------------------------
(***************************************************************************)
(* The chain from ScfSystem, with its lock, interrupts and signals, over   *)
(* ScfQueue to SyscallRpc, and the invariants of ScfSystem, for every set  *)
(* of tasks, every capacity and every length of the signal queue.          *)
(***************************************************************************)
EXTENDS ScfSystem, ScfQueueProofs

(* ScfQueue implements SyscallRpc *)

answers == [t \in Task |-> cond[t].ret_val]

\* phase, task by task, before a step and after it
LEMMA IsIdle ==
  ASSUME NEW t \in Task
  PROVE  /\ pc[t] = "run" => phase[t] = "idle"
         /\ pc'[t] = "run" => phase'[t] = "idle"
BY DEF phase

\* A task whose condition variable was signalled has its answer.
LEMMA IsAnswered ==
  ASSUME NEW t \in Task
  PROVE  /\ pc[t] = "wait" /\ cond[t].ok => phase[t] = "answered"
         /\ pc'[t] = "wait" /\ cond'[t].ok => phase'[t] = "answered"
BY DEF phase

\* A task that waits for a call nobody executed has only called.
LEMMA IsCalled ==
  ASSUME NEW t \in Task, NEW p \in {"send", "wait"}
  PROVE  /\ pc[t] = p /\ ~cond[t].ok /\ executed[Current(t)] = 0 => phase[t] = "called"
         /\ pc'[t] = p /\ ~cond'[t].ok /\ executed'[Current(t)'] = 0 => phase'[t] = "called"
BY DEF phase

\* A task that waits for a call that was executed is served and not answered yet.
LEMMA IsServed ==
  ASSUME NEW t \in Task
  PROVE  /\ pc[t] = "wait" /\ ~cond[t].ok /\ executed[Current(t)] = 1 => phase[t] = "served"
         /\ pc'[t] = "wait" /\ ~cond'[t].ok /\ executed'[Current(t)'] = 1 => phase'[t] = "served"
BY DEF phase

\* A task whose call, condition variable and history a step leaves alone stays in
\* its phase.
LEMMA SamePhase ==
  ASSUME NEW t \in Task, pc'[t] = pc[t], cond'[t] = cond[t], calls'[t] = calls[t],
         executed'[Current(t)] = executed[Current(t)]
  PROVE  phase'[t] = phase[t] /\ answers'[t] = answers[t]
BY DEF phase, answers, Current

\* One task moves to another phase.
LEMMA MovePhase ==
  ASSUME NEW t \in Task, NEW p, phase'[t] = p,
         \A u \in Task : u # t => phase'[u] = phase[u]
  PROVE  phase' = [phase EXCEPT ![t] = p]
<1>1. phase = [u \in Task |-> phase[u]] /\ phase' = [u \in Task |-> phase'[u]]
  BY DEF phase
<1> HIDE DEF phase
<1> QED
  BY <1>1

\* One task gets another answer.
LEMMA MoveAnswer ==
  ASSUME NEW t \in Task, NEW a, answers'[t] = a,
         \A u \in Task : u # t => answers'[u] = answers[u]
  PROVE  answers' = [answers EXCEPT ![t] = a]
<1>1. answers = [u \in Task |-> answers[u]] /\ answers' = [u \in Task |-> answers'[u]]
  BY DEF answers
<1> HIDE DEF answers
<1> QED
  BY <1>1

\* The steps no task sees.
LEMMA Unseen ==
  ASSUME \A t \in Task : phase'[t] = phase[t] /\ answers'[t] = answers[t]
  PROVE  phase' = phase /\ answers' = answers
<1>1. phase = [u \in Task |-> phase[u]] /\ phase' = [u \in Task |-> phase'[u]]
  BY DEF phase
<1>2. answers = [u \in Task |-> answers[u]] /\ answers' = [u \in Task |-> answers'[u]]
  BY DEF answers
<1> HIDE DEF phase, answers
<1> QED
  BY <1>1, <1>2

\* Counting one more execution of r changes the count of no other request.
LEMMA OtherCount ==
  ASSUME NEW r \in Request, NEW q \in Request, NEW n, q # r, TypeOK,
         executed' = [executed EXCEPT ![r] = n]
  PROVE  executed'[q] = executed[q]
BY DEF TypeOK

\* A system call of a task is the call of SyscallRpc.
LEMMA SysCallRefines ==
  ASSUME IInv, NEW t \in Task, SysCall(t)
  PROVE  Rpc!Call(t)
<1>1. TypeOK
  BY DEF IInv
<1>2. /\ pc[t] = "run" /\ pc'[t] = "send"
      /\ calls' = [calls EXCEPT ![t] = (@ + 1) % MaxCalls]
      /\ cond'[t] = [ok |-> FALSE, ret_val |-> NoReq]
      /\ \A u \in Task : u # t => pc'[u] = pc[u] /\ cond'[u] = cond[u] /\ calls'[u] = calls[u]
  BY <1>1 DEF SysCall, TypeOK
<1>3. \A u \in Task : u # t => executed'[Current(u)] = executed[Current(u)]
  <2> DEFINE r == [task |-> t, call |-> calls'[t]]
  <2>1. executed' = [executed EXCEPT ![r] = 0]
    BY DEF SysCall
  <2>2. r \in Request
    <3>1. calls'[t] \in 0..(MaxCalls - 1)
      BY SysCallStep DEF IInv, TypeOK
    <3> QED
      BY <3>1 DEF Request
  <2>3. \A u \in Task : u # t => Current(u) # r
    BY DEF Current
  <2> HIDE DEF r
  <2> QED
    BY <1>1, <2>1, <2>2, <2>3, CurrentType, OtherCount
<1>4. executed'[Current(t)'] = 0
  <2>1. SendFresh'
    BY SysCallStep DEF IInv, Results
  <2> QED
    BY <1>2, <2>1 DEF SendFresh
<1>5. phase[t] = "idle" /\ phase'[t] = "called"
  <2>1. phase[t] = "idle"
    BY ONLY t \in Task, <1>2, IsIdle
  <2>2. ~cond'[t].ok
    BY ONLY <1>2
  <2> QED
    BY ONLY t \in Task, <1>2, <1>4, <2>1, <2>2, IsCalled
<1>6. \A u \in Task : u # t => phase'[u] = phase[u] /\ answers'[u] = answers[u]
  BY ONLY <1>2, <1>3, SamePhase
<1>7. answers'[t] = NoReq
  BY <1>2 DEF answers
<1>8. phase' = [phase EXCEPT ![t] = "called"]
  BY ONLY t \in Task, <1>5, <1>6, MovePhase
<1>9. answers' = [answers EXCEPT ![t] = NoReq]
  BY ONLY t \in Task, <1>6, <1>7, MoveAnswer
<1> QED
  BY ONLY <1>2, <1>5, <1>8, <1>9 DEF Rpc!Call, answers

\* Leaving SyscallCondVar::wait is the return of SyscallRpc.
LEMMA ReturnRefines ==
  ASSUME IInv, NEW t \in Task, Return(t)
  PROVE  Rpc!Return(t)
<1>1. /\ pc[t] = "wait" /\ cond[t].ok /\ pc'[t] = "run"
      /\ \A u \in Task : u # t => pc'[u] = pc[u]
      /\ UNCHANGED <<cond, calls, executed>>
  BY DEF IInv, Return, TypeOK, linuxVars
<1>2. phase[t] = "answered" /\ phase'[t] = "idle"
  BY ONLY t \in Task, <1>1, IsIdle, IsAnswered
<1>3. \A u \in Task : u # t => phase'[u] = phase[u]
  BY ONLY <1>1, SamePhase
<1>4. phase' = [phase EXCEPT ![t] = "idle"]
  BY ONLY t \in Task, <1>2, <1>3, MovePhase
<1> QED
  BY ONLY <1>1, <1>2, <1>4 DEF Rpc!Return

\* The shadow process carries out the call of some task, which nobody has served.
LEMMA ExecuteRefines ==
  ASSUME IInv, NEW j \in jobs, Execute(j)
  PROVE  \E t \in Task : Rpc!Serve(t)
<1>1. TypeOK /\ JobResult /\ Placed /\ TokenValid /\ TokenWaits
  BY DEF IInv, Tokens, Results, Places
<1>2. j.args = desc[j.idx].args /\ j.idx \in Index /\ desc[j.idx].valid
  BY <1>1 DEF JobResult, TypeOK, Job, InJob, Placed
<1>3. PICK t \in Task : /\ tokens[j.idx] = t /\ j.args = Current(t)
                        /\ pc[t] = "wait" /\ ~cond[t].ok
  <2>1. tokens[j.idx] \in Task
    BY ONLY <1>1, <1>2 DEF TokenValid, TypeOK
  <2> QED
    BY ONLY <1>1, <1>2, <2>1, TokenAssumption DEF TokenWaits
<1>4. /\ j.ret = NoReq /\ executed' = [executed EXCEPT ![j.args] = @ + 1]
      /\ UNCHANGED <<pc, cond, calls>>
  BY <1>2 DEF Execute, nimbosVars
<1>5. executed[Current(t)] = 0
  BY ONLY j \in jobs, <1>1, <1>3, <1>4 DEF JobResult
<1>6. Current(t) \in Request /\ \A u \in Task : u # t => Current(u) # Current(t) /\ Current(u) \in Request
  BY <1>1, CurrentType DEF Current
<1>7. executed' = [executed EXCEPT ![Current(t)] = 1]
  BY ONLY <1>3, <1>4, <1>5
<1>8. executed'[Current(t)] = 1
  BY ONLY <1>1, <1>6, <1>7 DEF TypeOK
<1>9. \A u \in Task : u # t => executed'[Current(u)] = executed[Current(u)]
  BY ONLY <1>1, <1>6, <1>7, OtherCount
<1>10. Current(t)' = Current(t)
  BY ONLY <1>4 DEF Current
<1>11. phase[t] = "called"
  BY ONLY t \in Task, <1>3, <1>5, IsCalled
<1>12. phase'[t] = "served"
  <2>1. pc'[t] = "wait" /\ ~cond'[t].ok /\ executed'[Current(t)'] = 1
    BY ONLY <1>3, <1>4, <1>8, <1>10
  <2> QED
    BY ONLY t \in Task, <2>1, IsServed
<1>13. \A u \in Task : u # t => phase'[u] = phase[u]
  BY ONLY <1>4, <1>9, SamePhase
<1>14. phase' = [phase EXCEPT ![t] = "served"]
  BY ONLY t \in Task, <1>12, <1>13, MovePhase
<1>15. answers' = answers
  BY ONLY <1>4 DEF answers
<1>16. Rpc!Serve(t)
  BY ONLY <1>4, <1>11, <1>14, <1>15 DEF Rpc!Serve, answers
<1> QED
  BY <1>16

\* A response that handle_irq takes is the answer to the call of some task.
LEMMA PopResponseRefines ==
  ASSUME IInv, PopResponse
  PROVE  \E t \in Task : Rpc!Answer(t)
<1>1. TypeOK /\ RspDone
  BY DEF IInv, Results
<1>2. PICK i \in Index, t \in Task :
        /\ pc[t] = "wait" /\ ~cond[t].ok /\ desc[i].args = Current(t) /\ InRsp(i)
        /\ signal(t, desc[i].ret_val)
  BY PopResponseEffect
<1>3. executed[Current(t)] = 1 /\ desc[i].ret_val = Current(t)
  BY <1>1, <1>2 DEF RspDone
<1>4. UNCHANGED <<pc, calls, executed>>
  BY DEF PopResponse, linuxVars
<1>5. /\ cond'[t] = [ok |-> TRUE, ret_val |-> Current(t)]
      /\ \A u \in Task : u # t => cond'[u] = cond[u]
  BY <1>1, <1>2, <1>3 DEF signal, TypeOK
<1>6. phase[t] = "served"
  BY ONLY t \in Task, <1>2, <1>3, IsServed
<1>7. phase'[t] = "answered"
  <2>1. pc'[t] = "wait" /\ cond'[t].ok
    BY ONLY <1>2, <1>4, <1>5
  <2> QED
    BY ONLY t \in Task, <2>1, IsAnswered
<1>8. \A u \in Task : u # t => phase'[u] = phase[u] /\ answers'[u] = answers[u]
  BY ONLY <1>4, <1>5, SamePhase
<1>9. answers'[t] = Current(t)
  BY <1>5 DEF answers
<1>10. phase' = [phase EXCEPT ![t] = "answered"]
  BY ONLY t \in Task, <1>7, <1>8, MovePhase
<1>11. answers' = [answers EXCEPT ![t] = Current(t)]
  BY ONLY t \in Task, <1>8, <1>9, MoveAnswer
<1>12. Rpc!Answer(t)
  BY ONLY <1>4, <1>6, <1>10, <1>11 DEF Rpc!Answer, answers, Current
<1> QED
  BY <1>12

\* sending a request, and what Linux does before and after it carries a call out,
\* no task sees
LEMMA HiddenStep ==
  ASSUME IInv,
         \/ \E t \in Task, op \in Opcode : Send(t, op)
         \/ Setup \/ PopRequest \/ (\E j \in jobs : PushResponse(j)) \/ UNCHANGED vars
  PROVE  phase' = phase /\ answers' = answers /\ calls' = calls
<1> USE DEF IInv
<1>1. UNCHANGED <<cond, calls, executed>>
  BY DEF Send, send_locked, linuxVars, nimbosVars, Setup, PopRequest, PushResponse, vars
<1>2. \A t \in Task : (pc'[t] = "run") <=> (pc[t] = "run")
  BY DEF Send, nimbosVars, Setup, PopRequest, PushResponse, vars, TypeOK
<1>3. \A t \in Task : phase'[t] = phase[t] /\ answers'[t] = answers[t]
  BY <1>1, <1>2 DEF phase, answers, Current
<1> QED
  BY <1>1, <1>3, Unseen

\* The buffer implements the remote procedure call it stands for: whatever the
\* order in which tasks, interrupt and shadow process use it, a forwarded call is
\* carried out once and returns with its own answer.
THEOREM QueueImplementsRpc == Spec => ImplementsRpc
<1>1. Init => Rpc!Init
  BY DEF Init, Rpc!Init, phase
<1>2. IInv /\ [Next]_vars => [Rpc!Next]_(Rpc!vars)
  <2> SUFFICES ASSUME IInv, [Next]_vars PROVE [Rpc!Next]_(Rpc!vars)
    OBVIOUS
  <2>1. ASSUME NEW t \in Task, SysCall(t) PROVE Rpc!Next
    BY <2>1, SysCallRefines DEF Rpc!Next
  <2>2. ASSUME NEW t \in Task, Return(t) PROVE Rpc!Next
    BY <2>2, ReturnRefines DEF Rpc!Next
  <2>3. ASSUME NEW j \in jobs, Execute(j) PROVE Rpc!Next
    BY <2>3, ExecuteRefines DEF Rpc!Next
  <2>4. CASE PopResponse
    BY <2>4, PopResponseRefines DEF Rpc!Next
  <2>5. CASE \/ \E t \in Task, op \in Opcode : Send(t, op)
             \/ Setup \/ PopRequest \/ (\E j \in jobs : PushResponse(j)) \/ UNCHANGED vars
    BY <2>5, HiddenStep DEF Rpc!vars, answers
  <2> QED
    BY <2>1, <2>2, <2>3, <2>4, <2>5 DEF Next
<1> QED
  BY <1>1, <1>2, Invariance, PTL DEF Spec, ImplementsRpc, Rpc!Spec

-----------------------------------------------------------------------------
(* ScfSystem implements ScfQueue *)

\* A step of the system is a step of the queue or leaves it alone.
LEMMA SysStepRefines == SysNext => [Next]_vars
<1> SUFFICES ASSUME SysNext PROVE [Next]_vars
  OBVIOUS
<1>1. ASSUME NEW t \in Task, TaskSysCall(t) \/ TaskReturn(t) PROVE Next
  BY <1>1 DEF TaskSysCall, TaskReturn, Next
<1>2. ASSUME NEW t \in Task, TaskSend(t) PROVE Next
  <2>1. PICK o \in Uses[t] : Send(t, o)
    BY <1>2 DEF TaskSend
  <2>2. o \in Opcode
    BY UsesAssumption
  <2> QED
    BY <2>1, <2>2 DEF Next
<1>3. ASSUME NEW t \in Task, Notify(t) PROVE UNCHANGED vars
  BY <1>3 DEF Notify
<1>4. CASE TimerTick \/ irq_handler \/ Killed \/ EnterHandler \/ Register \/ InstallHandler
  BY <1>4 DEF TimerTick, irq_handler, Killed, EnterHandler, Register, InstallHandler
<1>5. CASE IrqLoop
  BY <1>5 DEF IrqLoop, Next
<1>6. CASE SetupBuffers
  BY <1>6 DEF SetupBuffers, Next
<1>7. ASSUME NEW l \in Level, LockPop(l) \/ LockPush(l) PROVE UNCHANGED vars
  BY <1>7 DEF LockPop, LockPush, spin_lock
<1>8. ASSUME NEW l \in Level, Pop(l) PROVE [Next]_vars
  BY <1>8 DEF Pop, Next
<1>9. ASSUME NEW l \in Level, Write(l) \/ Push(l) PROVE Next
  BY <1>9 DEF Write, Push, Next
<1>10. ASSUME NEW i \in Index, ReadThread(i) PROVE Next
  BY <1>10 DEF ReadThread, Next
<1>11. ASSUME NEW l \in Level, WriteAborts(l) PROVE [Next]_vars
  BY <1>11 DEF WriteAborts, Next
<1> QED
  BY <1>1, <1>2, <1>3, <1>4, <1>5, <1>6, <1>7, <1>8, <1>9, <1>10, <1>11, SMTT(20) DEF SysNext,
     MainThread

\* The queue is a part of the system, which moves it only by its own steps.
LEMMA SystemImplementsQueue == SysSafety => Spec
<1>1. SysInit => Init
  BY DEF SysInit
<1>2. [SysNext]_allVars => [Next]_vars
  BY SysStepRefines DEF allVars
<1> QED
  BY <1>1, <1>2, PTL DEF SysSafety, Spec

\* The invariants of the queue hold in the system.
LEMMA QueueInvariance == SysSafety => []IInv
BY SystemImplementsQueue, Invariance, PTL

\* What the tasks of the whole system see is the remote procedure call of SyscallRpc,
\* whatever the handler interrupts and whichever interrupt or signal is absorbed.
THEOREM SystemImplementsRpc == SysSafety => ImplementsRpc
BY SystemImplementsQueue, QueueImplementsRpc, PTL

-----------------------------------------------------------------------------
(* The invariants of ScfSystem *)

Serving == {"write", "lock_push", "push"}

\* A living process that has got as far as poll_requests is registered.
Listening ==
  /\ base \in {"poll", "app"} => registered \/ dead
  /\ level["setup"] # "off" => base = "poll"
Registered == base = "registered" => registered \/ dead

\* While there is a request, somebody is on the way to it.
OnItsWay ==
  base = "app" /\ ~dead /\ level["handler"] = "off" /\ has_request =>
    signals > 0 \/ ipi \/ \E t \in Task : notify[t]

SysInv == SysTypeOK /\ Listening /\ Registered /\ OnItsWay /\ LevelsServeApart

\* Nothing is under way in the beginning.
LEMMA SysInitInv == SysInit => SysInv
<1> SUFFICES ASSUME SysInit PROVE SysInv
  OBVIOUS
<1>1. 0 \in Index
  BY CapacityAssumption DEF Index
<1>2. SysTypeOK
  <2>1. /\ notify \in [Task -> BOOLEAN] /\ irq \in BOOLEAN /\ ipi \in BOOLEAN
        /\ registered \in BOOLEAN /\ dead \in BOOLEAN
    BY Zenon DEF SysInit
  <2>2. /\ signals \in 0..MaxSignals /\ base \in {"start", "mapped", "registered", "poll", "app"}
        /\ level \in [Level -> {"off", "lock_pop", "pop", "write", "lock_push", "push"}]
        /\ serving \in [Level -> Index] /\ lock \in Level \cup {"free", "left"}
    BY <1>1, SignalAssumption DEF SysInit
  <2> QED
    BY <2>1, <2>2 DEF SysTypeOK
<1>3. Listening /\ Registered /\ OnItsWay
  BY DEF SysInit, Listening, Registered, OnItsWay, Level
<1>4. LevelsServeApart
  BY DEF SysInit, LevelsServeApart
<1> QED
  BY <1>2, <1>3, <1>4 DEF SysInv

\* The descriptor the shadow process takes next is one of the table.
LEMMA NextRequest ==
  ASSUME IInv
  PROVE  req_ring[Slot(req_index_last)] \in Index
BY SlotType, SMTT(20) DEF IInv, TypeOK

\* The types of the system's own variables are kept.
LEMMA SysTypeStep == IInv /\ SysTypeOK /\ SysNext => SysTypeOK'
<1> SUFFICES ASSUME IInv, SysTypeOK, SysNext PROVE SysTypeOK'
  OBVIOUS
<1> USE DEF SysTypeOK
<1>0. 0 \in Index
  BY CapacityAssumption DEF Index
<1>1. ASSUME NEW t \in Task, TaskSysCall(t) \/ TaskReturn(t) PROVE SysTypeOK'
  BY <1>1 DEF TaskSysCall, TaskReturn, sysVars
<1>2. ASSUME NEW t \in Task, TaskSend(t) \/ Notify(t) PROVE SysTypeOK'
  <2>1. notify' \in [Task -> BOOLEAN] /\ ipi' \in BOOLEAN
    BY <1>2, Zenon DEF TaskSend, Notify
  <2> QED
    BY <1>2, <2>1 DEF TaskSend, Notify, shadowVars
<1>3. CASE TimerTick
  <2>1. irq' \in BOOLEAN
    BY <1>3, Zenon DEF TimerTick
  <2> QED
    BY <1>3, <2>1 DEF TimerTick, shadowVars
<1>4. CASE IrqLoop
  <2>1. Deliverable \in BOOLEAN
    BY Zenon DEF Deliverable
  <2>2. irq' \in BOOLEAN
    BY <1>4, <2>1, Zenon DEF IrqLoop
  <2> QED
    BY <1>4, <2>2 DEF IrqLoop, shadowVars
<1>5. CASE irq_handler
  <2>1. signals' \in 0..MaxSignals
    BY <1>5, SignalAssumption DEF irq_handler
  <2>2. ipi' \in BOOLEAN
    BY <1>5, Zenon DEF irq_handler
  <2> QED
    BY <1>5, <2>1, <2>2, Zenon DEF irq_handler, shadowVars
<1>6. CASE Killed
  <2>1. signals' \in 0..MaxSignals
    BY <1>6, SignalAssumption DEF Killed, Dies
  <2>2. dead' \in BOOLEAN /\ registered' \in BOOLEAN
    BY <1>6, Zenon DEF Killed, Dies
  <2>3. /\ level' \in [Level -> {"off", "lock_pop", "pop", "write", "lock_push", "push"}]
        /\ serving' \in [Level -> Index]
    BY <1>6, <1>0 DEF Killed, Dies
  <2> QED
    BY <1>6, <2>1, <2>2, <2>3, Zenon DEF Killed
<1>7. CASE EnterHandler
  <2>1. signals' \in 0..MaxSignals
    BY <1>7, SignalAssumption DEF EnterHandler
  <2>2. level' \in [Level -> {"off", "lock_pop", "pop", "write", "lock_push", "push"}]
    BY <1>7 DEF EnterHandler
  <2> QED
    BY <1>7, <2>1, <2>2, Zenon DEF EnterHandler
<1>8. CASE SetupBuffers \/ Register \/ InstallHandler
  BY <1>8, Zenon DEF SetupBuffers, Register, InstallHandler
<1>9. ASSUME NEW l \in Level, LockPop(l) \/ LockPush(l) PROVE SysTypeOK'
  BY <1>9 DEF LockPop, LockPush, spin_lock
<1>10. ASSUME NEW l \in Level, Pop(l) PROVE SysTypeOK'
  BY <1>10, NextRequest DEF Pop
<1>11. ASSUME NEW l \in Level, Write(l) \/ Push(l) PROVE SysTypeOK'
  BY <1>11 DEF Write, Push
<1>12. ASSUME NEW i \in Index, ReadThread(i) PROVE SysTypeOK'
  BY <1>12 DEF ReadThread, sysVars
<1>13. ASSUME NEW l \in Level, WriteAborts(l) PROVE SysTypeOK'
  <2>1. signals' \in 0..MaxSignals
    BY <1>13, SignalAssumption DEF WriteAborts, Dies
  <2>2. dead' \in BOOLEAN /\ registered' \in BOOLEAN
    BY <1>13, Zenon DEF WriteAborts, Dies
  <2>3. /\ level' \in [Level -> {"off", "lock_pop", "pop", "write", "lock_push", "push"}]
        /\ serving' \in [Level -> Index] /\ lock' \in Level \cup {"free", "left"}
    BY <1>13, <1>0, SMTT(20) DEF WriteAborts, Dies
  <2> QED
    BY <1>13, <2>1, <2>2, <2>3, Zenon DEF WriteAborts
<1> QED
  BY <1>1, <1>2, <1>3, <1>4, <1>5, <1>6, <1>7, <1>8, <1>9, <1>10, <1>11, <1>12, <1>13, SMTT(20)
     DEF SysNext, MainThread

\* An interrupt that is absorbed leaves one pending, a signal that is dropped leaves
\* one queued, and poll_requests ends only when there is no request.
LEMMA OnItsWayStep ==
  IInv /\ SysTypeOK /\ Listening /\ Registered /\ OnItsWay /\ SysNext
    => Listening' /\ Registered' /\ OnItsWay'
<1> SUFFICES ASSUME IInv, SysTypeOK, Listening, Registered, OnItsWay, SysNext
             PROVE  Listening' /\ Registered' /\ OnItsWay'
  BY SMTT(20)
<1> DEFINE Goal == Listening' /\ Registered' /\ OnItsWay'
<1> USE DEF Listening, Registered, OnItsWay, has_request
<1>1. ASSUME NEW t \in Task, TaskSysCall(t) \/ TaskReturn(t) PROVE Goal
  BY <1>1 DEF TaskSysCall, TaskReturn, SysCall, Return, sysVars, sharedVars, linuxVars
<1>2. ASSUME NEW t \in Task, TaskSend(t) PROVE Goal
  BY <1>2 DEF TaskSend, shadowVars, SysTypeOK
<1>3. ASSUME NEW t \in Task, Notify(t) PROVE Goal
  BY <1>3 DEF Notify, shadowVars, vars, sharedVars, linuxVars
<1>4. CASE TimerTick
  BY <1>4 DEF TimerTick, shadowVars, vars, sharedVars, linuxVars
<1>5. CASE IrqLoop
  BY <1>5 DEF IrqLoop, shadowVars, vars, sharedVars, linuxVars, PopResponse
<1>6. CASE irq_handler
  BY <1>6, SignalAssumption DEF irq_handler, shadowVars, vars, sharedVars, linuxVars, SysTypeOK
<1>7. CASE Killed
  BY <1>7 DEF Killed, Dies, Level
<1>8. CASE EnterHandler
  BY <1>8 DEF EnterHandler, SysTypeOK, Level
<1>9. CASE SetupBuffers \/ Register \/ InstallHandler
  BY <1>9 DEF SetupBuffers, Register, InstallHandler, SysTypeOK, Level
<1>10. ASSUME NEW l \in Level, LockPop(l) \/ LockPush(l) PROVE Goal
  <2>1. \A k \in {"setup", "handler"} : level'[k] = "off" <=> level[k] = "off"
    BY <1>10, SMTT(20) DEF LockPop, LockPush, spin_lock, Runs, SysTypeOK, Level
  <2> QED
    BY <1>10, <2>1 DEF LockPop, LockPush, spin_lock, vars, sharedVars, linuxVars
<1>11. ASSUME NEW l \in Level, Pop(l) PROVE Goal
  <2>1. CASE has_request /\ PopRequest
    <3>1. \A k \in {"setup", "handler"} : level'[k] = "off" <=> level[k] = "off"
      BY <1>11, <2>1 DEF Pop, Runs, SysTypeOK, Level
    <3>2. UNCHANGED base
      BY <1>11, <2>1 DEF Pop
    <3> QED
      BY <1>11, <2>1, <3>1, <3>2, SMTT(20) DEF Pop, PopRequest, sharedVars
  <2>2. CASE ~has_request
    <3>1. ~has_request'
      BY <1>11, <2>2, SMTT(20) DEF Pop, vars, sharedVars, linuxVars
    <3>2. CASE l = "setup"
      <4>1. base = "poll" /\ base' = "app" /\ level'["setup"] = "off"
        BY <1>11, <2>2, <3>2, SMTT(20) DEF Pop, Runs, SysTypeOK
      <4> QED
        BY <1>11, <3>1, <4>1 DEF Pop
    <3>3. CASE l = "handler"
      <4>1. base' = base /\ level'["setup"] = level["setup"]
        BY <1>11, <2>2, <3>3 DEF Pop, SysTypeOK, Level
      <4> QED
        BY <1>11, <3>1, <4>1, SMTT(20) DEF Pop
    <3> QED
      BY <3>2, <3>3, SMTT(20) DEF Level
  <2> QED
    BY <1>11, <2>1, <2>2, SMTT(20) DEF Pop
<1>12. ASSUME NEW l \in Level, Write(l) \/ Push(l) PROVE Goal
  <2>1. \A k \in {"setup", "handler"} : level'[k] = "off" <=> level[k] = "off"
    BY <1>12 DEF Write, Push, Runs, SysTypeOK, Level
  <2> QED
    BY <1>12, <2>1 DEF Write, Push, Execute, PushResponse, sharedVars
<1>13. ASSUME NEW i \in Index, ReadThread(i) PROVE Goal
  BY <1>13 DEF ReadThread, sysVars, Execute, PushResponse, sharedVars
<1>14. ASSUME NEW l \in Level, WriteAborts(l) PROVE Goal
  BY <1>14 DEF WriteAborts, Dies, Level
<1> QED
  BY <1>1, <1>2, <1>3, <1>4, <1>5, <1>6, <1>7, <1>8, <1>9, <1>10, <1>11, <1>12, <1>13, <1>14,
     ZenonT(40) DEF SysNext, MainThread

\* Who serves a write keeps its job when a step leaves the job, or one like it, in place.
LEMMA JobsKept ==
  ASSUME LevelsServeApart, UNCHANGED <<level, serving>>,
         \A j \in jobs : j.opcode = "Write" =>
           \E m \in jobs' : m.idx = j.idx /\ m.opcode = "Write"
  PROVE  LevelsServeApart'
BY DEF LevelsServeApart

\* The descriptor of the next request is no job yet, and becomes one.
LEMMA PopEffect ==
  ASSUME IInv, PopRequest
  PROVE  LET i == req_ring[Slot(req_index_last)]
         IN  /\ \A j \in jobs : j.idx # i
             /\ jobs \subseteq jobs'
             /\ \E j \in jobs' : j.idx = i /\ j.opcode = desc[i].opcode
<1> DEFINE new_job(i) == [pos |-> req_index_last, idx |-> i, opcode |-> desc[i].opcode,
                          args |-> desc[i].args, ret |-> NoReq]
<1>1. PICK i \in Index : i = req_ring[Slot(req_index_last)] /\ jobs' = jobs \cup {new_job(i)}
  BY DEF PopRequest, pop_syscall_request
<1>2. PICK k \in Index : jobs' = jobs \cup {new_job(k)} /\ InReq(k)
  BY PopRequestEffect
<1>3. \A j \in jobs : j.idx # k
  BY <1>2 DEF IInv, Places, Apart, InJob
<1>4. new_job(i).idx = i /\ new_job(i).opcode = desc[i].opcode /\ new_job(k).idx = k
  OBVIOUS
<1> HIDE DEF new_job
<1>5. new_job(k) \notin jobs
  BY <1>3, <1>4
<1>6. new_job(k) = new_job(i)
  BY <1>1, <1>2, <1>5
<1>7. k = i
  BY <1>4, <1>6
<1> QED
  BY <1>1, <1>3, <1>4, <1>7, SMTT(20)

\* Each level keeps its own job: the others take jobs with other indices.
LEMMA ServeApartStep ==
  IInv /\ SysTypeOK /\ LevelsServeApart /\ SysNext => LevelsServeApart'
<1> SUFFICES ASSUME IInv, SysTypeOK, LevelsServeApart, SysNext PROVE LevelsServeApart'
  OBVIOUS
<1> DEFINE Serves(l) == level[l] \in Serving
<1>0. /\ level \in [Level -> {"off", "lock_pop", "pop", "write", "lock_push", "push"}]
      /\ serving \in [Level -> Index] /\ JobOnce
  BY DEF SysTypeOK, IInv, Places
<1>1. CASE UNCHANGED <<level, serving, jobs>>
  BY <1>1, JobsKept, SMTT(20)
<1>2. ASSUME NEW t \in Task, TaskSysCall(t) \/ TaskReturn(t) \/ TaskSend(t) \/ Notify(t)
      PROVE  LevelsServeApart'
  BY <1>1, <1>2, SMTT(20) DEF TaskSysCall, TaskReturn, TaskSend, Notify, SysCall, Return, Send,
     sysVars, shadowVars, vars, linuxVars
<1>3. CASE TimerTick \/ IrqLoop \/ irq_handler \/ Register
  BY <1>1, <1>3
  DEF TimerTick, IrqLoop, irq_handler, Register, PopResponse, shadowVars, vars, linuxVars
<1>4. CASE SetupBuffers
  BY <1>1, <1>4 DEF SetupBuffers, Setup
<1>5. ASSUME NEW l \in Level, NEW to, level' = [level EXCEPT ![l] = to],
             to \in Serving => Serves(l), UNCHANGED <<serving, jobs>>
      PROVE  LevelsServeApart'
  <2>1. \A k \in Level : level'[k] \in Serving => level[k] \in Serving
    BY <1>0, <1>5
  <2> QED
    BY <1>5, <2>1 DEF LevelsServeApart, Serving
<1>6. CASE InstallHandler \/ EnterHandler
  BY <1>5, <1>6 DEF InstallHandler, EnterHandler, vars, linuxVars, Level, Serving
<1>7. ASSUME NEW l \in Level, LockPop(l) PROVE LevelsServeApart'
  BY <1>5, <1>7 DEF LockPop, spin_lock, vars, linuxVars, Serving
<1>8. ASSUME NEW l \in Level, LockPush(l) PROVE LevelsServeApart'
  BY <1>5, <1>8, Zenon DEF LockPush, spin_lock, Runs, vars, linuxVars, Serving
<1>9. ASSUME NEW l \in Level, Pop(l) PROVE LevelsServeApart'
  <2>1. CASE ~has_request
    BY <1>5, <1>9, <2>1, SMTT(20) DEF Pop, vars, linuxVars, Serving
  <2>2. CASE has_request /\ PopRequest
    <3> DEFINE i == req_ring[Slot(req_index_last)]
    <3>1. /\ \A j \in jobs : j.idx # i
          /\ jobs \subseteq jobs'
          /\ \E j \in jobs' : j.idx = i /\ j.opcode = desc[i].opcode
      BY <2>2, PopEffect, SMTT(20)
    <3>2. IF desc[i].opcode = "Write"
          THEN level' = [level EXCEPT ![l] = "write"] /\ serving' = [serving EXCEPT ![l] = i]
          ELSE level' = [level EXCEPT ![l] = "lock_pop"] /\ UNCHANGED serving
      BY <1>9, <2>2 DEF Pop
    <3> HIDE DEF i
    <3>3. \A k \in Level : k # l => level'[k] = level[k] /\ serving'[k] = serving[k]
      BY <1>0, <3>2
    <3>4. \A k \in Level : level[k] \in Serving =>
            serving[k] # i /\ \E j \in jobs' : j.idx = serving[k] /\ j.opcode = "Write"
      BY <3>1 DEF LevelsServeApart, Serving
    <3>5. level'[l] \in Serving =>
            serving'[l] = i /\ \E j \in jobs' : j.idx = i /\ j.opcode = "Write"
      BY <1>0, <3>1, <3>2 DEF Serving
    <3>6. \A k \in Level : level'[k] \in Serving =>
            \E j \in jobs' : j.idx = serving'[k] /\ j.opcode = "Write"
      BY <3>3, <3>4, <3>5, SMTT(20)
    <3>7. \A k, m \in Level : k # m /\ level'[k] \in Serving /\ level'[m] \in Serving =>
            serving'[m] # serving'[k]
      BY <3>3, <3>4, <3>5, SMTT(20) DEF LevelsServeApart, Serving
    <3> QED
      BY <3>6, <3>7, SMTT(20) DEF LevelsServeApart, Serving
  <2> QED
    BY <1>9, <2>1, <2>2 DEF Pop
<1>10. ASSUME NEW l \in Level, Write(l) PROVE LevelsServeApart'
  <2>1. PICK j \in jobs : j.idx = serving[l] /\ Execute(j)
    BY <1>10, SMTT(20) DEF Write
  <2>2. /\ Serves(l) /\ level' = [level EXCEPT ![l] = "lock_push"] /\ UNCHANGED serving
    BY <1>10 DEF Write, Runs, Serving
  <2>3. \E r : jobs' = (jobs \ {j}) \cup {[j EXCEPT !.ret = r]}
    BY <2>1 DEF Execute
  <2>4. \A r : [j EXCEPT !.ret = r].idx = j.idx /\ [j EXCEPT !.ret = r].opcode = j.opcode
    <3>1. j \in Job
      BY SMTT(20) DEF IInv, TypeOK
    <3> QED
      BY <3>1 DEF Job
  <2>5. \A m \in jobs : \E n \in jobs' : n.idx = m.idx /\ n.opcode = m.opcode
    <3> TAKE m \in jobs
    <3>1. PICK r : jobs' = (jobs \ {j}) \cup {[j EXCEPT !.ret = r]}
      BY <2>3
    <3>2. CASE m = j
      BY <2>4, <3>1, <3>2, Zenon
    <3>3. CASE m # j
      BY <3>1, <3>3
    <3> QED
      BY <3>2, <3>3
  <2>6. \A k \in Level : level'[k] \in Serving => level[k] \in Serving
    BY <1>0, <2>2
  <2> QED
    BY <2>2, <2>5, <2>6, SMTT(20) DEF LevelsServeApart, Serving
<1>11. ASSUME NEW l \in Level, Push(l) PROVE LevelsServeApart'
  <2>1. PICK j \in jobs : j.idx = serving[l] /\ PushResponse(j)
    BY <1>11 DEF Push
  <2>2. Serves(l) /\ level' = [level EXCEPT ![l] = "lock_pop"] /\ UNCHANGED serving
    BY <1>11 DEF Push, Runs, Serving
  <2>3. jobs' = jobs \ {j}
    BY <2>1 DEF PushResponse
  <2>4. \A k \in Level : level'[k] \in Serving => k # l /\ level[k] \in Serving
    BY <1>0, <2>2, SMTT(20) DEF Serving
  <2>5. \A k \in Level : level'[k] \in Serving => serving[k] # j.idx
    BY <2>1, <2>2, <2>4 DEF LevelsServeApart, Serving
  <2> QED
    BY <2>2, <2>3, <2>4, <2>5 DEF LevelsServeApart, Serving
<1>12. ASSUME NEW i \in Index, ReadThread(i) PROVE LevelsServeApart'
  <2>1. PICK j \in jobs : j.opcode = "Read" /\ (Execute(j) \/ PushResponse(j))
    BY <1>12 DEF ReadThread
  <2>2. \A m \in jobs : m.opcode = "Write" => m \in jobs'
    BY <2>1, SMTT(20) DEF Execute, PushResponse
  <2> QED
    BY <1>12, <2>2, JobsKept DEF ReadThread, sysVars
<1>13. ASSUME Killed \/ \E l \in Level : WriteAborts(l) PROVE LevelsServeApart'
  <2>1. \A l \in Level : level'[l] = "off"
    BY <1>13 DEF Killed, WriteAborts, Dies
  <2> QED
    BY <2>1 DEF LevelsServeApart
<1> QED
  BY <1>2, <1>3, <1>4, <1>6, <1>7, <1>8, <1>9, <1>10, <1>11, <1>12, <1>13, SMTT(20) DEF SysNext,
     MainThread

\* A step that changes nothing.
LEMMA SysStutter == SysInv /\ UNCHANGED allVars => SysInv'
<1> SUFFICES ASSUME SysInv, UNCHANGED allVars PROVE SysInv'
  OBVIOUS
<1>1. UNCHANGED <<notify, irq, ipi, registered, signals, dead, base, level, serving, lock, jobs,
                  req_index, req_index_last>>
  BY DEF allVars, sysVars, vars, linuxVars, sharedVars
<1>2. SysTypeOK'
  BY <1>1 DEF SysInv, SysTypeOK
<1>3. Listening' /\ Registered' /\ OnItsWay'
  BY <1>1 DEF SysInv, Listening, Registered, OnItsWay, has_request
<1>4. LevelsServeApart'
  BY <1>1 DEF SysInv, LevelsServeApart
<1> QED
  BY <1>2, <1>3, <1>4 DEF SysInv

\* The invariant of the system, which rests on that of the queue.
LEMMA SysInvariance == SysSafety => []SysInv
<1>1. IInv /\ SysInv /\ [SysNext]_allVars => SysInv'
  BY SysTypeStep, OnItsWayStep, ServeApartStep, SysStutter DEF SysInv
<1> QED
  BY <1>1, SysInitInv, QueueInvariance, PTL DEF SysSafety

\* The variables around the queue keep their types; at most MaxSignals signals are
\* queued.
THEOREM SysTypeCorrect == SysSafety => []SysTypeOK
<1>1. SysInv => SysTypeOK
  BY DEF SysInv
<1> QED
  BY <1>1, SysInvariance, PTL

\* No request is forgotten, for any number of tasks and any limit on queued signals:
\* when the shadow process idles and no notification is under way, the ring is empty.
THEOREM NoRequestEverForgotten == SysSafety => []NoRequestForgotten
<1>1. SysInv => NoRequestForgotten
  BY DEF SysInv, SysTypeOK, OnItsWay, NoRequestForgotten
<1> QED
  BY <1>1, SysInvariance, PTL

\* The signal handler may interrupt the first poll_requests anywhere: the two never serve
\* the same descriptor, and each finds its job where it left it.
THEOREM LevelsAlwaysApart == SysSafety => []LevelsServeApart
<1>1. SysInv => LevelsServeApart
  BY DEF SysInv
<1> QED
  BY <1>1, SysInvariance, PTL
=============================================================================
