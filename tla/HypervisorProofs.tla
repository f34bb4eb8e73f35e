-------------------------- MODULE HypervisorProofs --------------------------
(***************************************************************************)
(* Entering and leaving the hypervisor, for any number of CPUs and any     *)
(* errors.  The barriers are counters, so the invariant bounds each of     *)
(* them by the number of CPUs that are past the place where they count: a  *)
(* counter that has reached vm_cpus then says that all of them are.        *)
(***************************************************************************)
EXTENDS Hypervisor, FiniteSetTheorems, TLAPS

Pre == {"enter", "wait_entered", "early", "wait_early", "init"}
Behind == {"late", "wait_late", "activate", "vmlaunch"}
Tried == {"wait_disable", "returned", "linux"}

Entered == {c \in Cpu : pc[c] # "enter"}
PastInit == {c \in Cpu : pc[c] \notin Pre}
Passed == {c \in PastInit : ret[c] \notin Error /\ (context[c] = "image" \/ launch_failed)}
PastActivate == {c \in PastInit : pc[c] \notin {"wait_inited", "late", "wait_late", "activate"}}
Launched == {c \in Cpu : pc[c] = "vmlaunch" \/ guest[c]}
Done == {c \in Cpu : pc[c] = "linux"}
Asked == {c \in Cpu : pc[c] \in Tried}

IdleInv ==
  /\ \A c \in Cpu : pc[c] = "linux"
  /\ enabled => mapped /\ try_disable = 0
  /\ ~launch_failed => \A c \in Cpu : IF enabled THEN guest[c]
                                     ELSE ~guest[c] /\ context[c] = "linux"

EnableCounts ==
  /\ entered <= Cardinality(Entered) /\ inited <= Cardinality(PastInit)
  /\ activated <= Cardinality(PastActivate) /\ call_done <= Cardinality(Done)
  /\ error_num = "ok" => inited <= Cardinality(Passed)

EnablePlaces ==
  /\ ~enabled /\ mapped /\ try_disable = 0
  /\ late \/ (\E c \in Cpu : pc[c] \in Behind) => Passed = Cpu /\ error_num \notin Error
  /\ \A c \in Cpu :
       /\ pc[c] \notin {"leave", "try", "wait_disable"}
       /\ guest[c] \/ pc[c] \in {"activate", "vmlaunch"} => late
       /\ guest[c] => pc[c] \in {"returned", "linux"}
       /\ pc[c] \in Pre \cup Behind \cup {"wait_inited"} => ret[c] = "ok"
       /\ pc[c] = "store" => ret[c] # "ok"
       /\ pc[c] = "load" => error_num # "ok"
       /\ pc[c] \in {"returned", "linux"} /\ ~launch_failed =>
            IF ret[c] = "ok" THEN guest[c] ELSE context[c] = "linux"
       /\ pc[c] = "linux" /\ ret[c] # "ok" => error_code # "ok"
  /\ error_code # "ok" => \E c \in Cpu : pc[c] = "linux" /\ ret[c] # "ok"

DisableInv ==
  /\ enabled /\ mapped /\ error_code = "ok" /\ ~launch_failed
  /\ try_disable <= Cardinality(Asked) /\ call_done <= Cardinality(Done)
  /\ \A c \in Cpu :
       /\ pc[c] \in {"leave", "try"} \cup Tried
       /\ pc[c] \in {"try", "wait_disable"} => cpus[c] >= vm_cpus
       /\ IF pc[c] \in {"returned", "linux"}
          THEN ~guest[c] /\ context[c] = "linux" /\ ret[c] = "ok"
          ELSE guest[c]
  /\ (\E c \in Cpu : ~guest[c]) => Asked = Cpu

IInv ==
  /\ TypeOK
  /\ Cardinality(Launched) <= activated
  /\ cmd = "idle" => IdleInv
  /\ cmd = "enable" => EnableCounts /\ EnablePlaces
  /\ cmd = "disable" => DisableInv

-----------------------------------------------------------------------------
(* Counting *)

\* Counting CPUs: more of them give a larger number, and vm_cpus of them are all.
LEMMA Count ==
  ASSUME NEW S \in SUBSET Cpu
  PROVE  /\ vm_cpus \in Nat /\ Cardinality(S) \in Nat /\ Cardinality(S) <= vm_cpus
         /\ Cardinality(S) >= vm_cpus => S = Cpu
         /\ \A T \in SUBSET S : Cardinality(T) \in Nat /\ Cardinality(T) <= Cardinality(S)
         /\ \A c \in Cpu \ S : Cardinality(S \cup {c}) = Cardinality(S) + 1
         /\ \A c \in S : Cardinality(S \ {c}) = Cardinality(S) - 1
<1>1. IsFiniteSet(S) /\ Cardinality(S) <= Cardinality(Cpu) /\ (Cardinality(Cpu) = Cardinality(S) => S = Cpu)
    BY CpuAssumption, FS_Subset
<1>2. Cardinality(S) \in Nat /\ Cardinality(Cpu) \in Nat
    BY <1>1, CpuAssumption, FS_CardinalityType
<1>3. \A T \in SUBSET S : Cardinality(T) \in Nat /\ Cardinality(T) <= Cardinality(S)
    BY <1>1, FS_Subset, FS_CardinalityType
<1>4. \A c \in Cpu \ S : Cardinality(S \cup {c}) = Cardinality(S) + 1
    BY <1>1, FS_AddElement
<1>5. \A c \in S : Cardinality(S \ {c}) = Cardinality(S) - 1
    BY <1>1, FS_RemoveElement
<1> QED
    BY <1>1, <1>2, <1>3, <1>4, <1>5 DEF vm_cpus

\* A counter below a set of CPUs stays below a larger one, and one more of it below
\* the set with one more CPU.
LEMMA Grow ==
  ASSUME NEW S \in SUBSET Cpu, NEW T \in SUBSET Cpu, NEW n \in Nat, n <= Cardinality(S), S \subseteq T
  PROVE  /\ n <= Cardinality(T) /\ n <= vm_cpus
         /\ \A c \in T \ S : n + 1 <= Cardinality(T) /\ n + 1 <= vm_cpus
<1>1. Cardinality(S) \in Nat /\ Cardinality(T) \in Nat /\ Cardinality(S) <= Cardinality(T)
    BY Count
<1>2. Cardinality(T) <= vm_cpus /\ vm_cpus \in Nat
    BY Count
<1>3. ASSUME NEW c \in T \ S PROVE n + 1 <= Cardinality(T)
  <2>1. S \cup {c} \in SUBSET T /\ Cardinality(S \cup {c}) = Cardinality(S) + 1
      BY Count
  <2> QED
      BY <1>1, <2>1, Count
<1> QED
    BY <1>1, <1>2, <1>3

-----------------------------------------------------------------------------
(* The steps of the enable command *)

\* A CPU on its way in moves forward only: what was counted stays counted, and what
\* passes a place for the first time may be counted.
LEMMA Forward ==
  ASSUME TypeOK, EnableCounts, NEW c \in Cpu, NEW q, pc' = [pc EXCEPT ![c] = q],
         q # "enter", pc[c] \notin Pre => q \notin Pre, pc[c] # "linux",
         c \in PastActivate => q \notin Pre \cup {"wait_inited", "late", "wait_late", "activate"}
  PROVE  /\ entered <= Cardinality(Entered')
         /\ pc[c] = "enter" => entered + 1 <= Cardinality(Entered') /\ entered + 1 <= vm_cpus
         /\ inited <= Cardinality(PastInit')
         /\ pc[c] \in Pre /\ q \notin Pre =>
              inited + 1 <= Cardinality(PastInit') /\ inited + 1 <= vm_cpus
         /\ activated <= Cardinality(PastActivate')
         /\ pc[c] = "activate" /\ q = "vmlaunch" =>
              activated + 1 <= Cardinality(PastActivate') /\ activated + 1 <= vm_cpus
         /\ call_done <= Cardinality(Done')
         /\ q = "linux" => call_done + 1 <= Cardinality(Done') /\ call_done + 1 <= vm_cpus
<1>1. /\ Entered \in SUBSET Cpu /\ Entered' \in SUBSET Cpu
      /\ PastInit \in SUBSET Cpu /\ PastInit' \in SUBSET Cpu
      /\ PastActivate \in SUBSET Cpu /\ PastActivate' \in SUBSET Cpu
      /\ Done \in SUBSET Cpu /\ Done' \in SUBSET Cpu
    BY DEF Entered, PastInit, PastActivate, Done
<1>2. entered \in Nat /\ inited \in Nat /\ activated \in Nat /\ call_done \in Nat
    BY Count DEF TypeOK
<1>3. pc \in [Cpu -> {"linux", "enter", "wait_entered", "early", "wait_early", "init",
                     "wait_inited", "late", "wait_late", "activate", "vmlaunch", "store",
                     "load", "returned", "lost", "leave", "try", "wait_disable"}]
    BY DEF TypeOK
<1>4. Entered \subseteq Entered' /\ (pc[c] = "enter" => c \in Entered' \ Entered)
    BY <1>3 DEF Entered
<1>5. PastInit \subseteq PastInit' /\ (pc[c] \in Pre /\ q \notin Pre => c \in PastInit' \ PastInit)
    BY <1>3 DEF PastInit
<1>6. /\ PastActivate \subseteq PastActivate'
      /\ pc[c] = "activate" /\ q = "vmlaunch" => c \in PastActivate' \ PastActivate
    BY <1>3 DEF PastActivate, PastInit, Pre
<1>7. Done \subseteq Done' /\ (q = "linux" => c \in Done' \ Done)
    BY <1>3 DEF Done
<1> QED
    BY <1>1, <1>2, <1>4, <1>5, <1>6, <1>7, Grow DEF EnableCounts

\* As long as no error is stored, a CPU behind its initialisation stays counted as passed.
LEMMA ForwardPassed ==
  ASSUME TypeOK, EnableCounts, error_num = "ok", NEW c \in Cpu, NEW q, NEW r \in Code,
         pc' = [pc EXCEPT ![c] = q], ret' = [ret EXCEPT ![c] = r],
         pc[c] \notin Pre => q \notin Pre /\ r \notin Error,
         \A d \in Cpu : context[d] = "image" \/ launch_failed => context'[d] = "image" \/ launch_failed'
  PROVE  /\ inited <= Cardinality(Passed')
         /\ pc[c] \in Pre /\ q \notin Pre /\ r \notin Error /\ context'[c] = "image" =>
              inited + 1 <= Cardinality(Passed')
<1>1. Passed \in SUBSET Cpu /\ Passed' \in SUBSET Cpu
    BY DEF Passed, PastInit
<1>2. inited \in Nat
    BY Count DEF TypeOK
<1>3. /\ DOMAIN pc = Cpu /\ pc = [d \in Cpu |-> pc[d]]
      /\ DOMAIN ret = Cpu /\ ret = [d \in Cpu |-> ret[d]]
    BY DEF TypeOK
<1>4. /\ Passed \subseteq Passed'
      /\ pc[c] \in Pre /\ q \notin Pre /\ r \notin Error /\ context'[c] = "image" => c \in Passed' \ Passed
    BY <1>3 DEF Passed, PastInit
<1> QED
    BY <1>1, <1>2, <1>4, Grow DEF EnableCounts

\* The CPUs that count as activated are at most ACTIVATED_CPUS.
LEMMA FewerLaunched ==
  ASSUME TypeOK, Cardinality(Launched) <= activated, Launched' \subseteq Launched
  PROVE  Cardinality(Launched') <= activated
<1>1. Launched \in SUBSET Cpu /\ activated \in Nat
    BY Count DEF TypeOK, Launched
<1> QED
    BY <1>1, Count

\* What IInv says while the hypervisor is being entered
Entering ==
  /\ cmd = "enable" /\ TypeOK /\ Cardinality(Launched) <= activated
  /\ EnableCounts /\ EnablePlaces

\* A CPU enters the image: ENTERED_CPUS counts one CPU more.
LEMMA EnterStep == ASSUME Entering, NEW c \in Cpu, Enter(c) PROVE Entering'
<1> USE DEF Enter, Goto, driverVars
<1>1. /\ entered + 1 <= Cardinality(Entered') /\ entered + 1 <= vm_cpus
      /\ inited <= Cardinality(PastInit') /\ activated <= Cardinality(PastActivate')
      /\ call_done <= Cardinality(Done')
    BY Forward DEF Entering, Pre, PastActivate, PastInit
<1>2. TypeOK'
    BY <1>1, Count DEF Entering, TypeOK
<1>3. ret = [ret EXCEPT ![c] = ret[c]] /\ ret[c] \in Code
    BY DEF Entering, TypeOK
<1>4. error_num = "ok" => inited <= Cardinality(Passed')
    BY <1>3, ForwardPassed DEF Entering, Pre
<1>5. EnablePlaces'
    BY DEF Entering, TypeOK, EnablePlaces, Pre, Behind, Passed, PastInit
<1>6. Launched' \subseteq Launched
    BY DEF Entering, TypeOK, Launched
<1> QED
    BY <1>1, <1>2, <1>4, <1>5, <1>6, FewerLaunched DEF Entering, EnableCounts

\* A CPU leaves one of the four waiting loops: its condition holds, or another CPU failed.
LEMMA WaitStep ==
  ASSUME Entering, NEW c \in Cpu, NEW condition, NEW q, wait_for(c, condition, q),
         pc[c] \in {"wait_entered", "wait_early", "wait_inited", "wait_late"},
         q \in {"early", "wait_early", "init", "late", "wait_late", "activate"},
         pc[c] = "wait_inited" => q \in {"late", "wait_late"} /\ (condition => inited >= vm_cpus),
         pc[c] = "wait_late" => q = "activate" /\ (condition => late),
         pc[c] \in {"wait_entered", "wait_early"} => q \in {"early", "wait_early", "init"}
  PROVE  Entering'
<1> USE DEF wait_for, Fail, Goto, driverVars, imageVars
<1>1. PICK w \in {"store", q} : pc' = [pc EXCEPT ![c] = w]
    OBVIOUS
<1>2. /\ entered <= Cardinality(Entered') /\ inited <= Cardinality(PastInit')
      /\ activated <= Cardinality(PastActivate') /\ call_done <= Cardinality(Done')
    BY <1>1, Forward, Zenon DEF Entering, Pre, PastActivate, PastInit
<1>3. TypeOK'
    BY <1>1, Count DEF Entering, TypeOK, Code
<1>4. Launched' \subseteq Launched
    BY DEF Entering, TypeOK, Launched
<1>5. CASE error_num # "ok"
  <2>1. ret' = [ret EXCEPT ![c] = "EBUSY"] /\ pc' = [pc EXCEPT ![c] = "store"]
      BY <1>5
  <2>2. Passed \subseteq Passed'
      BY <2>1, ErrorAssumption DEF Entering, TypeOK, Passed, PastInit, Pre
  <2>3. EnablePlaces'
      BY <1>5, <2>1, <2>2 DEF Entering, TypeOK, EnablePlaces, Pre, Behind, Passed, PastInit
  <2> QED
      BY <1>2, <1>3, <1>4, <1>5, <2>3, FewerLaunched DEF Entering, EnableCounts
<1>6. CASE error_num = "ok"
  <2>1. ret' = ret /\ pc' = [pc EXCEPT ![c] = q] /\ condition
      BY <1>6
  <2>2. ret = [ret EXCEPT ![c] = ret[c]] /\ ret[c] \in Code
      BY DEF Entering, TypeOK
  <2>3. ret[c] = "ok"
      BY DEF Entering, EnablePlaces, Pre, Behind
  <2>4. inited <= Cardinality(Passed')
      BY <1>6, <2>1, <2>2, <2>3, ErrorAssumption, ForwardPassed DEF Entering, Pre
  <2>5. pc[c] = "wait_inited" => Passed = Cpu
    <3>1. Passed \in SUBSET Cpu /\ inited \in Nat
        BY Count DEF Entering, TypeOK, Passed, PastInit
    <3> QED
        BY <1>6, <2>1, <3>1, Count DEF Entering, EnableCounts
  <2>6. EnablePlaces'
      BY <1>6, <2>1, <2>5, ErrorAssumption DEF Entering, TypeOK, EnablePlaces, Pre, Behind, Passed, PastInit
  <2> QED
      BY <1>2, <1>3, <1>4, <2>1, <2>4, <2>6, FewerLaunched DEF Entering, EnableCounts
<1> QED
    BY <1>5, <1>6

\* The primary CPU initialises what all of them need, or fails.
LEMMA EarlyStep == ASSUME Entering, NEW c \in Cpu, primary_init_early(c) PROVE Entering'
<1> USE DEF primary_init_early, Fail, Goto, driverVars
<1>1. PICK q \in {"init", "store"}, r \in Error \cup {"ok"} :
        /\ pc' = [pc EXCEPT ![c] = q] /\ ret' = [ret EXCEPT ![c] = r]
        /\ q = "init" <=> r = "ok"
    BY ErrorAssumption DEF Entering, TypeOK, EnablePlaces, Pre
<1>2. /\ entered <= Cardinality(Entered') /\ inited <= Cardinality(PastInit')
      /\ activated <= Cardinality(PastActivate') /\ call_done <= Cardinality(Done')
    BY <1>1, Forward DEF Entering, Pre, PastActivate, PastInit
<1>3. TypeOK'
    BY <1>1, ZenonT(40) DEF Entering, TypeOK, Code
<1>4. error_num = "ok" => inited <= Cardinality(Passed')
    BY <1>1, ForwardPassed, Zenon DEF Entering, Pre, Code
<1>5. EnablePlaces'
    BY <1>1 DEF Entering, TypeOK, EnablePlaces, Pre, Behind, Passed, PastInit
<1>6. Launched' \subseteq Launched
    BY <1>1 DEF Entering, TypeOK, Launched
<1> QED
    BY <1>2, <1>3, <1>4, <1>5, <1>6, FewerLaunched DEF Entering, EnableCounts

\* A CPU is initialised and counted, or fails and is not.
LEMMA InitStep == ASSUME Entering, NEW c \in Cpu, init(c) PROVE Entering'
<1> USE DEF init, Fail, Goto, driverVars
<1>1. PICK q \in {"wait_inited", "store"}, r \in Error \cup {"ok"} :
        /\ pc' = [pc EXCEPT ![c] = q] /\ ret' = [ret EXCEPT ![c] = r]
        /\ q = "wait_inited" <=> r = "ok"
        /\ inited' = IF q = "wait_inited" THEN inited + 1 ELSE inited
    BY ErrorAssumption DEF Entering, TypeOK, EnablePlaces, Pre
<1>2. /\ entered <= Cardinality(Entered')
      /\ inited + 1 <= Cardinality(PastInit') /\ inited + 1 <= vm_cpus
      /\ activated <= Cardinality(PastActivate') /\ call_done <= Cardinality(Done')
    BY <1>1, Forward DEF Entering, Pre, PastActivate, PastInit
<1>3. TypeOK'
    BY <1>1, <1>2, Count DEF Entering, TypeOK, Code
<1>4. error_num = "ok" => inited' <= Cardinality(Passed')
  <2>1. /\ context'[c] = "image"
        /\ \A d \in Cpu : context[d] = "image" \/ launch_failed => context'[d] = "image" \/ launch_failed'
      BY DEF Entering, TypeOK
  <2>2. r \in Code /\ pc[c] \in Pre
      BY DEF Code, Pre
  <2>3. error_num = "ok" => /\ inited <= Cardinality(Passed')
                            /\ q \notin Pre /\ r \notin Error => inited + 1 <= Cardinality(Passed')
      BY <1>1, <2>1, <2>2, ForwardPassed DEF Entering
  <2> QED
      BY <1>1, <2>3, ErrorAssumption DEF Pre
<1>5. EnablePlaces'
    BY <1>1 DEF Entering, TypeOK, EnablePlaces, Pre, Behind, Passed, PastInit
<1>6. Launched' \subseteq Launched
    BY <1>1 DEF Entering, TypeOK, Launched
<1>7. inited' <= Cardinality(PastInit')
    BY <1>1, <1>2, <1>3, Count DEF Entering, TypeOK, PastInit
<1> QED
    BY <1>2, <1>3, <1>4, <1>5, <1>6, <1>7, FewerLaunched DEF Entering, EnableCounts

\* INIT_LATE_OK is set when every CPU has passed.
LEMMA LateStep == ASSUME Entering, NEW c \in Cpu, primary_init_late(c) PROVE Entering'
<1> USE DEF primary_init_late, Goto, driverVars
<1>1. /\ entered <= Cardinality(Entered') /\ inited <= Cardinality(PastInit')
      /\ activated <= Cardinality(PastActivate') /\ call_done <= Cardinality(Done')
    BY Forward DEF Entering, Pre, PastActivate, PastInit
<1>2. TypeOK'
    BY DEF Entering, TypeOK
<1>3. ret = [ret EXCEPT ![c] = ret[c]] /\ ret[c] \in Code \ Error
    BY ErrorAssumption DEF Entering, TypeOK, EnablePlaces, Behind
<1>4. error_num = "ok" => inited <= Cardinality(Passed')
    BY <1>3, ForwardPassed, Zenon DEF Entering, Pre
<1>5. EnablePlaces'
    BY DEF Entering, TypeOK, EnablePlaces, Pre, Behind, Passed, PastInit
<1>6. Launched' \subseteq Launched
    BY DEF Entering, TypeOK, Launched
<1> QED
    BY <1>1, <1>2, <1>4, <1>5, <1>6, FewerLaunched DEF Entering, EnableCounts

\* A CPU counts as activated from just before its vmlaunch.
LEMMA ActivateStep == ASSUME Entering, NEW c \in Cpu, activate_vmm(c) PROVE Entering'
<1> USE DEF activate_vmm, Goto, driverVars
<1>1. /\ entered <= Cardinality(Entered') /\ inited <= Cardinality(PastInit')
      /\ activated + 1 <= Cardinality(PastActivate') /\ activated + 1 <= vm_cpus
      /\ call_done <= Cardinality(Done')
    BY Forward DEF Entering, Pre, PastActivate, PastInit
<1>2. TypeOK'
    BY <1>1, Count DEF Entering, TypeOK
<1>3. ret = [ret EXCEPT ![c] = ret[c]] /\ ret[c] \in Code \ Error
    BY ErrorAssumption DEF Entering, TypeOK, EnablePlaces, Behind
<1>4. error_num = "ok" => inited <= Cardinality(Passed')
    BY <1>3, ForwardPassed DEF Entering, Pre
<1>5. EnablePlaces'
    BY DEF Entering, TypeOK, EnablePlaces, Pre, Behind, Passed, PastInit
<1>6. Cardinality(Launched') <= activated + 1
  <2>1. Launched \in SUBSET Cpu /\ Launched' = Launched \cup {c} /\ activated \in Nat
      BY Count DEF Entering, TypeOK, Launched
  <2>2. CASE c \in Launched
      BY <2>1, <2>2, Count DEF Entering
  <2>3. CASE c \notin Launched
      BY <2>1, <2>3, Count DEF Entering
  <2> QED
      BY <2>2, <2>3
<1> QED
    BY <1>1, <1>2, <1>4, <1>5, <1>6 DEF Entering, EnableCounts

\* A CPU becomes a guest.
LEMMA LaunchStep == ASSUME Entering, NEW c \in Cpu, VmLaunch(c) PROVE Entering'
<1> USE DEF VmLaunch, Goto, driverVars, imageVars
<1>1. /\ entered <= Cardinality(Entered') /\ inited <= Cardinality(PastInit')
      /\ activated <= Cardinality(PastActivate') /\ call_done <= Cardinality(Done')
    BY Forward DEF Entering, Pre, PastActivate, PastInit
<1>2. TypeOK'
    BY DEF Entering, TypeOK, Code
<1>3. error_num = "ok" => inited <= Cardinality(Passed')
    BY ErrorAssumption, ForwardPassed DEF Entering, Pre, Code
<1>4. EnablePlaces'
    BY ErrorAssumption DEF Entering, TypeOK, EnablePlaces, Pre, Behind, Passed, PastInit
<1>5. Launched' \subseteq Launched
    BY DEF Entering, TypeOK, Launched
<1> QED
    BY <1>1, <1>2, <1>3, <1>4, <1>5, FewerLaunched DEF Entering, EnableCounts

\* Whatever becomes of a CPU whose vmlaunch fails, all CPUs had passed by then, and
\* ACTIVATED_CPUS still covers those that are guests.
LEMMA LaunchFailsStep == ASSUME Entering, NEW c \in Cpu, VmLaunchFails(c) PROVE Entering'
<1> USE DEF VmLaunchFails, try_handle_panic, Fail, Goto, driverVars
<1>1. PICK q \in {"returned", "store", "lost"}, r \in {"ok", "EIO"} :
        /\ pc' = [pc EXCEPT ![c] = q] /\ ret' = [ret EXCEPT ![c] = r]
        /\ q = "store" => r = "EIO"
        /\ activated' = IF q = "returned" THEN activated - 1 ELSE activated
        /\ context' = context \/ context' = [context EXCEPT ![c] = "linux"]
    BY DEF Entering, TypeOK, EnablePlaces, Behind
<1>2. /\ entered <= Cardinality(Entered') /\ inited <= Cardinality(PastInit')
      /\ activated <= Cardinality(PastActivate') /\ call_done <= Cardinality(Done')
    BY <1>1, Forward, Zenon DEF Entering, Pre, PastActivate, PastInit
<1>3. /\ Launched \in SUBSET Cpu /\ Launched' \in SUBSET Cpu /\ c \in Launched
      /\ Launched' \subseteq Launched /\ (~guest[c] => Launched' = Launched \ {c})
    BY <1>1 DEF Entering, TypeOK, Launched
<1>4. Cardinality(Launched') <= activated' /\ activated' \in 0..vm_cpus
  <2>1. /\ ~guest[c] /\ activated \in Nat /\ vm_cpus \in Nat /\ activated <= vm_cpus
        /\ Cardinality(Launched) <= activated
      BY Count, SMTT(20) DEF Entering, TypeOK, EnablePlaces
  <2>2. Cardinality(Launched') = Cardinality(Launched) - 1 /\ Cardinality(Launched') \in Nat
      BY <1>3, <2>1, Count
  <2>3. Cardinality(Launched) \in Nat /\ (activated' = activated \/ activated' = activated - 1)
      BY <1>1, <1>3, Count
  <2> QED
      BY ONLY <2>1, <2>2, <2>3
<1>5. TypeOK'
    BY <1>1, <1>4 DEF Entering, TypeOK, Code
<1>6. error_num = "ok" => inited <= Cardinality(Passed')
    BY <1>1, ErrorAssumption, ForwardPassed, Zenon DEF Entering, Pre, Code
<1>7. EnablePlaces'
    BY <1>1, ErrorAssumption DEF Entering, TypeOK, EnablePlaces, Pre, Behind, Passed, PastInit
<1>8. activated' <= Cardinality(PastActivate')
  <2>1. activated \in Nat /\ Cardinality(PastActivate') \in Nat
      BY Count DEF Entering, TypeOK, PastActivate, PastInit
  <2> QED
      BY ONLY <1>1, <1>2, <2>1
<1> QED
    BY <1>2, <1>4, <1>5, <1>6, <1>7, <1>8 DEF Entering, EnableCounts

\* An error is stored: from here on no counter opens a barrier.
LEMMA StoreStep == ASSUME Entering, NEW c \in Cpu, StoreError(c) PROVE Entering'
<1> USE DEF StoreError, Goto, driverVars
<1>1. /\ entered <= Cardinality(Entered') /\ inited <= Cardinality(PastInit')
      /\ activated <= Cardinality(PastActivate') /\ call_done <= Cardinality(Done')
    BY Forward, ZenonT(40) DEF Entering, Pre, PastActivate, PastInit
<1>2. ret[c] \in Code /\ ret[c] # "ok"
    BY DEF Entering, TypeOK, EnablePlaces
<1>3. TypeOK'
    BY <1>2 DEF Entering, TypeOK
<1>4. Passed' = Passed
    BY DEF Entering, TypeOK, Passed, PastInit, Pre
<1>5. EnablePlaces'
    BY <1>2, <1>4 DEF Entering, TypeOK, EnablePlaces, Pre, Behind, Passed
<1>6. Launched' \subseteq Launched
    BY SMTT(20) DEF Entering, TypeOK, Launched
<1> QED
    BY <1>1, <1>2, <1>3, <1>5, <1>6, FewerLaunched DEF Entering, EnableCounts

\* The error that is returned may be the one of another CPU.
LEMMA LoadStep == ASSUME Entering, NEW c \in Cpu, LoadError(c) PROVE Entering'
<1> USE DEF LoadError, arch_entry_return, Goto, driverVars, imageVars
<1>1. /\ entered <= Cardinality(Entered') /\ inited <= Cardinality(PastInit')
      /\ activated <= Cardinality(PastActivate') /\ call_done <= Cardinality(Done')
    BY Forward, Zenon DEF Entering, Pre, PastActivate, PastInit
<1>2. error_num \in Code /\ error_num # "ok"
    BY DEF Entering, TypeOK, EnablePlaces
<1>3. TypeOK'
    BY <1>2 DEF Entering, TypeOK
<1>4. error_num \notin Error => Passed \subseteq Passed'
    BY DEF Entering, TypeOK, Passed, PastInit, Pre
<1>5. EnablePlaces'
    BY <1>2, <1>4 DEF Entering, TypeOK, EnablePlaces, Pre, Behind, Passed, PastInit
<1>6. Launched' \subseteq Launched
    BY DEF Entering, TypeOK, Launched
<1> QED
    BY <1>1, <1>2, <1>3, <1>5, <1>6, FewerLaunched, SMTT(20) DEF Entering, EnableCounts

\* A CPU is back in enter_hypervisor and counts as done.
LEMMA EnterDoneStep == ASSUME Entering, NEW c \in Cpu, CallDone(c) PROVE Entering'
<1> USE DEF CallDone, Goto, imageVars
<1>1. /\ entered <= Cardinality(Entered') /\ inited <= Cardinality(PastInit')
      /\ activated <= Cardinality(PastActivate')
      /\ call_done + 1 <= Cardinality(Done') /\ call_done + 1 <= vm_cpus
    BY Forward, Zenon DEF Entering, Pre, PastActivate, PastInit
<1>2. TypeOK'
    BY <1>1, Count DEF Entering, TypeOK
<1>3. Passed' = Passed
    BY DEF Entering, TypeOK, Passed, PastInit, Pre
<1>4. EnablePlaces'
    BY <1>3 DEF Entering, TypeOK, EnablePlaces, Pre, Behind, Passed
<1>5. Launched' \subseteq Launched
    BY DEF Entering, TypeOK, Launched
<1> QED
    BY <1>1, <1>2, <1>3, <1>4, <1>5, FewerLaunched, SMTT(20) DEF Entering, EnableCounts

-----------------------------------------------------------------------------
(* The steps of the disable command *)

\* What IInv says while the hypervisor is being left
Leaving ==
  cmd = "disable" /\ TypeOK /\ Cardinality(Launched) <= activated /\ DisableInv

\* Each CPU that is still to ask keeps all of them in, so its copy of ACTIVATED_CPUS
\* is vm_cpus.
LEMMA ReadStep == ASSUME Leaving, NEW c \in Cpu, ReadActivated(c) PROVE Leaving'
<1> USE DEF ReadActivated, Goto, driverVars, imageVars
<1>1. activated >= vm_cpus
  <2>1. Launched = Cpu
      BY DEF Leaving, TypeOK, DisableInv, Asked, Tried, Launched
  <2> QED
      BY <2>1 DEF Leaving, vm_cpus
<1>2. TypeOK'
    BY DEF Leaving, TypeOK
<1>3. Launched' \subseteq Launched
    BY DEF Leaving, TypeOK, Launched
<1>4. Asked' = Asked /\ Done' = Done
    BY DEF Leaving, TypeOK, Asked, Tried, Done
<1>5. DisableInv'
    BY <1>1, <1>4 DEF Leaving, TypeOK, DisableInv, Tried
<1> QED
    BY <1>2, <1>3, <1>5, FewerLaunched DEF Leaving

\* TRY_DISABLE_CPUS counts the CPUs that have asked.
LEMMA TryStep == ASSUME Leaving, NEW c \in Cpu, TryDisable(c) PROVE Leaving'
<1> USE DEF TryDisable, Goto, driverVars
<1>1. /\ Asked \in SUBSET Cpu /\ Asked' \in SUBSET Cpu /\ Asked \subseteq Asked'
      /\ c \in Asked' \ Asked /\ Done' = Done
    BY DEF Leaving, TypeOK, Asked, Tried, Done
<1>2. try_disable \in Nat /\ try_disable + 1 <= Cardinality(Asked') /\ try_disable + 1 <= vm_cpus
  <2>1. try_disable \in Nat
      BY Count DEF Leaving, TypeOK
  <2> QED
      BY <1>1, <2>1, Grow DEF Leaving, DisableInv
<1>3. TypeOK'
    BY <1>2, Count DEF Leaving, TypeOK
<1>4. Launched' \subseteq Launched
    BY DEF Leaving, TypeOK, Launched
<1>5. DisableInv'
    BY <1>1, <1>2 DEF Leaving, TypeOK, DisableInv, Tried
<1> QED
    BY <1>3, <1>4, <1>5, FewerLaunched DEF Leaving

\* A CPU leaves once all have asked.
LEMMA DeactivateStep == ASSUME Leaving, NEW c \in Cpu, deactivate_vmm(c) PROVE Leaving'
<1> USE DEF deactivate_vmm, Goto, driverVars
<1>1. guest[c] /\ cpus[c] >= vm_cpus /\ cpus[c] \in Nat /\ try_disable \in Nat /\ vm_cpus \in Nat
    BY Count DEF Leaving, TypeOK, DisableInv, Tried
<1>2. Asked = Cpu
  <2>1. Asked \in SUBSET Cpu
      BY DEF Asked
  <2> QED
      BY <1>1, <2>1, Count DEF Leaving, DisableInv
<1>3. /\ Launched \in SUBSET Cpu /\ c \in Launched /\ Launched' = Launched \ {c}
    BY <1>1 DEF Leaving, TypeOK, Launched
<1>4. /\ activated \in Nat /\ activated >= 1 /\ Cardinality(Launched') <= activated - 1
  <2>1. activated \in Nat
      BY Count DEF Leaving, TypeOK
  <2>2. Launched' \in SUBSET Cpu
      BY DEF Launched
  <2> QED
      BY <1>3, <2>1, <2>2, Count, SMTT(20) DEF Leaving
<1>5. TypeOK'
    BY <1>1, <1>4 DEF Leaving, TypeOK, Code
<1>6. Asked' = Asked /\ Done' = Done
    BY DEF Leaving, TypeOK, Asked, Tried, Done
<1>7. DisableInv'
    BY <1>2, <1>6 DEF Leaving, TypeOK, DisableInv, Tried
<1> QED
    BY <1>4, <1>5, <1>7 DEF Leaving

\* A CPU is back in leave_hypervisor and counts as done.
LEMMA LeaveDoneStep == ASSUME Leaving, NEW c \in Cpu, CallDone(c) PROVE Leaving'
<1> USE DEF CallDone, Goto, imageVars
<1>1. /\ Done \in SUBSET Cpu /\ Done' \in SUBSET Cpu /\ Done \subseteq Done' /\ c \in Done' \ Done
      /\ Asked' = Asked
    BY DEF Leaving, TypeOK, Asked, Tried, Done
<1>2. call_done \in Nat /\ call_done + 1 <= Cardinality(Done') /\ call_done + 1 <= vm_cpus
  <2>1. call_done \in Nat
      BY Count DEF Leaving, TypeOK
  <2> QED
      BY <1>1, <2>1, Grow DEF Leaving, DisableInv
<1>3. TypeOK'
    BY <1>2, Count DEF Leaving, TypeOK
<1>4. Launched' \subseteq Launched
    BY DEF Leaving, TypeOK, Launched
<1>5. DisableInv'
    BY <1>1, <1>2 DEF Leaving, TypeOK, DisableInv, Tried
<1> QED
    BY <1>3, <1>4, <1>5, FewerLaunched DEF Leaving

-----------------------------------------------------------------------------
(* The driver *)

\* The invariant holds before the first command.
LEMMA InitIInv == Init => IInv
<1> SUFFICES ASSUME Init PROVE IInv
    OBVIOUS
<1>1. TypeOK
  <2>1. vm_cpus \in Nat
      BY CpuAssumption, FS_CardinalityType DEF vm_cpus
  <2>2. 0 \in 0..vm_cpus
      BY <2>1
  <2>3. "ok" \in Code
      BY DEF Code
  <2> QED
      BY <2>2, <2>3 DEF Init, TypeOK
<1>2. Launched = {}
    BY DEF Init, Launched
<1> QED
    BY <1>1, <1>2, FS_EmptySet DEF Init, IInv, IdleInv

\* An enable begins with a fresh image and every CPU before its entry.
LEMMA EnableBeginStep == ASSUME IInv, EnableBegin PROVE IInv'
<1> USE DEF EnableBegin
<1>1. TypeOK'
  <2>1. vm_cpus \in Nat
      BY CpuAssumption, FS_CardinalityType DEF vm_cpus
  <2>2. 0 \in 0..vm_cpus
      BY <2>1
  <2>3. "ok" \in Code
      BY DEF Code
  <2> QED
      BY <2>2, <2>3, Zenon DEF IInv, TypeOK
<1>2. Launched' = {} /\ \A c \in Cpu : ~guest[c]
    BY DEF IInv, IdleInv, TypeOK, Launched
<1>3. EnableCounts'
  <2>1. Cardinality(Entered') \in Nat /\ Cardinality(PastInit') \in Nat
      BY Count DEF Entered, PastInit
  <2>2. Cardinality(PastActivate') \in Nat /\ Cardinality(Done') \in Nat /\ Cardinality(Passed') \in Nat
      BY Count DEF PastActivate, Done, Passed, PastInit
  <2> QED
      BY <2>1, <2>2 DEF EnableCounts
<1>4. EnablePlaces'
    BY <1>2 DEF IInv, TypeOK, EnablePlaces, Pre, Behind
<1> QED
    BY <1>1, <1>2, <1>3, <1>4, FS_EmptySet DEF IInv

\* When every CPU has called back, all of them are in Linux.
LEMMA AllDone ==
  ASSUME TypeOK, call_done <= Cardinality(Done), call_done = vm_cpus
  PROVE  \A c \in Cpu : pc[c] = "linux"
<1>1. Done \in SUBSET Cpu
    BY DEF Done
<1>2. Done = Cpu
    BY <1>1, Count
<1> QED
    BY <1>2 DEF Done

\* An enable ends with all CPUs as guests, or with an error and, if no vmlaunch
\* failed, none: the CPU with the error had not been initialised, so no CPU got past
\* the barrier behind that.
LEMMA EnableEndStep == ASSUME IInv, EnableEnd PROVE IInv'
<1> USE DEF EnableEnd, imageVars, cpuVars
<1>1. TypeOK'
    BY DEF IInv, TypeOK
<1>2. Launched' = Launched
    BY DEF Launched
<1>3. \A c \in Cpu : pc[c] = "linux"
    BY AllDone DEF IInv, EnableCounts
<1>4. ASSUME ~launch_failed, NEW c \in Cpu
      PROVE  IF error_code = "ok" THEN guest[c] ELSE ~guest[c] /\ context[c] = "linux"
  <2>1. CASE error_code = "ok"
      BY <1>3, <1>4, <2>1, SMTT(20) DEF IInv, EnablePlaces
  <2>2. CASE error_code # "ok"
    <3>1. PICK d \in Cpu : ret[d] # "ok" /\ context[d] = "linux"
        BY <1>3, <1>4, <2>2 DEF IInv, EnablePlaces
    <3>2. ~late
        BY <1>4, <3>1 DEF IInv, EnablePlaces, Passed
    <3>3. \A e \in Cpu : ~guest[e]
        BY <3>2 DEF IInv, EnablePlaces
    <3> QED
        BY <1>3, <1>4, <2>2, <3>3 DEF IInv, EnablePlaces
  <2> QED
      BY <2>1, <2>2, SMTT(20)
<1>5. IdleInv'
    BY <1>3, <1>4 DEF IInv, IdleInv, EnablePlaces
<1> QED
    BY <1>1, <1>2, <1>5, SMTT(20) DEF IInv

\* A refused enable takes the old mapping away, which nothing uses.
LEMMA EnableRefusedStep == ASSUME IInv, EnableRefused PROVE IInv'
<1> USE DEF EnableRefused, imageVars, cpuVars
<1>1. TypeOK'
    BY Zenon DEF IInv, TypeOK
<1>2. Launched' = Launched
    BY DEF Launched
<1> QED
    BY <1>1, <1>2 DEF IInv, IdleInv

\* A disable begins with every CPU a guest.
LEMMA DisableBeginStep == ASSUME IInv, DisableBegin PROVE IInv'
<1> USE DEF DisableBegin, imageVars
<1>1. TypeOK'
    BY Count DEF IInv, TypeOK, Code
<1>2. Launched' \subseteq Launched
    BY DEF IInv, TypeOK, Launched
<1>3. Cardinality(Asked') \in Nat /\ Cardinality(Done') \in Nat
    BY Count DEF Asked, Done
<1>4. DisableInv'
    BY <1>3 DEF IInv, IdleInv, TypeOK, DisableInv, Tried
<1> QED
    BY <1>1, <1>2, <1>4, FewerLaunched DEF IInv

\* A disable ends with no CPU as a guest.
LEMMA DisableEndStep == ASSUME IInv, DisableEnd PROVE IInv'
<1> USE DEF DisableEnd, imageVars, cpuVars
<1>1. TypeOK'
    BY DEF IInv, TypeOK
<1>2. Launched' = Launched
    BY DEF Launched
<1>3. \A c \in Cpu : pc[c] = "linux"
    BY AllDone DEF IInv, DisableInv
<1>4. IdleInv'
    BY <1>3 DEF IInv, IdleInv, DisableInv
<1> QED
    BY <1>1, <1>2, <1>4 DEF IInv

\* A step of a CPU
LEMMA CpuStepIInv == ASSUME IInv, NEW c \in Cpu, CpuStep(c) PROVE IInv'
<1>1. CASE cmd = "enable"
  <2>1. Entering
      BY <1>1 DEF IInv, Entering
  <2> SUFFICES Entering'
      BY DEF IInv, Entering
  <2>2. CASE Enter(c)
      BY <2>1, <2>2, EnterStep
  <2>3. CASE WaitEntered(c)
      BY <2>1, <2>3, WaitStep DEF WaitEntered
  <2>4. CASE primary_init_early(c)
      BY <2>1, <2>4, EarlyStep
  <2>5. CASE WaitEarly(c)
      BY <2>1, <2>5, WaitStep DEF WaitEarly
  <2>6. CASE init(c)
      BY <2>1, <2>6, InitStep
  <2>7. CASE WaitInited(c)
      BY <2>1, <2>7, WaitStep, ZenonT(40) DEF WaitInited
  <2>8. CASE primary_init_late(c)
      BY <2>1, <2>8, LateStep
  <2>9. CASE WaitLate(c)
      BY <2>1, <2>9, WaitStep DEF WaitLate
  <2>10. CASE activate_vmm(c)
      BY <2>1, <2>10, ActivateStep
  <2>11. CASE VmLaunch(c) \/ VmLaunchFails(c)
      BY <2>1, <2>11, LaunchStep, LaunchFailsStep, SMTT(20)
  <2>12. CASE StoreError(c)
      BY <2>1, <2>12, StoreStep
  <2>13. CASE LoadError(c)
      BY <2>1, <2>13, LoadStep
  <2>14. CASE CallDone(c)
      BY <2>1, <2>14, EnterDoneStep
  <2>15. CASE ReadActivated(c) \/ TryDisable(c) \/ deactivate_vmm(c)
      BY <2>1, <2>15 DEF Entering, EnablePlaces, ReadActivated, TryDisable, deactivate_vmm
  <2> QED
      BY <2>2, <2>3, <2>4, <2>5, <2>6, <2>7, <2>8, <2>9, <2>10, <2>11, <2>12, <2>13,
         <2>14, <2>15 DEF CpuStep
<1>2. CASE cmd = "disable"
  <2>1. Leaving
      BY <1>2 DEF IInv, Leaving
  <2> SUFFICES Leaving'
      BY SMTT(20) DEF IInv, Leaving
  <2>2. CASE ReadActivated(c)
      BY <2>1, <2>2, ReadStep
  <2>3. CASE TryDisable(c)
      BY <2>1, <2>3, TryStep
  <2>4. CASE deactivate_vmm(c)
      BY <2>1, <2>4, DeactivateStep
  <2>5. CASE CallDone(c)
      BY <2>1, <2>5, LeaveDoneStep
  <2>6. pc[c] \in {"leave", "try"} \cup Tried
      BY <2>1, SMTT(20) DEF Leaving, DisableInv
  <2> QED
      BY <2>2, <2>3, <2>4, <2>5, <2>6, Zenon DEF CpuStep, Tried, Enter, WaitEntered,
         primary_init_early, WaitEarly, init, WaitInited, primary_init_late, WaitLate, activate_vmm,
         VmLaunch, VmLaunchFails, StoreError, LoadError
<1>3. CASE cmd = "idle"
  <2>1. pc[c] = "linux"
      BY <1>3 DEF IInv, IdleInv
  <2> QED
      BY <2>1
         DEF CpuStep, Enter, WaitEntered, primary_init_early, WaitEarly, init, WaitInited,
             primary_init_late, WaitLate, activate_vmm, VmLaunch, VmLaunchFails, StoreError, LoadError,
             ReadActivated, TryDisable, deactivate_vmm, CallDone
<1> QED
    BY <1>1, <1>2, <1>3 DEF IInv, TypeOK

\* A step keeps the invariant.
LEMMA NextIInv == IInv /\ [Next]_vars => IInv'
<1> SUFFICES ASSUME IInv, [Next]_vars PROVE IInv'
    OBVIOUS
<1>1. CASE UNCHANGED vars
  <2> USE <1>1 DEF vars, driverVars, imageVars, cpuVars
  <2>1. TypeOK' = TypeOK
      BY DEF TypeOK
  <2>2. IdleInv' = IdleInv
      BY DEF IdleInv
  <2>3. /\ Launched' = Launched /\ Entered' = Entered /\ PastInit' = PastInit
        /\ PastActivate' = PastActivate /\ Done' = Done /\ Asked' = Asked
      BY DEF Launched, Entered, PastInit, PastActivate, Done, Asked
  <2>4. Passed' = Passed
      BY DEF Passed, PastInit
  <2>5. EnableCounts' = EnableCounts
      BY <2>3, <2>4, SMTT(20) DEF EnableCounts
  <2>6. EnablePlaces' = EnablePlaces
      BY <2>4, SMTT(20) DEF EnablePlaces
  <2>7. DisableInv' = DisableInv
      BY <2>3 DEF DisableInv
  <2> QED
      BY <2>1, <2>2, <2>3, <2>5, <2>6, <2>7 DEF IInv
<1>2. ASSUME NEW c \in Cpu, CpuStep(c) PROVE IInv'
    BY <1>2, CpuStepIInv
<1> QED
    BY <1>1, <1>2, EnableBeginStep, EnableEndStep, EnableRefusedStep, DisableBeginStep,
       DisableEndStep DEF Next

-----------------------------------------------------------------------------
(* The theorems *)

\* The invariant, for any number of CPUs
LEMMA Invariant == Spec => []IInv
BY InitIInv, NextIInv, PTL DEF Spec

\* The variables keep their types: no counter of the driver or the image exceeds the
\* number of CPUs or falls below zero, whatever becomes of a CPU whose vmlaunch fails.
THEOREM TypeCorrect == Spec => []TypeOK
<1>1. IInv => TypeOK
    BY SMTT(20) DEF IInv
<1> QED
    BY <1>1, Invariant, PTL

\* No CPU becomes a guest before all have passed their initialisation (the barrier of
\* INITED_CPUS in main.rs).
THEOREM EnterAfterAll == Spec => []NoGuestBeforeAllInited
<1>1. IInv => NoGuestBeforeAllInited
    BY DEF IInv, NoGuestBeforeAllInited, EnablePlaces, Passed, PastInit, Pre
<1> QED
    BY <1>1, Invariant, PTL

\* No CPU leaves before all have asked to (hypervisor_disable).
THEOREM LeaveAfterAll == Spec => []LeaveTogether
<1>1. IInv => LeaveTogether
    BY DEF IInv, LeaveTogether, DisableInv, Asked, Tried
<1> QED
    BY <1>1, Invariant, PTL

\* Between commands all CPUs are guests or none is, as jailhouse_enabled says.
THEOREM AllOrNone == Spec => []AllOrNothing
<1>1. IInv => AllOrNothing
    BY SMTT(20) DEF IInv, TypeOK, AllOrNothing, IdleInv
<1> QED
    BY <1>1, Invariant, PTL

\* The hypervisor is mapped as long as a CPU uses it (hypervisor_mem).
THEOREM StaysMapped == Spec => []MappedWhileUsed
<1>1. IInv => MappedWhileUsed
    BY DEF IInv, TypeOK, MappedWhileUsed, IdleInv, EnablePlaces, DisableInv
<1> QED
    BY <1>1, Invariant, PTL
=============================================================================
