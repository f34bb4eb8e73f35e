-------------------------- MODULE TaskManagerProofs --------------------------
(***************************************************************************)
(* Proofs about TaskManager, for every number of tasks: no assertion of    *)
(* the scheduler and of waitpid fails, the ready queue and the family tree *)
(* are exact, the machine is shut down last and address spaces are kept.   *)
(***************************************************************************)
EXTENDS TaskManager, SequenceTheorems, FiniteSetTheorems, WellFoundedInduction, TLAPS

State == {"none", "Ready", "Running", "Zombie", "gone"}

-----------------------------------------------------------------------------
(* The inductive invariant *)

\* The lists hold each child once, and under its parent.
ListsExact ==
  \A p \in Task :
    /\ IsInjective(children[p])
    /\ \A t \in Range(children[p]) : t \in 2..MaxPid /\ Exists(t) /\ parent[t] = p

\* Every task is in the list of an older one that has not exited.
Listed ==
  \A t \in 2..MaxPid : Exists(t) =>
    /\ t \in Range(children[parent[t]])
    /\ parent[t] \in 1..(t - 1)
    /\ state[parent[t]] \in {"Ready", "Running"}

\* What a task is in the middle of fits what it is.
OpFits ==
  \A t \in Task :
    /\ op[t] = "exit" => t \notin {idle, root}
    /\ op[t] = "check" => t = root
    /\ state[t] = "Zombie" => op[t] = "exit"
    /\ state[t] = "none" => op[t] = "run"

\* A task that is being spawned is a child of the one that spawns it, and waits.
NewbornFits ==
  \A t \in Task :
    /\ op[t] = "spawn" <=> newborn[t] # idle
    /\ newborn[t] # idle => newborn[t] \in Range(children[t]) /\ state[newborn[t]] = "Ready"

\* The idle and the root task have no address space and never end.
FirstTwo ==
  \A t \in {idle, root} : vm[t] = NoVm /\ state[t] \in {"Ready", "Running"}

\* No task and no address space has a pid that is still to be handed out.
PidsFresh ==
  /\ next_pid > Boot
  /\ \A t \in Task : (state[t] = "none" <=> t >= next_pid) /\ vm[t] < next_pid
  /\ \A a \in cleared : a < next_pid

IInv ==
  /\ TypeOK /\ NoPanic /\ QueueExact /\ ShutdownLast /\ AddressSpaceKept
  /\ ListsExact /\ Listed /\ OpFits /\ NewbornFits /\ FirstTwo /\ PidsFresh

-----------------------------------------------------------------------------
(* Sequences without repetition *)

\* A sequence is a function on 1..Len.
LEMMA SeqIsFunction ==
  ASSUME NEW S, NEW s \in Seq(S)
  PROVE  Len(s) \in Nat /\ DOMAIN s = 1..Len(s) /\ \A i \in 1..Len(s) : s[i] \in S
OBVIOUS

\* push_back
LEMMA AppendOnce ==
  ASSUME NEW S, NEW s \in Seq(S), NEW x \in S
  PROVE  /\ Append(s, x) \in Seq(S) /\ Append(s, x) # <<>>
         /\ Range(Append(s, x)) = Range(s) \cup {x}
         /\ IsInjective(s) /\ x \notin Range(s) => IsInjective(Append(s, x))
<1> DEFINE n == Len(s)  a == Append(s, x)
<1>1. /\ n \in Nat /\ DOMAIN s = 1..n /\ a \in Seq(S) /\ a # <<>> /\ DOMAIN a = 1..(n + 1)
      /\ a[n + 1] = x /\ \A i \in 1..n : a[i] = s[i]
  OBVIOUS
<1> HIDE DEF n, a
<1>2. Range(a) = Range(s) \cup {x}
  <2>1. ASSUME NEW y \in Range(a) PROVE y \in Range(s) \cup {x}
    <3>1. PICK i \in 1..(n + 1) : y = a[i]
      BY <1>1 DEF Range
    <3>2. CASE i = n + 1
      BY <1>1, <3>1, <3>2
    <3>3. CASE i \in 1..n
      BY <1>1, <3>1, <3>3 DEF Range
    <3> QED
      BY <1>1, <3>2, <3>3
  <2>2. x \in Range(a)
    <3>1. n + 1 \in DOMAIN a
      BY <1>1
    <3> QED
      BY <1>1, <3>1 DEF Range
  <2>3. ASSUME NEW y \in Range(s) PROVE y \in Range(a)
    <3>1. PICK i \in 1..n : y = s[i]
      BY <1>1 DEF Range
    <3>2. i \in DOMAIN a /\ a[i] = y
      BY <1>1, <3>1
    <3> QED
      BY <3>2 DEF Range
  <2> QED
    BY <2>1, <2>2, <2>3
<1>3. ASSUME IsInjective(s), x \notin Range(s) PROVE IsInjective(a)
  <2> SUFFICES ASSUME NEW i \in 1..(n + 1), NEW j \in 1..(n + 1), a[i] = a[j] PROVE i = j
    BY <1>1 DEF IsInjective
  <2>1. \A k \in 1..n : s[k] # x
    BY <1>1, <1>3 DEF Range
  <2>2. i = n + 1 <=> j = n + 1
    BY <1>1, <2>1
  <2>3. CASE i \in 1..n /\ j \in 1..n
    BY <1>1, <1>3, <2>3 DEF IsInjective
  <2> QED
    BY <1>1, <2>2, <2>3
<1> QED
  BY <1>1, <1>2, <1>3 DEF a

\* pop_front
LEMMA TailOnce ==
  ASSUME NEW S, NEW s \in Seq(S), s # <<>>, IsInjective(s)
  PROVE  /\ Head(s) \in Range(s) /\ Head(s) \in S
         /\ Tail(s) \in Seq(S) /\ IsInjective(Tail(s))
         /\ Range(Tail(s)) = Range(s) \ {Head(s)}
<1> DEFINE n == Len(s)  a == Tail(s)
<1>1. /\ n \in Nat /\ n > 0 /\ DOMAIN s = 1..n /\ a \in Seq(S) /\ DOMAIN a = 1..(n - 1)
      /\ Head(s) = s[1] /\ s[1] \in S /\ \A i \in 1..(n - 1) : a[i] = s[i + 1]
  OBVIOUS
<1> HIDE DEF n, a
<1>2. 1 \in DOMAIN s
  BY <1>1
<1>3. \A i \in 2..n : i - 1 \in DOMAIN a /\ a[i - 1] = s[i]
  BY <1>1
<1>4. IsInjective(a)
  <2> SUFFICES ASSUME NEW i \in 1..(n - 1), NEW j \in 1..(n - 1), a[i] = a[j] PROVE i = j
    BY <1>1 DEF IsInjective
  <2>1. i + 1 \in DOMAIN s /\ j + 1 \in DOMAIN s /\ s[i + 1] = s[j + 1]
    BY <1>1
  <2>2. i + 1 = j + 1
    BY <2>1 DEF IsInjective
  <2> QED
    BY <2>2
<1>5. ASSUME NEW y \in Range(a) PROVE y \in Range(s) \ {s[1]}
  <2>1. PICK i \in 1..(n - 1) : y = s[i + 1] /\ i + 1 \in DOMAIN s /\ i + 1 # 1
    BY <1>1 DEF Range
  <2> QED
    BY <1>2, <2>1 DEF Range, IsInjective
<1>6. ASSUME NEW y \in Range(s) \ {s[1]} PROVE y \in Range(a)
  <2>1. PICK i \in 2..n : y = s[i]
    BY <1>1 DEF Range
  <2> QED
    BY <1>3, <2>1 DEF Range
<1> QED
  BY <1>1, <1>2, <1>4, <1>5, <1>6 DEF a, Range

\* append: two lists with nothing in common
LEMMA ConcatOnce ==
  ASSUME NEW S, NEW s \in Seq(S), NEW t \in Seq(S)
  PROVE  /\ s \o t \in Seq(S)
         /\ Range(s \o t) = Range(s) \cup Range(t)
         /\ IsInjective(s) /\ IsInjective(t) /\ Range(s) \cap Range(t) = {}
              => IsInjective(s \o t)
<1> DEFINE m == Len(s)  n == Len(t)  a == s \o t
<1>1. /\ m \in Nat /\ n \in Nat /\ DOMAIN s = 1..m /\ DOMAIN t = 1..n
      /\ a \in Seq(S) /\ DOMAIN a = 1..(m + n)
      /\ \A i \in 1..m : a[i] = s[i]
      /\ \A i \in 1..(m + n) : i > m => a[i] = t[i - m]
  OBVIOUS
<1> HIDE DEF m, n, a
<1>2. \A i \in 1..m : i \in DOMAIN a /\ a[i] = s[i]
  BY <1>1
<1>3. \A i \in 1..n : i + m \in DOMAIN a /\ a[i + m] = t[i]
  BY <1>1
<1>4. \A i \in 1..(m + n) : i \in 1..m \/ i - m \in 1..n
  BY <1>1
<1>5. ASSUME NEW y \in Range(a) PROVE y \in Range(s) \cup Range(t)
  <2>1. PICK i \in 1..(m + n) : y = a[i]
    BY <1>1 DEF Range
  <2>2. CASE i \in 1..m
    BY <1>1, <2>1, <2>2, SMTT(20) DEF Range
  <2>3. CASE i - m \in 1..n
    <3>1. y = t[i - m]
      BY <1>1, <2>1, <2>3
    <3> QED
      BY <1>1, <2>3, <3>1 DEF Range
  <2> QED
    BY <1>4, <2>2, <2>3
<1>6. ASSUME NEW y \in Range(s) \cup Range(t) PROVE y \in Range(a)
  <2>1. CASE y \in Range(s)
    BY <1>1, <1>2, <2>1 DEF Range
  <2>2. CASE y \in Range(t)
    <3>1. PICK i \in 1..n : y = t[i]
      BY <1>1, <2>2 DEF Range
    <3> QED
      BY <1>3, <3>1 DEF Range
  <2> QED
    BY <2>1, <2>2
<1>7. ASSUME IsInjective(s), IsInjective(t), Range(s) \cap Range(t) = {}
      PROVE  IsInjective(a)
  <2> SUFFICES ASSUME NEW i \in 1..(m + n), NEW j \in 1..(m + n), a[i] = a[j] PROVE i = j
    BY <1>1 DEF IsInjective
  <2>1. \A k \in 1..m, l \in 1..n : s[k] # t[l]
    BY <1>1, <1>7 DEF Range
  <2>2. CASE i \in 1..m /\ j \in 1..m
    BY <1>1, <1>7, <2>2 DEF IsInjective
  <2>3. CASE i - m \in 1..n /\ j - m \in 1..n
    <3>1. t[i - m] = t[j - m]
      BY <1>1, <2>3
    <3>2. i - m = j - m
      BY <1>1, <1>7, <2>3, <3>1 DEF IsInjective
    <3> QED
      BY <1>1, <3>2
  <2>4. CASE (i \in 1..m /\ j - m \in 1..n) \/ (j \in 1..m /\ i - m \in 1..n)
    BY <1>1, <2>1, <2>4
  <2> QED
    BY <1>4, <2>2, <2>3, <2>4
<1> QED
  BY <1>1, <1>5, <1>6, <1>7 DEF a

\* remove
LEMMA RemoveOnce ==
  ASSUME NEW S, NEW s \in Seq(S), NEW k \in 1..Len(s), IsInjective(s)
  PROVE  /\ remove(s, k) \in Seq(S)
         /\ Range(remove(s, k)) = Range(s) \ {s[k]}
         /\ IsInjective(remove(s, k))
<1> DEFINE n == Len(s)  a == SubSeq(s, 1, k - 1)  b == SubSeq(s, k + 1, n)
<1>1. n \in Nat /\ DOMAIN s = 1..n /\ k \in Nat /\ 1 <= k /\ k <= n
  OBVIOUS
<1>2. /\ a \in Seq(S) /\ DOMAIN a = 1..(k - 1)
      /\ \A i \in 1..(k - 1) : a[i] = s[i]
  OBVIOUS
<1>3. /\ b \in Seq(S) /\ DOMAIN b = 1..(n - k)
      /\ \A i \in 1..(n - k) : b[i] = s[k + i]
  OBVIOUS
<1>4. remove(s, k) = a \o b
  BY DEF remove
<1> HIDE DEF n, a, b
<1>5. Range(a) = {s[i] : i \in 1..(k - 1)}
  BY <1>2 DEF Range
<1>6. Range(b) = {s[i] : i \in (k + 1)..n}
  <2>1. ASSUME NEW i \in (k + 1)..n PROVE i - k \in 1..(n - k) /\ b[i - k] = s[i]
    <3>1. i - k \in 1..(n - k) /\ k + (i - k) = i
      BY <1>1
    <3> QED
      BY <1>3, <3>1
  <2>2. \A i \in 1..(n - k) : k + i \in (k + 1)..n
    BY <1>1
  <2>3. ASSUME NEW i \in (k + 1)..n PROVE s[i] \in Range(b)
    BY <1>3, <2>1 DEF Range
  <2>4. ASSUME NEW y \in Range(b) PROVE \E i \in (k + 1)..n : y = s[i]
    <3>1. PICK i \in 1..(n - k) : y = b[i]
      BY <1>3 DEF Range
    <3> QED
      BY <1>3, <2>2, <3>1
  <2> QED
    BY <2>3, <2>4
<1>7. \A i, j \in 1..n : s[i] = s[j] => i = j
  BY <1>1 DEF IsInjective
<1>8. Range(a) \cap Range(b) = {}
  BY <1>1, <1>5, <1>6, <1>7
<1>9. Range(a) \cup Range(b) = Range(s) \ {s[k]}
  <2>1. ASSUME NEW y \in Range(s) \ {s[k]} PROVE y \in Range(a) \cup Range(b)
    <3>1. PICK i \in 1..n : y = s[i] /\ i # k
      BY <1>1 DEF Range
    <3>2. i \in 1..(k - 1) \/ i \in (k + 1)..n
      BY <1>1, <3>1
    <3> QED
      BY <1>5, <1>6, <3>1, <3>2
  <2>2. ASSUME NEW y \in Range(a) \cup Range(b) PROVE y \in Range(s) \ {s[k]}
    <3>1. PICK i \in (1..(k - 1)) \cup ((k + 1)..n) : y = s[i]
      BY <1>5, <1>6
    <3>2. i \in 1..n /\ i # k
      BY <1>1
    <3> QED
      BY <1>1, <1>7, <3>1, <3>2 DEF Range
  <2> QED
    BY <2>1, <2>2
<1>10. IsInjective(a)
  <2>1. \A i \in 1..(k - 1) : i \in 1..n
    BY <1>1
  <2> QED
    BY <1>2, <1>7, <2>1 DEF IsInjective
<1>11. IsInjective(b)
  <2> SUFFICES ASSUME NEW i \in 1..(n - k), NEW j \in 1..(n - k), b[i] = b[j] PROVE i = j
    BY <1>3 DEF IsInjective
  <2>1. k + i \in 1..n /\ k + j \in 1..n /\ s[k + i] = s[k + j]
    BY <1>1, <1>3
  <2>2. k + i = k + j
    BY <1>7, <2>1
  <2> QED
    BY <1>1, <2>2
<1> QED
  BY <1>2, <1>3, <1>4, <1>8, <1>9, <1>10, <1>11, ConcatOnce

-----------------------------------------------------------------------------
(* Reference counts *)

\* There are finitely many tasks.
LEMMA TaskFinite == IsFiniteSet(Task) /\ \A S \in SUBSET Task : IsFiniteSet(S)
<1>1. 0 \in Int /\ MaxPid \in Int
  BY PidAssumption
<1>2. IsFiniteSet(Task)
  BY <1>1, FS_Interval DEF Task
<1> QED
  BY <1>2, FS_Subset

\* What a place is.
LEMMA PlaceOf ==
  ASSUME NEW kids, NEW x
  PROVE  x \in Places(kids) <=> \E p \in Task : \E i \in 1..Len(kids[p]) : x = <<p, i>>
BY DEF Places

\* The lists of children have finitely many places.
LEMMA PlacesFinite ==
  ASSUME NEW kids \in [Task -> Seq(Task)]
  PROVE  IsFiniteSet(Places(kids))
<1> DEFINE Of(p) == {<<p, i>> : i \in 1..Len(kids[p])}
           All == {Of(p) : p \in Task}
<1>1. ASSUME NEW p \in Task PROVE IsFiniteSet(Of(p))
  <2> DEFINE n == Len(kids[p])  f == [i \in 1..n |-> <<p, i>>]
  <2>1. n \in Nat
    OBVIOUS
  <2>2. f \in Surjection(1..n, Of(p))
    BY DEF Surjection
  <2>3. IsFiniteSet(1..n)
    BY <2>1, FS_Interval
  <2> HIDE DEF Of, n, f
  <2> QED
    BY <2>2, <2>3, FS_Surjection
<1>2. IsFiniteSet(All)
  <2> DEFINE f == [p \in Task |-> Of(p)]
  <2> HIDE DEF Of
  <2>1. f \in Surjection(Task, All)
    BY DEF Surjection
  <2> HIDE DEF All, f
  <2> QED
    BY <2>1, TaskFinite, FS_Surjection
<1>3. Places(kids) = UNION All
  BY DEF Places
<1>4. \A T \in All : IsFiniteSet(T)
  BY <1>1
<1> HIDE DEF All
<1> QED
  BY <1>2, <1>3, <1>4, FS_UNION

\* The three sets that Arc::strong_count counts are finite.
LEMMA CountTypes ==
  ASSUME NEW t, NEW q \in Seq(Task), NEW kids \in [Task -> Seq(Task)]
  PROVE  /\ IsFiniteSet({i \in 1..Len(q) : q[i] = t})
         /\ IsFiniteSet({x \in Places(kids) : kids[x[1]][x[2]] = t})
         /\ IsFiniteSet({p \in Task : t # idle /\ newborn[p] = t})
<1>1. IsFiniteSet(1..Len(q))
  BY FS_Interval
<1>2. IsFiniteSet({i \in 1..Len(q) : q[i] = t})
  BY <1>1, FS_Subset
<1>3. IsFiniteSet({x \in Places(kids) : kids[x[1]][x[2]] = t})
  BY PlacesFinite, FS_Subset
<1>4. IsFiniteSet({p \in Task : t # idle /\ newborn[p] = t})
  BY TaskFinite
<1> QED
  BY <1>2, <1>3, <1>4

\* A task that is in a list of children, or is one of the first two, is held by one
\* reference more than the one at hand.
LEMMA CountHeld ==
  ASSUME NEW t, NEW q \in Seq(Task), NEW kids \in [Task -> Seq(Task)],
         t \in {idle, root} \/ \E p \in Task : t \in Range(kids[p])
  PROVE  strong_count(t, q, kids, 1) > 1
<1> DEFINE A == {i \in 1..Len(q) : q[i] = t}
           B == {x \in Places(kids) : kids[x[1]][x[2]] = t}
           C == {p \in Task : t # idle /\ newborn[p] = t}
<1>1. IsFiniteSet(A) /\ IsFiniteSet(B) /\ IsFiniteSet(C)
  BY CountTypes
<1>2. Cardinality(A) \in Nat /\ Cardinality(B) \in Nat /\ Cardinality(C) \in Nat
  BY <1>1, FS_CardinalityType
<1>3. ASSUME t \notin {idle, root} PROVE Cardinality(B) # 0
  <2>1. PICK p \in Task : t \in Range(kids[p])
    BY <1>3
  <2>2. PICK i \in 1..Len(kids[p]) : kids[p][i] = t
    BY <2>1, SeqIsFunction DEF Range
  <2>3. <<p, i>> \in B
    BY <2>2, PlaceOf
  <2> QED
    BY <1>1, <2>3, FS_EmptySet
<1>4. strong_count(t, q, kids, 1) =
        Cardinality(A) + Cardinality(B) + Cardinality(C)
          + (IF t \in {idle, root} THEN 1 ELSE 0) + 1
  BY DEF strong_count
<1> HIDE DEF A, B, C
<1> QED
  BY <1>2, <1>3, <1>4

\* A task that is nowhere else is held by the reference at hand only.
LEMMA CountLast ==
  ASSUME NEW t, NEW q \in Seq(Task), NEW kids \in [Task -> Seq(Task)],
         newborn \in [Task -> Task], t \notin {idle, root},
         t \notin Range(q), t \notin Range(newborn), \A p \in Task : t \notin Range(kids[p])
  PROVE  strong_count(t, q, kids, 1) = 1
<1>1. {i \in 1..Len(q) : q[i] = t} = {}
  BY SeqIsFunction DEF Range
<1>2. {x \in Places(kids) : kids[x[1]][x[2]] = t} = {}
  <2> SUFFICES ASSUME NEW p \in Task, NEW i \in 1..Len(kids[p]), kids[p][i] = t PROVE FALSE
    BY PlaceOf
  <2> QED
    BY SeqIsFunction DEF Range
<1>3. {p \in Task : t # idle /\ newborn[p] = t} = {}
  BY DEF Range
<1>4. strong_count(t, q, kids, 1) = 0 + 0 + 0 + 0 + 1
  BY <1>1, <1>2, <1>3, FS_EmptySet, Zenon DEF strong_count
<1> QED
  BY <1>4

-----------------------------------------------------------------------------
(* The switch *)

\* A queue that holds exactly the tasks that wait, the root task among them, leaves the
\* switch as exact as it was and no assertion of resched and switch_to fails.
LEMMA ReschedStep ==
  ASSUME TypeOK, UNCHANGED newborn,
         NEW q \in Seq(Task), NEW st \in [Task -> State], NEW kids \in [Task -> Seq(Task)],
         resched(q, st, kids), IsInjective(q), q # <<>>,
         Range(q) = {t \in Task \ {idle} : st[t] = "Ready" /\ t \notin Range(newborn)},
         \A t \in Task : st[t] # "Running",
         \A t \in {current} \cup Range(q) :
           t \in {idle, root} \/ \E p \in Task : t \in Range(kids[p])
  PROVE  /\ panicked' = {} /\ QueueExact'
         /\ ready' \in Seq(Task) /\ current' \in Task /\ state' \in [Task -> State]
         /\ current' \in Range(q) /\ state' = [st EXCEPT ![current'] = "Running"]
<1> DEFINE next == Head(q)  rest == Tail(q)
<1>1. /\ next \in Range(q) /\ next \in Task /\ rest \in Seq(Task) /\ IsInjective(rest)
      /\ Range(rest) = Range(q) \ {next}
  BY TailOnce
<1>2. /\ current' = next /\ ready' = rest /\ state' = [st EXCEPT ![next] = "Running"]
      /\ panicked' = Failed("resched", st[curr_task] # "Running")
             \cup Failed("switch_to", \A t \in {curr_task, next} :
                           next # curr_task => strong_count(t, rest, kids, 1) > 1)
             \cup Failed("root task exit", next # idle)
             \cup Failed("task exited", st[next] # "Zombie")
  BY DEF resched
<1>3. next # idle /\ st[next] = "Ready"
  BY <1>1
<1> HIDE DEF next, rest
<1>4. strong_count(curr_task, rest, kids, 1) > 1 /\ strong_count(next, rest, kids, 1) > 1
  BY <1>1, CountHeld DEF curr_task
<1>5. st[curr_task] # "Running"
  BY DEF TypeOK, curr_task
<1>6. panicked' = {}
  BY <1>2, <1>3, <1>4, <1>5 DEF Failed
<1>7. state' \in [Task -> State]
  BY <1>1, <1>2 DEF State
<1>8. {t \in Task : state'[t] = "Running"} = {current'}
  BY <1>1, <1>2
<1>9. Range(ready') = {t \in Task \ {idle} : state'[t] = "Ready" /\ t \notin Range(newborn)}
  BY <1>1, <1>2, <1>3
<1> QED
  BY <1>1, <1>2, <1>3, <1>6, <1>7, <1>8, <1>9, Zenon DEF QueueExact

-----------------------------------------------------------------------------
(* What the invariant says of the tasks *)

\* The current task runs; the root task, unless it is the current one, waits in the queue.
LEMMA CurrentAndRoot ==
  ASSUME IInv
  PROVE  /\ current \in Task /\ idle \in Task /\ root \in Task
         /\ state[current] = "Running"
         /\ \A t \in Task : t # current => state[t] # "Running"
         /\ root \notin Range(newborn)
         /\ current \in Range(newborn) => current = idle
         /\ current # root => root \in Range(ready) /\ ready # <<>>
<1> USE DEF IInv
<1>1. current \in Task /\ idle \in Task /\ root \in Task /\ root # idle
  BY PidAssumption DEF TypeOK, Task, idle, root
<1>2. {t \in Task : state[t] = "Running"} = {current}
  BY DEF QueueExact
<1>3. state[current] = "Running" /\ \A t \in Task : t # current => state[t] # "Running"
  BY <1>1, <1>2
<1>4. \A t \in Range(newborn) : t # idle => t \in 2..MaxPid /\ state[t] = "Ready"
  BY SMTT(20) DEF Range, TypeOK, NewbornFits, ListsExact
<1>5. root \notin Range(newborn)
  BY <1>1, <1>4 DEF root
<1>6. ASSUME current # root PROVE root \in Range(ready) /\ ready # <<>>
  <2>1. state[root] = "Ready"
    BY <1>1, <1>3, <1>6 DEF FirstTwo
  <2>2. root \in Range(ready)
    BY <1>1, <1>5, <2>1 DEF QueueExact
  <2> QED
    BY <2>2 DEF Range
<1> QED
  BY <1>1, <1>3, <1>4, <1>5, <1>6

\* A task that exists is one of the first two or a child.
LEMMA EveryTaskHeld ==
  ASSUME IInv, NEW t \in Task, Exists(t)
  PROVE  t \in {idle, root} \/ \E p \in Task : t \in Range(children[p])
<1>1. t \in {idle, root} \/ t \in 2..MaxPid
  BY PidAssumption DEF Task, idle, root
<1>2. ASSUME t \in 2..MaxPid PROVE parent[t] \in Task /\ t \in Range(children[parent[t]])
  BY <1>2 DEF IInv, Listed, TypeOK
<1> QED
  BY <1>1, <1>2

\* What a step keeps when it only lets tasks wait or run, and moves the current task to
\* an operation that is neither the start nor the end of an exit or a spawn.
LEMMA WaitOrRun ==
  ASSUME IInv, UNCHANGED <<children, parent, vm, cleared, next_pid, newborn, off>>,
         state' \in [Task -> State],
         \A t \in Task : \/ state'[t] = state[t]
                         \/ state[t] \in {"Ready", "Running"} /\ state'[t] \in {"Ready", "Running"},
         \A t \in Range(newborn) : t # idle => state'[t] = "Ready",
         \A t \in Task : \/ op'[t] = op[t]
                         \/ t = root /\ {op[t], op'[t]} \subseteq {"run", "check"}
  PROVE  /\ ShutdownLast' /\ AddressSpaceKept' /\ ListsExact' /\ Listed'
         /\ OpFits' /\ NewbornFits' /\ FirstTwo' /\ PidsFresh'
<1> USE DEF IInv
<1>1. \A t \in Task : Exists(t)' <=> Exists(t)
  BY DEF Exists
<1>2. \A t \in Task : state[t] \in {"Ready", "Running"} => state'[t] \in {"Ready", "Running"}
  OBVIOUS
<1>3. \A t \in 2..MaxPid : t \in Task /\ t # root
  BY DEF Task, root
<1>4. \A t \in Task : op'[t] = "exit" <=> op[t] = "exit"
  OBVIOUS
<1>5. ShutdownLast'
  BY <1>1, <1>3 DEF ShutdownLast
<1>6. AddressSpaceKept'
  BY <1>1, <1>4 DEF AddressSpaceKept
<1>7. ListsExact'
  BY <1>1, <1>3 DEF ListsExact
<1>8. Listed'
  <2> SUFFICES ASSUME NEW t \in 2..MaxPid, Exists(t)'
               PROVE  /\ t \in Range(children[parent[t]]) /\ parent[t] \in 1..(t - 1)
                      /\ state'[parent[t]] \in {"Ready", "Running"}
    BY DEF Listed
  <2>1. Exists(t) /\ parent[t] \in Task
    BY <1>1, <1>3 DEF TypeOK
  <2> QED
    BY <1>2, <2>1 DEF Listed
<1>9. OpFits'
  <2>1. \A t \in Task : (state'[t] = "Zombie" => state[t] = "Zombie")
                        /\ (state'[t] = "none" => state[t] = "none")
    OBVIOUS
  <2>2. state[root] # "none"
    BY DEF FirstTwo
  <2> QED
    BY <1>4, <2>1, <2>2 DEF OpFits
<1>10. NewbornFits'
  <2>1. \A t \in Task : op'[t] = "spawn" <=> op[t] = "spawn"
    OBVIOUS
  <2>2. \A t \in Task : newborn[t] # idle => state'[newborn[t]] = "Ready"
    BY DEF Range, TypeOK
  <2> QED
    BY <2>1, <2>2 DEF NewbornFits
<1>11. FirstTwo'
  BY <1>2, CurrentAndRoot DEF FirstTwo
<1>12. PidsFresh'
  BY DEF PidsFresh
<1> QED
  BY <1>5, <1>6, <1>7, <1>8, <1>9, <1>10, <1>11, <1>12

-----------------------------------------------------------------------------
(* The steps *)

\* init() spawns the root task and its children.
LEMMA InitIInv == Init => IInv
<1> SUFFICES ASSUME Init PROVE IInv
  OBVIOUS
<1>1. /\ MaxPid \in Nat /\ Boot \in Nat /\ 1 <= Boot /\ Boot <= MaxPid
      /\ \A t : t \in Task <=> t \in Nat /\ t <= MaxPid
      /\ idle = 0 /\ root = 1 /\ NoVm = -1 /\ idle \in Task /\ root \in Task
  BY PidAssumption DEF Task, idle, root, NoVm
<1>2. /\ ready \in Seq(Task) /\ DOMAIN ready = 1..Boot /\ \A i \in 1..Boot : ready[i] = i
  <2>1. ready = [i \in 1..Boot |-> i]
    BY DEF Init
  <2>2. ready \in [1..Boot -> Task]
    BY <1>1, <2>1
  <2> QED
    BY <1>1, <2>1, <2>2, SeqDef
<1>3. /\ children[root] \in Seq(Task) /\ DOMAIN children[root] = 1..(Boot - 1)
      /\ \A i \in 1..(Boot - 1) : children[root][i] = i + 1
  <2>1. children[root] = [i \in 1..(Boot - 1) |-> i + 1]
    <3>1. children = [t \in Task |-> IF t = root THEN [i \in 1..(Boot - 1) |-> i + 1] ELSE <<>>]
      BY DEF Init
    <3> QED
      BY <1>1, <3>1, Zenon
  <2>2. children[root] \in [1..(Boot - 1) -> Task] /\ Boot - 1 \in Nat
    BY <1>1, <2>1
  <2> QED
    BY <2>1, <2>2, SeqDef
<1>4. \A p \in Task : p # root => children[p] = <<>>
  BY DEF Init
<1>5. TypeOK
  <2>1. state \in [Task -> {"none", "Ready", "Running", "Zombie", "gone"}]
    BY DEF Init
  <2>2. parent \in [Task -> Task]
    <3>1. parent = [t \in Task |-> IF t \in 2..Boot THEN root ELSE idle]
      BY DEF Init
    <3> QED
      BY <1>1, <3>1
  <2>3. vm \in [Task -> Task \cup {NoVm}]
    BY DEF Init
  <2>4. op \in [Task -> {"run", "spawn", "exit", "check"}]
    BY DEF Init
  <2>5. newborn \in [Task -> Task] /\ current \in Task
    BY <1>1 DEF Init
  <2>6. next_pid \in 1..(MaxPid + 1)
    BY <1>1 DEF Init
  <2>9. cleared \subseteq Task /\ off \in BOOLEAN
    BY Zenon DEF Init
  <2>7. DOMAIN children = Task /\ children = [t \in DOMAIN children |-> children[t]]
    BY DEF Init
  <2>8. children \in [Task -> Seq(Task)]
    <3>1. \A p \in Task : children[p] \in Seq(Task)
      BY <1>3, <1>4, EmptySeq
    <3> QED
      BY <2>7, <3>1
  <2> QED
    BY <1>2, <2>1, <2>2, <2>3, <2>4, <2>5, <2>6, <2>8, <2>9, Zenon DEF TypeOK
<1>6. /\ Range(children[root]) = 2..Boot /\ IsInjective(children[root])
      /\ \A p \in Task : p # root => Range(children[p]) = {} /\ IsInjective(children[p])
  <2>1. ASSUME NEW t \in 2..Boot PROVE t \in Range(children[root])
    <3>1. t - 1 \in 1..(Boot - 1) /\ (t - 1) + 1 = t
      BY <1>1
    <3> QED
      BY <1>3, <3>1 DEF Range
  <2>2. ASSUME NEW t \in Range(children[root]) PROVE t \in 2..Boot
    <3>1. PICK i \in 1..(Boot - 1) : t = i + 1
      BY <1>3 DEF Range
    <3> QED
      BY <1>1, <3>1
  <2>3. IsInjective(children[root])
    <3>1. \A i, j \in 1..(Boot - 1) : i + 1 = j + 1 => i = j
      BY <1>1
    <3> QED
      BY <1>3, <3>1 DEF IsInjective
  <2>4. Range(<<>>) = {} /\ IsInjective(<<>>)
    BY DEF Range, IsInjective
  <2> QED
    BY <1>4, <2>1, <2>2, <2>3, <2>4
<1>7. \A t \in Task : state[t] = IF t = 0 THEN "Running" ELSE IF t <= Boot THEN "Ready" ELSE "none"
  BY <1>1 DEF Init
<1>8. /\ \A t \in Task : op[t] = "run" /\ newborn[t] = idle
      /\ DOMAIN newborn = Task /\ current = idle /\ next_pid = Boot + 1
      /\ cleared = {} /\ off = FALSE /\ panicked = {}
  BY DEF Init
<1>9. \A t \in Task : vm[t] = NoVm \/ (vm[t] = t /\ t \in 2..Boot)
  BY DEF Init
<1>10. QueueExact
  <2>1. IsInjective(ready) /\ Range(ready) = 1..Boot
    BY <1>2 DEF IsInjective, Range
  <2>2. Range(newborn) = {idle}
    BY <1>1, <1>8 DEF Range
  <2>3. 1..Boot = {t \in Task \ {idle} : state[t] = "Ready" /\ t \notin Range(newborn)}
    BY <1>1, <1>7, <2>2
  <2>4. {t \in Task : state[t] = "Running"} = {current}
    BY <1>1, <1>7, <1>8
  <2> QED
    BY <2>1, <2>3, <2>4 DEF QueueExact
<1>11. \A t \in 2..Boot : t \in 2..MaxPid /\ t \in Task /\ parent[t] = root /\ Exists(t)
  <2>1. \A t \in 2..Boot : t \in 2..MaxPid /\ t \in Task
    BY <1>1
  <2>2. \A t \in 2..Boot : parent[t] = root
    BY <2>1 DEF Init
  <2>3. \A t \in 2..Boot : state[t] = "Ready"
    BY <1>7, <2>1
  <2> QED
    BY <2>1, <2>2, <2>3 DEF Exists
<1>12. ListsExact
  BY <1>6, <1>11 DEF ListsExact
<1>13. Listed
  <2> SUFFICES ASSUME NEW t \in 2..MaxPid, Exists(t)
               PROVE  /\ t \in Range(children[parent[t]]) /\ parent[t] \in 1..(t - 1)
                      /\ state[parent[t]] \in {"Ready", "Running"}
    BY DEF Listed
  <2>1. t \in 2..Boot
    BY <1>1, <1>7 DEF Exists
  <2>2. state[root] = "Ready" /\ root \in 1..(t - 1)
    BY <1>1, <1>7
  <2> QED
    BY <1>6, <1>11, <2>1, <2>2
<1>14. OpFits /\ NewbornFits
  BY <1>1, <1>7, <1>8 DEF OpFits, NewbornFits
<1>15. FirstTwo
  <2>1. \A t \in {idle, root} : t \in Task /\ t \notin 2..Boot
    BY <1>1
  <2>2. \A t \in {idle, root} : state[t] \in {"Ready", "Running"}
    BY <1>1, <1>7
  <2> QED
    BY <1>9, <2>1, <2>2 DEF FirstTwo
<1>16. PidsFresh
  <2>1. \A t \in Task : state[t] = "none" <=> t >= next_pid
    BY <1>1, <1>7, <1>8
  <2>2. \A t \in Task : vm[t] < next_pid
    BY <1>1, <1>8, <1>9
  <2> QED
    BY <1>1, <1>8, <2>1, <2>2 DEF PidsFresh
<1>17. NoPanic /\ ShutdownLast /\ AddressSpaceKept
  BY <1>8 DEF NoPanic, ShutdownLast, AddressSpaceKept
<1> QED
  BY <1>5, <1>10, <1>12, <1>13, <1>14, <1>15, <1>16, <1>17 DEF IInv

\* A task gives up the CPU and goes to the end of the queue, the idle task excepted.
LEMMA YieldStep ==
  ASSUME IInv,
         resched(IF current = idle THEN ready ELSE Append(ready, current),
                 [state EXCEPT ![current] = "Ready"], children),
         UNCHANGED <<children, parent, vm, cleared, next_pid, newborn, off>>,
         op' \in [Task -> {"run", "spawn", "exit", "check"}],
         \A t \in Task : \/ op'[t] = op[t]
                         \/ t = root /\ {op[t], op'[t]} \subseteq {"run", "check"}
  PROVE  IInv'
<1> DEFINE q == IF current = idle THEN ready ELSE Append(ready, current)
           st == [state EXCEPT ![current] = "Ready"]
<1>1. /\ current \in Task /\ state[current] = "Running" /\ state \in [Task -> State]
      /\ ready \in Seq(Task) /\ newborn \in [Task -> Task] /\ children \in [Task -> Seq(Task)]
      /\ \A t \in Task : t # current => state[t] # "Running"
  BY CurrentAndRoot DEF IInv, TypeOK, State
<1>2. /\ IsInjective(ready)
      /\ Range(ready) = {t \in Task \ {idle} : state[t] = "Ready" /\ t \notin Range(newborn)}
  BY DEF IInv, QueueExact
<1>3. /\ st \in [Task -> State] /\ st[current] = "Ready"
      /\ \A t \in Task : t # current => st[t] = state[t]
  BY <1>1 DEF State
<1>4. /\ q \in Seq(Task) /\ q # <<>> /\ IsInjective(q)
      /\ Range(q) = Range(ready) \cup ({current} \ {idle})
  <2>1. CASE current = idle
    BY <1>1, <1>2, <2>1, CurrentAndRoot DEF idle, root
  <2>2. CASE current # idle
    <3>1. current \notin Range(ready)
      BY <1>1, <1>2
    <3>2. q = Append(ready, current)
      BY <2>2
    <3>3. /\ Append(ready, current) \in Seq(Task) /\ Append(ready, current) # <<>>
          /\ Range(Append(ready, current)) = Range(ready) \cup {current}
          /\ IsInjective(Append(ready, current))
      <4>1. IsInjective(ready) /\ ready \in Seq(Task) /\ current \in Task
        BY <1>1, <1>2
      <4> QED
        BY ONLY <3>1, <4>1, AppendOnce
    <3> QED
      BY <2>2, <3>2, <3>3, Zenon
  <2> QED
    BY <2>1, <2>2
<1>5. resched(q, st, children)
  OBVIOUS
<1> HIDE DEF q, st
<1>6. Range(q) = {t \in Task \ {idle} : st[t] = "Ready" /\ t \notin Range(newborn)}
  <2>1. ASSUME NEW t \in Task \ {idle}
        PROVE  t \in Range(q) <=> st[t] = "Ready" /\ t \notin Range(newborn)
    <3>1. CASE t = current
      BY <1>3, <1>4, <3>1, CurrentAndRoot
    <3>2. CASE t # current
      BY <1>2, <1>3, <1>4, <3>2
    <3> QED
      BY <3>1, <3>2
  <2>2. \A t \in Range(q) : t \in Task \ {idle}
    BY <1>1, <1>2, <1>4
  <2> QED
    BY <2>1, <2>2
<1>7. \A t \in {current} \cup Range(q) :
        t \in {idle, root} \/ \E p \in Task : t \in Range(children[p])
  <2>1. \A t \in {current} \cup Range(q) : t \in Task /\ Exists(t)
    BY <1>1, <1>2, <1>4 DEF Exists
  <2> QED
    BY <2>1, EveryTaskHeld
<1>8. \A t \in Task : st[t] # "Running"
  BY <1>1, <1>3
<1>9. /\ panicked' = {} /\ QueueExact'
      /\ ready' \in Seq(Task) /\ current' \in Task /\ state' \in [Task -> State]
      /\ current' \in Range(q) /\ state' = [st EXCEPT ![current'] = "Running"]
  <2>1. TypeOK
    BY DEF IInv
  <2> QED
    BY <1>1, <1>3, <1>4, <1>5, <1>6, <1>7, <1>8, <2>1, ReschedStep
<1>10. \A t \in Task : t # current' => state'[t] = st[t]
  BY <1>3, <1>9
<1>11. st[current'] = "Ready" /\ state'[current'] = "Running" /\ current' \notin Range(newborn)
  BY <1>3, <1>6, <1>9
<1>12. \A t \in Task : \/ state'[t] = state[t]
                       \/ state[t] \in {"Ready", "Running"} /\ state'[t] \in {"Ready", "Running"}
  BY <1>1, <1>3, <1>10, <1>11, Zenon
<1>13. \A t \in Range(newborn) : t # idle => state'[t] = "Ready"
  <2> SUFFICES ASSUME NEW t \in Range(newborn), t # idle PROVE state'[t] = "Ready"
    OBVIOUS
  <2>1. t \in Task /\ state[t] = "Ready"
    BY <1>1 DEF IInv, NewbornFits, Range
  <2>2. st[t] = "Ready"
    BY <1>3, <2>1
  <2> QED
    BY <1>10, <1>11, <2>1, <2>2
<1>14. TypeOK'
  BY <1>9 DEF IInv, TypeOK, State
<1>15. /\ ShutdownLast' /\ AddressSpaceKept' /\ ListsExact' /\ Listed'
       /\ OpFits' /\ NewbornFits' /\ FirstTwo' /\ PidsFresh'
  BY <1>9, <1>12, <1>13, WaitOrRun
<1>16. NoPanic'
  BY <1>9 DEF NoPanic
<1> QED
  BY <1>9, <1>14, <1>15, <1>16 DEF IInv

\* spawn_task: the child leaves the hands of its parent for the queue.
LEMMA SpawnStep ==
  ASSUME IInv, spawn
  PROVE  IInv'
<1> DEFINE c == current  n == newborn[c]
<1>1. /\ op[c] = "spawn" /\ panicked' = Failed("spawn", state[n] = "Ready")
      /\ ready' = Append(ready, n)
      /\ newborn' = [newborn EXCEPT ![c] = idle] /\ op' = [op EXCEPT ![c] = "run"]
      /\ UNCHANGED <<state, children, parent, vm, cleared, current, next_pid, off>>
  BY DEF spawn, curr_task, treeVars, vmVars
<1>2. /\ c \in Task /\ newborn \in [Task -> Task] /\ ready \in Seq(Task)
      /\ op \in [Task -> {"run", "spawn", "exit", "check"}]
  BY DEF IInv, TypeOK
<1>3. n \in Task /\ n # idle /\ n \in Range(children[c]) /\ state[n] = "Ready"
  BY <1>1, <1>2 DEF IInv, NewbornFits
<1>4. \A t \in Task : t # c => newborn[t] # n
  BY <1>2, <1>3, SMTT(20) DEF IInv, NewbornFits, ListsExact
<1> HIDE DEF c, n
<1>5. /\ newborn' \in [Task -> Task] /\ newborn'[c] = idle
      /\ \A t \in Task : t # c => newborn'[t] = newborn[t]
  BY <1>1, <1>2, CurrentAndRoot
<1>6. /\ op' \in [Task -> {"run", "spawn", "exit", "check"}] /\ op'[c] = "run"
      /\ \A t \in Task : t # c => op'[t] = op[t]
  BY <1>1, <1>2
<1>7. \A t \in Task : t # idle => (t \in Range(newborn') <=> t \in Range(newborn) /\ t # n)
  <2>1. \A t : t \in Range(newborn) <=> \E p \in Task : t = newborn[p]
    BY <1>2 DEF Range
  <2>2. \A t : t \in Range(newborn') <=> \E p \in Task : t = newborn'[p]
    BY <1>5 DEF Range
  <2>3. n = newborn[c]
    BY DEF n
  <2> QED
    BY <1>2, <1>4, <1>5, <2>1, <2>2, <2>3
<1>8. n \in Range(newborn)
  BY <1>2 DEF n, Range
<1>9. /\ IsInjective(ready)
      /\ Range(ready) = {t \in Task \ {idle} : state[t] = "Ready" /\ t \notin Range(newborn)}
      /\ {t \in Task : state[t] = "Running"} = {current}
  BY DEF IInv, QueueExact
<1>10. n \notin Range(ready)
  BY <1>8, <1>9
<1>11. ready' \in Seq(Task) /\ IsInjective(ready') /\ Range(ready') = Range(ready) \cup {n}
  <2>1. IsInjective(ready) /\ ready \in Seq(Task) /\ n \in Task
    BY <1>2, <1>3, <1>9
  <2> QED
    BY ONLY <1>1, <1>10, <2>1, AppendOnce
<1>12. QueueExact'
  <2>1. Range(ready') = {t \in Task \ {idle} : state[t] = "Ready" /\ t \notin Range(newborn')}
    BY <1>3, <1>7, <1>9, <1>11
  <2> QED
    BY <1>1, <1>9, <1>11, <2>1, Zenon DEF QueueExact
<1>13. NoPanic' /\ TypeOK'
  <2>1. panicked' = {}
    BY <1>1, <1>3 DEF Failed
  <2> QED
    BY <1>1, <1>5, <1>6, <1>11, <2>1 DEF IInv, NoPanic, TypeOK
<1>14. ListsExact' /\ Listed'
  BY <1>1 DEF IInv, ListsExact, Listed, Exists
<1>15. ShutdownLast' /\ FirstTwo' /\ PidsFresh'
  BY <1>1, SMTT(20) DEF IInv, ShutdownLast, FirstTwo, PidsFresh, Exists
<1>16. AddressSpaceKept'
  <2>1. \A t \in Task : op'[t] # "exit" => op[t] # "exit"
    BY <1>1, <1>6
  <2> QED
    BY <1>1, <2>1 DEF IInv, AddressSpaceKept, Exists
<1>17. OpFits'
  <2>1. c \notin {idle, root} \/ op'[c] = "run"
    BY <1>6
  <2>2. \A t \in Task : state[t] = "Zombie" => t # c
    BY <1>1 DEF IInv, OpFits
  <2> QED
    BY <1>1, <1>6, <2>2 DEF IInv, OpFits
<1>18. NewbornFits'
  BY <1>1, <1>5, <1>6 DEF IInv, NewbornFits
<1> QED
  BY <1>12, <1>13, <1>14, <1>15, <1>16, <1>17, <1>18 DEF IInv

\* new_fork and new_clone: the child is in its parent's list and hands before it waits.
LEMMA NewTaskStep ==
  ASSUME IInv, NEW space \in {next_pid, vm[current]}, NewTask(space)
  PROVE  IInv'
<1> DEFINE c == current  n == next_pid
<1>1. /\ op[c] = "run" /\ vm[c] # NoVm /\ n <= MaxPid /\ n' = n + 1
      /\ state' = [state EXCEPT ![n] = "Ready"]
      /\ children' = [children EXCEPT ![c] = Append(children[c], n)]
      /\ parent' = [parent EXCEPT ![n] = c] /\ vm' = [vm EXCEPT ![n] = space]
      /\ newborn' = [newborn EXCEPT ![c] = n] /\ op' = [op EXCEPT ![c] = "spawn"]
      /\ UNCHANGED <<cleared, ready, current, off, panicked>> /\ panicked = {} /\ ~off
  BY DEF NewTask, curr_task, is_user, Alive
<1>2. TypeOK
  BY DEF IInv
<1>3. /\ c \in Task /\ state[c] = "Running" /\ idle \in Task /\ root \in Task
      /\ \A t \in Task : t # c => state[t] # "Running"
  BY CurrentAndRoot
<1>4. n \in Task /\ n \in 2..MaxPid /\ state[n] = "none" /\ n \notin {idle, root}
  <2>1. n \in 1..(MaxPid + 1) /\ n > Boot
    BY <1>2 DEF IInv, PidsFresh, TypeOK
  <2>2. n \in Task /\ n \in 2..MaxPid /\ n >= n
    BY <1>1, <2>1, PidAssumption DEF Task
  <2> QED
    BY <2>2 DEF IInv, PidsFresh, idle, root
<1>5. c \notin {idle, root} /\ c \in 1..(n - 1)
  <2>1. c \notin {idle, root}
    BY <1>1 DEF IInv, FirstTwo
  <2>2. ~(c >= n)
    BY <1>3 DEF IInv, PidsFresh
  <2> QED
    BY <1>3, <1>4, <2>1, <2>2, PidAssumption DEF Task, idle, root
<1>6. \A p \in Task : n \notin Range(children[p])
  BY <1>4 DEF IInv, ListsExact, Exists
<1>7. newborn[c] = idle
  BY <1>1, <1>3 DEF IInv, NewbornFits
<1> HIDE DEF c, n
<1>8. /\ state' \in [Task -> State] /\ state'[n] = "Ready"
      /\ \A t \in Task : t # n => state'[t] = state[t]
  BY <1>1, <1>2, <1>4 DEF TypeOK, State
<1>9. /\ children'[c] = Append(children[c], n)
      /\ \A p \in Task : p # c => children'[p] = children[p]
  BY <1>1, <1>2, <1>3 DEF TypeOK
<1>10. /\ children'[c] \in Seq(Task) /\ IsInjective(children'[c])
       /\ Range(children'[c]) = Range(children[c]) \cup {n}
  <2>1. IsInjective(children[c]) /\ children[c] \in Seq(Task) /\ n \notin Range(children[c])
    BY <1>2, <1>3, <1>6 DEF IInv, ListsExact, TypeOK
  <2> QED
    BY ONLY <1>4, <1>9, <2>1, AppendOnce
<1>11. /\ parent' \in [Task -> Task] /\ parent'[n] = c
       /\ \A t \in Task : t # n => parent'[t] = parent[t]
  BY <1>1, <1>2, <1>3, <1>4 DEF TypeOK
<1>12. /\ newborn' \in [Task -> Task] /\ newborn'[c] = n
       /\ \A t \in Task : t # c => newborn'[t] = newborn[t]
  BY <1>1, <1>2, <1>3, <1>4 DEF TypeOK
<1>13. /\ op' \in [Task -> {"run", "spawn", "exit", "check"}] /\ op'[c] = "spawn"
       /\ \A t \in Task : t # c => op'[t] = op[t]
  BY <1>1, <1>2, <1>3 DEF TypeOK
<1>14. /\ space \in Task \cup {NoVm} /\ vm' \in [Task -> Task \cup {NoVm}]
       /\ vm'[n] = space /\ \A t \in Task : t # n => vm'[t] = vm[t]
  <2>1. space \in Task \cup {NoVm}
    BY <1>2, <1>3, <1>4 DEF TypeOK, c, n
  <2> QED
    BY <1>1, <1>2, <1>4, <2>1 DEF TypeOK
<1>15. TypeOK'
  <2>1. n' \in 1..(MaxPid + 1)
    BY <1>1, <1>4, PidAssumption DEF Task
  <2>2. children' \in [Task -> Seq(Task)]
    BY <1>1, <1>2, <1>3, <1>9, <1>10, SMTT(20) DEF TypeOK
  <2> QED
    BY <1>1, <1>2, <1>8, <1>11, <1>12, <1>13, <1>14, <2>1, <2>2, SMTT(20) DEF TypeOK, State, n
<1>16. QueueExact'
  <2>1. \A t \in Task \ {idle} : t \in Range(newborn') <=> t \in Range(newborn) \/ t = n
    <3>1. \A t : t \in Range(newborn) <=> \E p \in Task : t = newborn[p]
      BY <1>2 DEF TypeOK, Range
    <3>2. \A t : t \in Range(newborn') <=> \E p \in Task : t = newborn'[p]
      BY <1>12 DEF Range
    <3> QED
      BY <1>3, <1>7, <1>12, <3>1, <3>2
  <2>2. /\ IsInjective(ready)
        /\ Range(ready) = {t \in Task \ {idle} : state[t] = "Ready" /\ t \notin Range(newborn)}
        /\ {t \in Task : state[t] = "Running"} = {current}
    BY DEF IInv, QueueExact
  <2>3. Range(ready) = {t \in Task \ {idle} : state'[t] = "Ready" /\ t \notin Range(newborn')}
    BY <1>4, <1>8, <2>1, <2>2, Zenon
  <2>4. {t \in Task : state'[t] = "Running"} = {current}
    BY <1>4, <1>8, <2>2, Zenon
  <2> QED
    BY <1>1, <2>2, <2>3, <2>4 DEF QueueExact
<1>17. \A t \in Task : t # n => (Exists(t)' <=> Exists(t))
  BY <1>8 DEF Exists
<1>18. state'[n] \notin {"none", "gone"}
  BY <1>8
<1>19. ListsExact'
  <2> SUFFICES ASSUME NEW p \in Task
               PROVE  /\ IsInjective(children'[p])
                      /\ \A t \in Range(children'[p]) :
                           t \in 2..MaxPid /\ Exists(t)' /\ parent'[t] = p
    BY DEF ListsExact
  <2>1. /\ IsInjective(children[p])
        /\ \A t \in Range(children[p]) :
             t \in 2..MaxPid /\ Exists(t) /\ parent[t] = p /\ t \in Task /\ t # n
    BY <1>6, PidAssumption DEF IInv, ListsExact, Task
  <2>2. CASE p = c
    <3> SUFFICES ASSUME NEW t \in Range(children'[c])
                 PROVE  t \in 2..MaxPid /\ Exists(t)' /\ parent'[t] = c
      BY <1>10, <2>2
    <3>1. CASE t = n
      BY <1>4, <1>11, <1>18, <3>1, SMTT(20) DEF Exists
    <3>2. CASE t \in Range(children[c])
      BY <1>11, <1>17, <2>1, <2>2, <3>2, SMTT(20)
    <3> QED
      BY <1>10, <3>1, <3>2
  <2>3. CASE p # c
    BY <1>9, <1>11, <1>17, <2>1, <2>3, SMTT(20)
  <2> QED
    BY <2>2, <2>3
<1>20. Listed'
  <2> SUFFICES ASSUME NEW t \in 2..MaxPid, Exists(t)'
               PROVE  /\ t \in Range(children'[parent'[t]]) /\ parent'[t] \in 1..(t - 1)
                      /\ state'[parent'[t]] \in {"Ready", "Running"}
    BY DEF Listed
  <2>1. CASE t = n
    <3>1. c # n
      BY <1>4, <1>5 DEF Task
    <3> QED
      BY <1>3, <1>5, <1>8, <1>10, <1>11, <1>4, <2>1, <3>1, SMTT(20)
  <2>2. CASE t # n
    <3>1. t \in Task
      BY PidAssumption DEF Task
    <3>2. /\ t \in Range(children[parent[t]]) /\ parent[t] \in 1..(t - 1)
          /\ state[parent[t]] \in {"Ready", "Running"} /\ parent[t] \in Task
      BY <1>2, <1>17, <2>2, <3>1 DEF IInv, Listed, TypeOK
    <3>3. parent'[t] = parent[t] /\ parent[t] # n
      BY <1>4, <1>11, <2>2, <3>1, <3>2
    <3>4. t \in Range(children'[parent[t]])
      BY <1>9, <1>10, <3>2, Zenon
    <3> QED
      BY <1>8, <3>2, <3>3, <3>4
  <2> QED
    BY <2>1, <2>2
<1>21. OpFits'
  <2>1. op[n] = "run" /\ c # n
    BY <1>3, <1>4 DEF IInv, OpFits
  <2>2. state'[c] = "Running"
    BY <1>3, <1>8, <2>1
  <2> QED
    BY <1>8, <1>13, <2>1, <2>2 DEF IInv, OpFits
<1>22. NewbornFits'
  <2> SUFFICES ASSUME NEW t \in Task
               PROVE  /\ op'[t] = "spawn" <=> newborn'[t] # idle
                      /\ newborn'[t] # idle => /\ newborn'[t] \in Range(children'[t])
                                               /\ state'[newborn'[t]] = "Ready"
    BY DEF NewbornFits
  <2>1. CASE t = c
    BY <1>4, <1>8, <1>10, <1>12, <1>13, <2>1, SMTT(20)
  <2>2. CASE t # c
    <3>1. /\ op[t] = "spawn" <=> newborn[t] # idle
          /\ newborn[t] # idle => /\ newborn[t] \in Range(children[t])
                                  /\ state[newborn[t]] = "Ready" /\ newborn[t] \in Task
      BY <1>2 DEF IInv, NewbornFits, TypeOK
    <3> QED
      BY <1>4, <1>8, <1>9, <1>12, <1>13, <2>2, <3>1, ZenonT(40)
  <2> QED
    BY <2>1, <2>2
<1>23. FirstTwo'
  BY <1>3, <1>4, <1>8, <1>14 DEF IInv, FirstTwo
<1>24. PidsFresh'
  <2>1. /\ n > Boot /\ n \in Nat /\ Boot \in Nat
        /\ \A t \in Task : state[t] = "none" <=> t >= n
        /\ \A t \in Task : vm[t] < n
        /\ \A a \in cleared : a < n /\ a \in Task
    <3>1. n \in Nat /\ Boot \in Nat /\ \A a \in cleared : a \in Task
      BY <1>2, <1>4, PidAssumption DEF TypeOK
    <3> QED
      BY <3>1 DEF IInv, PidsFresh, n
  <2>2. \A t \in Task : t \in Nat /\ vm[t] \in Int
    BY <1>2 DEF TypeOK, Task, NoVm
  <2>3. \A t \in Task : state'[t] = "none" <=> t >= n + 1
    BY <1>4, <1>8, <2>1, <2>2
  <2>4. \A t \in Task : vm'[t] < n + 1
    <3> SUFFICES ASSUME NEW t \in Task PROVE vm'[t] < n + 1
      OBVIOUS
    <3>1. CASE t # n
      BY <1>14, <2>1, <2>2, <3>1
    <3>2. CASE t = n
      BY <1>3, <1>14, <2>1, <2>2, <3>2 DEF c, n
    <3> QED
      BY <3>1, <3>2
  <2>5. next_pid' = n + 1
    BY <1>1 DEF n
  <2>6. \A a \in cleared' : a < n + 1
    BY <1>1, <2>1, <2>2
  <2> QED
    BY <2>1, <2>3, <2>4, <2>5, <2>6 DEF PidsFresh
<1>25. AddressSpaceKept'
  <2>1. space \notin cleared
    <3>1. vm[c] \notin cleared
      BY <1>1, <1>3 DEF IInv, AddressSpaceKept, Exists
    <3>2. n \notin cleared
      BY <1>4 DEF IInv, PidsFresh, n
    <3> QED
      BY <3>1, <3>2 DEF c, n
  <2> SUFFICES ASSUME NEW t \in Task, Exists(t)', op'[t] # "exit" PROVE vm'[t] \notin cleared
    BY <1>1 DEF AddressSpaceKept
  <2>2. CASE t = n
    BY <1>14, <2>1, <2>2, SMTT(20)
  <2>3. CASE t # n
    <3>1. Exists(t) /\ op[t] # "exit"
      BY <1>1, <1>13, <1>17, <2>3
    <3> QED
      BY <1>14, <2>3, <3>1 DEF IInv, AddressSpaceKept
  <2> QED
    BY <2>2, <2>3
<1>26. ShutdownLast' /\ NoPanic'
  BY <1>1 DEF ShutdownLast, NoPanic
<1> QED
  BY <1>15, <1>16, <1>19, <1>20, <1>21, <1>22, <1>23, <1>24, <1>25, <1>26, SMTT(20) DEF IInv

\* exit, before the lock: an address space is cleared only by its last user.
LEMMA ExitStep ==
  ASSUME IInv, exit
  PROVE  IInv'
<1> DEFINE c == current
<1>1. /\ op[c] = "run" /\ c \notin {idle, root} /\ op' = [op EXCEPT ![c] = "exit"]
      /\ cleared' = cleared \cup {a \in {vm[c]} \ {NoVm} : vm_count(a) = 1}
      /\ UNCHANGED <<state, ready, current, children, parent, vm, next_pid, newborn, off, panicked>>
  BY DEF exit, curr_task, schedVars, treeVars
<1>2. TypeOK /\ c \in Task /\ state[c] = "Running"
  BY CurrentAndRoot DEF IInv
<1> HIDE DEF c
<1>3. /\ op' \in [Task -> {"run", "spawn", "exit", "check"}] /\ op'[c] = "exit"
      /\ \A t \in Task : t # c => op'[t] = op[t]
  BY <1>1, <1>2 DEF TypeOK
<1>4. TypeOK'
  <2>1. vm[c] \in Task \cup {NoVm} /\ cleared' \subseteq Task
    BY <1>1, <1>2 DEF TypeOK
  <2> QED
    BY <1>1, <1>2, <1>3, <2>1 DEF TypeOK
<1>5. QueueExact' /\ NoPanic' /\ ListsExact' /\ Listed'
  BY <1>1 DEF IInv, QueueExact, NoPanic, ListsExact, Listed, Exists
<1>6. ShutdownLast' /\ FirstTwo'
  BY <1>1 DEF IInv, ShutdownLast, FirstTwo, Exists
<1>7. OpFits' /\ NewbornFits'
  BY <1>1, <1>2, <1>3 DEF IInv, OpFits, NewbornFits
<1>8. PidsFresh'
  BY <1>1, <1>2 DEF IInv, PidsFresh
<1>9. AddressSpaceKept'
  <2> SUFFICES ASSUME NEW t \in Task, Exists(t), op'[t] # "exit", vm[t] \in cleared' PROVE FALSE
    BY <1>1 DEF AddressSpaceKept, Exists
  <2>1. t # c /\ op[t] # "exit"
    BY <1>3
  <2>2. vm[t] \notin cleared
    BY <2>1 DEF IInv, AddressSpaceKept
  <2> DEFINE Users == {u \in Task : Exists(u) /\ vm[u] = vm[c]}
  <2>3. vm[t] = vm[c] /\ Cardinality(Users) = 1
    BY <1>1, <2>2 DEF vm_count
  <2>4. t \in Users /\ c \in Users
    BY <1>2, <2>3 DEF Exists
  <2>5. IsFiniteSet(Users)
    BY TaskFinite
  <2> HIDE DEF Users
  <2> QED
    BY <2>1, <2>3, <2>4, <2>5, FS_Singleton, SMTT(20)
<1> QED
  BY <1>4, <1>5, <1>6, <1>7, <1>8, <1>9 DEF IInv

\* exit_current: the root task adopts the children, and the CPU goes to the next task.
LEMMA ExitCurrentStep ==
  ASSUME IInv, exit_current
  PROVE  IInv'
<1> DEFINE c == current  st == [state EXCEPT ![c] = "Zombie"]  kids == children'
           mine == Range(children[c])
<1>1. /\ op[c] = "exit"
      /\ children' = [children EXCEPT ![root] = children[root] \o children[c], ![c] = <<>>]
      /\ parent' = [t \in Task |-> IF t \in mine THEN root ELSE parent[t]]
      /\ resched(ready, st, kids)
      /\ UNCHANGED <<vm, cleared, next_pid, op, newborn, off>>
  <2>1. [children EXCEPT ![root] = @ \o children[current], ![current] = <<>>]
          = [children EXCEPT ![root] = children[root] \o children[current], ![current] = <<>>]
    OBVIOUS
  <2> QED
    BY <2>1, Zenon DEF exit_current, curr_task, vmVars
<1>2. TypeOK
  BY DEF IInv
<1>3. /\ c \in Task /\ state[c] = "Running" /\ idle \in Task /\ root \in Task
      /\ \A t \in Task : t # c => state[t] # "Running"
  BY CurrentAndRoot, SMTT(20)
<1>4. c \notin {idle, root}
  BY <1>1, <1>3 DEF IInv, OpFits
<1>5. ready # <<>>
  BY <1>4, CurrentAndRoot
<1>6. /\ \A p \in Task : children[p] \in Seq(Task) /\ IsInjective(children[p])
      /\ \A p \in Task : \A t \in Range(children[p]) :
           t \in 2..MaxPid /\ t \in Task /\ Exists(t) /\ parent[t] = p
  <2>1. \A t \in 2..MaxPid : t \in Task
    BY PidAssumption DEF Task
  <2>2. \A p \in Task : children[p] \in Seq(Task)
    BY <1>2 DEF TypeOK
  <2> QED
    BY <2>1, <2>2 DEF IInv, ListsExact
<1> HIDE DEF c, st, kids, mine
<1>7. /\ children'[root] = children[root] \o children[c] /\ children'[c] = <<>>
      /\ \A p \in Task : p \notin {c, root} => children'[p] = children[p]
      /\ DOMAIN children' = Task
  BY <1>1, <1>2, <1>3, <1>4, SMTT(20) DEF TypeOK
<1>8. /\ children'[root] \in Seq(Task) /\ IsInjective(children'[root])
      /\ Range(children'[root]) = Range(children[root]) \cup mine
  <2>1. Range(children[root]) \cap Range(children[c]) = {}
    <3> SUFFICES ASSUME NEW t \in Range(children[root]), t \in Range(children[c]) PROVE FALSE
      OBVIOUS
    <3>1. parent[t] = root /\ parent[t] = c
      BY <1>3, <1>6
    <3> QED
      BY <1>4, <3>1
  <2>2. /\ children[root] \in Seq(Task) /\ children[c] \in Seq(Task)
        /\ IsInjective(children[root]) /\ IsInjective(children[c])
    BY <1>3, <1>6
  <2> QED
    BY ONLY <1>7, <2>1, <2>2, ConcatOnce DEF mine
<1>9. children'[c] \in Seq(Task) /\ IsInjective(children'[c]) /\ Range(children'[c]) = {}
  BY <1>7, EmptySeq DEF IsInjective, Range
<1>10. children' \in [Task -> Seq(Task)]
  <2>1. \A p \in Task : children'[p] \in Seq(Task)
    BY <1>6, <1>7, <1>8, <1>9
  <2>2. children' = [p \in Task |-> children'[p]]
    BY <1>1, <1>2 DEF TypeOK
  <2> QED
    BY <2>1, <2>2
<1>11. \A p \in Task : p # c => Range(children[p]) \subseteq Range(children'[p])
  BY <1>7, <1>8, Zenon
<1>12. /\ parent' \in [Task -> Task]
       /\ \A t \in mine : t \in Task /\ parent[t] = c /\ parent'[t] = root
       /\ \A t \in Task : t \notin mine => parent'[t] = parent[t]
  BY <1>1, <1>2, <1>3, <1>6 DEF TypeOK, mine
<1>13. /\ st \in [Task -> State] /\ st[c] = "Zombie"
       /\ \A t \in Task : t # c => st[t] = state[t]
  BY <1>2, <1>3 DEF st, TypeOK, State
<1>14. /\ IsInjective(ready) /\ ready \in Seq(Task) /\ newborn \in [Task -> Task]
       /\ Range(ready) = {t \in Task \ {idle} : state[t] = "Ready" /\ t \notin Range(newborn)}
  BY <1>2 DEF IInv, QueueExact, TypeOK
<1>15. Range(ready) = {t \in Task \ {idle} : st[t] = "Ready" /\ t \notin Range(newborn)}
  BY <1>3, <1>13, <1>14
<1>16. \A t \in 2..MaxPid : Exists(t) =>
         /\ t \in Range(children'[parent'[t]]) /\ parent'[t] \in 1..(t - 1)
         /\ parent'[t] \in Task /\ parent'[t] # c
         /\ state[parent'[t]] \in {"Ready", "Running"}
  <2> SUFFICES ASSUME NEW t \in 2..MaxPid, Exists(t)
               PROVE  /\ t \in Range(children'[parent'[t]]) /\ parent'[t] \in 1..(t - 1)
                      /\ parent'[t] \in Task /\ parent'[t] # c
                      /\ state[parent'[t]] \in {"Ready", "Running"}
    OBVIOUS
  <2>1. t \in Task
    BY PidAssumption DEF Task
  <2>2. /\ t \in Range(children[parent[t]]) /\ parent[t] \in 1..(t - 1)
        /\ parent[t] \in Task /\ state[parent[t]] \in {"Ready", "Running"}
    BY <1>2, <2>1 DEF IInv, Listed, TypeOK
  <2>3. CASE t \in mine
    <3>1. root \in 1..(t - 1)
      BY DEF root
    <3>2. state[root] \in {"Ready", "Running"}
      BY DEF IInv, FirstTwo
    <3> QED
      BY <1>3, <1>4, <1>8, <1>12, <2>3, <3>1, <3>2, SMTT(20)
  <2>4. CASE t \notin mine
    <3>1. parent[t] # c
      BY <2>2, <2>4 DEF mine
    <3> QED
      BY <1>11, <1>12, <2>1, <2>2, <2>4, <3>1
  <2> QED
    BY <2>3, <2>4
<1>17. \A t \in {current} \cup Range(ready) :
         t \in {idle, root} \/ \E p \in Task : t \in Range(kids[p])
  <2> SUFFICES ASSUME NEW t \in {current} \cup Range(ready), t \notin {idle, root}
               PROVE  \E p \in Task : t \in Range(kids[p])
    OBVIOUS
  <2>1. t \in Task /\ Exists(t)
    BY <1>3, <1>14 DEF Exists, c
  <2>2. t \in 2..MaxPid
    BY <2>1, PidAssumption DEF Task, idle, root
  <2> QED
    BY <1>16, <2>1, <2>2 DEF kids
<1>18. \A t \in Task : st[t] # "Running"
  BY <1>3, <1>13, SMTT(20)
<1>19. /\ panicked' = {} /\ QueueExact'
       /\ ready' \in Seq(Task) /\ current' \in Task /\ state' \in [Task -> State]
       /\ current' \in Range(ready) /\ state' = [st EXCEPT ![current'] = "Running"]
  <2>1. kids \in [Task -> Seq(Task)]
    BY <1>10 DEF kids
  <2> QED
    BY <1>1, <1>2, <1>5, <1>13, <1>14, <1>15, <1>17, <1>18, <2>1, ReschedStep, Zenon
<1>20. /\ st[current'] = "Ready" /\ state'[current'] = "Running" /\ current' \notin Range(newborn)
       /\ \A t \in Task : t # current' => state'[t] = st[t]
  BY <1>13, <1>15, <1>19
<1>21. \A t \in Task : t # c => \/ state'[t] = state[t]
                                \/ state[t] = "Ready" /\ state'[t] = "Running"
  BY <1>13, <1>20
<1>22. state'[c] = "Zombie"
  BY <1>3, <1>13, <1>20
<1>23. \A t \in Task : Exists(t)' <=> Exists(t)
  BY <1>3, <1>21, <1>22, SMTT(20) DEF Exists
<1>24. TypeOK'
  BY <1>1, <1>2, <1>10, <1>12, <1>19 DEF TypeOK, State
<1>25. ListsExact'
  <2> SUFFICES ASSUME NEW p \in Task
               PROVE  /\ IsInjective(children'[p])
                      /\ \A t \in Range(children'[p]) :
                           t \in 2..MaxPid /\ Exists(t)' /\ parent'[t] = p
    BY DEF ListsExact
  <2>1. IsInjective(children'[p])
    BY <1>6, <1>7, <1>8, <1>9, ZenonT(40)
  <2>2. ASSUME NEW t \in Range(children'[p])
        PROVE  t \in 2..MaxPid /\ Exists(t)' /\ parent'[t] = p
    <3>1. CASE p = c
      BY <1>9, <2>2, <3>1
    <3>2. CASE p = root /\ t \in mine
      BY <1>3, <1>6, <1>12, <1>23, <3>2, SMTT(20) DEF mine
    <3>3. CASE p # c /\ t \in Range(children[p])
      <4>1. t \notin mine
        BY <1>6, <1>12, <3>3
      <4> QED
        BY <1>6, <1>12, <1>23, <3>3, <4>1
    <3> QED
      BY <1>7, <1>8, <2>2, <3>1, <3>2, <3>3, Zenon
  <2> QED
    BY <2>1, <2>2
<1>26. Listed'
  <2> SUFFICES ASSUME NEW t \in 2..MaxPid, Exists(t)'
               PROVE  /\ t \in Range(children'[parent'[t]]) /\ parent'[t] \in 1..(t - 1)
                      /\ state'[parent'[t]] \in {"Ready", "Running"}
    BY DEF Listed
  <2>1. t \in Task
    BY PidAssumption DEF Task
  <2>2. Exists(t)
    BY <1>23, <2>1, SMTT(20)
  <2> QED
    BY <1>16, <1>21, <2>2
<1>27. OpFits'
  BY <1>1, <1>21, <1>22, SMTT(20) DEF IInv, OpFits
<1>28. NewbornFits'
  <2> SUFFICES ASSUME NEW t \in Task
               PROVE  /\ op[t] = "spawn" <=> newborn[t] # idle
                      /\ newborn[t] # idle => /\ newborn[t] \in Range(children'[t])
                                              /\ state'[newborn[t]] = "Ready"
    BY <1>1, Zenon DEF NewbornFits
  <2>1. /\ op[t] = "spawn" <=> newborn[t] # idle
        /\ newborn[t] # idle => /\ newborn[t] \in Range(children[t])
                                /\ state[newborn[t]] = "Ready" /\ newborn[t] \in Task
    BY <1>14 DEF IInv, NewbornFits
  <2>2. newborn[t] # idle => t # c
    BY <1>1, <2>1
  <2>3. newborn[t] # idle => newborn[t] # current' /\ newborn[t] # c
    BY <1>3, <1>14, <1>20, <2>1, SMTT(20) DEF Range
  <2> QED
    BY <1>11, <1>13, <1>20, <2>1, <2>2, <2>3, SMTT(20)
<1>29. FirstTwo'
  BY <1>1, <1>3, <1>4, <1>21, SMTT(20) DEF IInv, FirstTwo
<1>30. PidsFresh'
  <2>1. \A t \in Task : state'[t] = "none" <=> state[t] = "none"
    BY <1>3, <1>21, <1>22
  <2> QED
    BY <1>1, <2>1 DEF IInv, PidsFresh
<1>31. AddressSpaceKept' /\ ShutdownLast'
  <2>1. \A t \in 2..MaxPid : t \in Task
    BY PidAssumption DEF Task
  <2> QED
    BY <1>1, <1>23, <2>1 DEF IInv, AddressSpaceKept, ShutdownLast
<1>32. NoPanic'
  BY <1>19 DEF NoPanic
<1> QED
  BY <1>19, <1>24, <1>25, <1>26, <1>27, <1>28, <1>29, <1>30, <1>31, <1>32, SMTT(20) DEF IInv

\* waitpid: a zombie leaves the list of its parent, and that was its last reference.
LEMMA ReapStep ==
  ASSUME IInv, NEW pid, Reap(pid), UNCHANGED op
  PROVE  IInv'
<1> DEFINE c == current
<1>1. c \in Task /\ state[c] = "Running" /\ TypeOK
  BY CurrentAndRoot DEF IInv
<1>2. PICK i \in 1..Len(children[c]) :
        /\ state[children[c][i]] = "Zombie"
        /\ children' = [children EXCEPT ![c] = remove(children[c], i)]
        /\ panicked' = Failed("waitpid", strong_count(children[c][i], ready, children', 1) = 1)
        /\ state' = [state EXCEPT ![children[c][i]] = "gone"]
        /\ UNCHANGED <<parent, vm, cleared, ready, current, next_pid, newborn, off>>
  BY Zenon DEF Reap, Zombies, curr_task, vmVars
<1> DEFINE z == children[c][i]
<1>3. /\ children[c] \in Seq(Task) /\ IsInjective(children[c]) /\ z \in Range(children[c])
      /\ z \in Task /\ z \in 2..MaxPid /\ parent[z] = c
  <2>1. children[c] \in Seq(Task)
    BY <1>1 DEF TypeOK
  <2>2. z \in Range(children[c])
    BY <2>1, SeqIsFunction DEF Range
  <2> QED
    BY <1>1, <2>1, <2>2, PidAssumption DEF IInv, ListsExact, Task
<1> HIDE DEF c
<1>4. /\ remove(children[c], i) \in Seq(Task) /\ IsInjective(remove(children[c], i))
      /\ Range(remove(children[c], i)) = Range(children[c]) \ {z}
  BY <1>3, RemoveOnce, SMTT(20)
<1>5. /\ children' \in [Task -> Seq(Task)] /\ IsInjective(children'[c])
      /\ Range(children'[c]) = Range(children[c]) \ {z}
      /\ \A p \in Task : p # c => children'[p] = children[p]
  BY <1>1, <1>2, <1>4, SMTT(20) DEF TypeOK
<1> HIDE DEF z
<1>6. /\ state' \in [Task -> State] /\ state[z] = "Zombie" /\ state'[z] = "gone"
      /\ \A t \in Task : t # z => state'[t] = state[t]
  BY <1>1, <1>2, <1>3 DEF TypeOK, State, z
<1>7. \A p \in Task : \A t \in Range(children[p]) : parent[t] = p
  BY DEF IInv, ListsExact
<1>8. \A p \in Task : z \notin Range(children'[p])
  BY <1>3, <1>5, <1>7
<1>9. /\ newborn \in [Task -> Task] /\ ready \in Seq(Task) /\ z \notin Range(ready)
      /\ z \notin {idle, root} /\ z \notin Range(newborn)
  <2>1. z \notin {idle, root}
    BY <1>3 DEF idle, root
  <2>2. z \notin Range(newborn)
    BY <1>1, <1>6, <2>1 DEF IInv, NewbornFits, TypeOK, Range
  <2>3. z \notin Range(ready)
    BY <1>6 DEF IInv, QueueExact
  <2> QED
    BY <1>1, <2>1, <2>2, <2>3 DEF TypeOK
<1>10. panicked' = {}
  <2>1. strong_count(z, ready, children', 1) = 1
    BY <1>5, <1>8, <1>9, CountLast
  <2> QED
    BY <1>2, <2>1, SMTT(20) DEF Failed, z
<1>11. \A t \in Task : t # z => (Exists(t)' <=> Exists(t))
  BY <1>6 DEF Exists
<1>12. \A t \in Task : Exists(t)' => t # z
  BY <1>6, SMTT(20) DEF Exists
<1>13. TypeOK' /\ NoPanic'
  BY <1>1, <1>2, <1>5, <1>6, <1>10, ZenonT(40) DEF TypeOK, State, NoPanic
<1>14. QueueExact'
  <2>1. /\ IsInjective(ready)
        /\ Range(ready) = {t \in Task \ {idle} : state[t] = "Ready" /\ t \notin Range(newborn)}
        /\ {t \in Task : state[t] = "Running"} = {current}
    BY DEF IInv, QueueExact
  <2>2. \A t \in Task : /\ state'[t] = "Ready" <=> state[t] = "Ready"
                        /\ state'[t] = "Running" <=> state[t] = "Running"
    BY <1>3, <1>6
  <2> QED
    BY <1>2, <2>1, <2>2 DEF QueueExact
<1>15. ListsExact'
  <2> SUFFICES ASSUME NEW p \in Task
               PROVE  /\ IsInjective(children'[p])
                      /\ \A t \in Range(children'[p]) :
                           t \in 2..MaxPid /\ Exists(t)' /\ parent[t] = p
    BY <1>2 DEF ListsExact
  <2>1. /\ IsInjective(children[p])
        /\ \A t \in Range(children[p]) :
             t \in 2..MaxPid /\ t \in Task /\ Exists(t) /\ parent[t] = p
    BY PidAssumption DEF IInv, ListsExact, Task
  <2>2. Range(children'[p]) \subseteq Range(children[p]) /\ IsInjective(children'[p])
    BY <1>5, <2>1, SMTT(20)
  <2> QED
    BY <1>8, <1>11, <2>1, <2>2, SMTT(20)
<1>16. Listed'
  <2> SUFFICES ASSUME NEW t \in 2..MaxPid, Exists(t)'
               PROVE  /\ t \in Range(children'[parent[t]]) /\ parent[t] \in 1..(t - 1)
                      /\ state'[parent[t]] \in {"Ready", "Running"}
    BY <1>2 DEF Listed
  <2>1. t \in Task
    BY PidAssumption DEF Task
  <2>2. Exists(t) /\ t # z
    BY <1>11, <1>12, <2>1, SMTT(20)
  <2>3. /\ t \in Range(children[parent[t]]) /\ parent[t] \in 1..(t - 1)
        /\ state[parent[t]] \in {"Ready", "Running"} /\ parent[t] \in Task
    BY <1>1, <2>1, <2>2 DEF IInv, Listed, TypeOK
  <2>4. parent[t] # z
    BY <1>6, <2>3, SMTT(20)
  <2> QED
    BY <1>5, <1>6, <2>2, <2>3, <2>4, SMTT(20)
<1>17. OpFits'
  BY <1>2, <1>6, SMTT(20) DEF IInv, OpFits
<1>18. NewbornFits'
  <2> SUFFICES ASSUME NEW t \in Task
               PROVE  /\ op[t] = "spawn" <=> newborn[t] # idle
                      /\ newborn[t] # idle => /\ newborn[t] \in Range(children'[t])
                                              /\ state'[newborn[t]] = "Ready"
    BY <1>2 DEF NewbornFits
  <2>1. /\ op[t] = "spawn" <=> newborn[t] # idle
        /\ newborn[t] # idle => /\ newborn[t] \in Range(children[t])
                                /\ state[newborn[t]] = "Ready" /\ newborn[t] \in Task
    BY <1>9 DEF IInv, NewbornFits
  <2>2. newborn[t] # z
    BY <1>9, SMTT(20) DEF Range
  <2> QED
    BY <1>5, <1>6, <2>1, <2>2, ZenonT(40)
<1>19. FirstTwo'
  BY <1>2, <1>6, <1>9, CurrentAndRoot, SMTT(20) DEF IInv, FirstTwo
<1>20. PidsFresh'
  <2>1. \A t \in Task : state'[t] = "none" <=> state[t] = "none"
    BY <1>6, SMTT(20)
  <2> QED
    BY <1>2, <2>1 DEF IInv, PidsFresh
<1>21. AddressSpaceKept' /\ ShutdownLast'
  <2>1. \A t \in 2..MaxPid : t \in Task
    BY PidAssumption DEF Task
  <2> QED
    BY <1>2, <1>11, <1>12, <2>1 DEF IInv, AddressSpaceKept, ShutdownLast
<1> QED
  BY <1>13, <1>14, <1>15, <1>16, <1>17, <1>18, <1>19, <1>20, <1>21, SMTT(20) DEF IInv

\* A set of naturals that is not empty has a least element.
LEMMA LeastElement ==
  ASSUME NEW S \in SUBSET Nat, S # {}
  PROVE  \E x \in S : \A y \in S : x <= y
<1> DEFINE LT == {ss \in Nat \X Nat : ss[1] < ss[2]}
<1>1. IsWellFoundedOn(LT, Nat)
  BY NatLessThanWellFounded, Zenon DEF OpToRel
<1> HIDE DEF LT
<1>2. PICK x \in S : \A y \in S : ~(<<y, x>> \in LT)
  BY <1>1, WFMin, Zenon
<1>3. ASSUME NEW y \in S PROVE x <= y
  <2> DEFINE p == <<y, x>>
  <2>1. p \notin LT /\ p \in Nat \X Nat /\ p[1] = y /\ p[2] = x
    BY <1>2
  <2> HIDE DEF p
  <2> QED
    BY <2>1 DEF LT
<1> QED
  BY <1>3

\* When the root task has no children there is no other task: the oldest of them would
\* have a parent that is older still.
LEMMA NoChildrenNoTasks ==
  ASSUME IInv, children[root] = <<>>
  PROVE  \A t \in 2..MaxPid : ~Exists(t)
<1> DEFINE Left == {t \in 2..MaxPid : Exists(t)}
<1> SUFFICES ASSUME Left # {} PROVE FALSE
  OBVIOUS
<1>1. PICK t \in Left : \A u \in Left : t <= u
  <2>1. Left \in SUBSET Nat
    BY PidAssumption
  <2> HIDE DEF Left
  <2> QED
    BY <2>1, LeastElement
<1>2. /\ t \in Range(children[parent[t]]) /\ parent[t] \in 1..(t - 1)
      /\ state[parent[t]] \in {"Ready", "Running"}
  BY DEF IInv, Listed
<1>3. parent[t] # root
  BY <1>2 DEF Range
<1>4. parent[t] \in 2..MaxPid /\ parent[t] < t
  BY <1>2, <1>3, PidAssumption DEF root
<1>5. parent[t] \in Left
  BY <1>2, <1>4 DEF Exists
<1>6. t <= parent[t] /\ t \in Int /\ parent[t] \in Int
  BY <1>1, <1>4, <1>5, SMTT(20)
<1> QED
  BY <1>4, <1>6

\* What leaves the scheduler, the tree and the address spaces alone.
LEMMA QuietStep ==
  ASSUME IInv, UNCHANGED <<schedVars, treeVars, vmVars, next_pid, newborn>>,
         panicked' \subseteq {"exec"}, off' \in BOOLEAN,
         op' \in [Task -> {"run", "spawn", "exit", "check"}],
         \A t \in Task : \/ op'[t] = op[t]
                         \/ t = root /\ {op[t], op'[t]} \subseteq {"run", "check"},
         off' = off \/ children[root] = <<>>
  PROVE  IInv'
<1> USE DEF schedVars, treeVars, vmVars
<1>1. TypeOK'
  BY SMTT(20) DEF IInv, TypeOK
<1>2. NoPanic' /\ QueueExact'
  BY DEF IInv, NoPanic, QueueExact
<1>3. \A t \in Task : op'[t] = "exit" <=> op[t] = "exit"
  OBVIOUS
<1>4. \A t \in Task : op'[t] = "spawn" <=> op[t] = "spawn"
  BY SMTT(20)
<1>5. AddressSpaceKept'
  BY <1>3 DEF IInv, AddressSpaceKept, Exists
<1>6. ShutdownLast'
  <2>1. CASE off' = off
    BY <2>1 DEF IInv, ShutdownLast, Exists
  <2>2. CASE children[root] = <<>>
    BY <2>2, NoChildrenNoTasks, SMTT(20) DEF ShutdownLast, Exists
  <2> QED
    BY <2>1, <2>2
<1>7. ListsExact' /\ Listed'
  BY SMTT(20) DEF IInv, ListsExact, Listed, Exists
<1>8. OpFits'
  <2>1. state[root] # "none"
    BY SMTT(20) DEF IInv, FirstTwo
  <2> QED
    BY <1>3, <2>1, SMTT(20) DEF IInv, OpFits
<1>9. NewbornFits' /\ FirstTwo' /\ PidsFresh'
  BY <1>4 DEF IInv, NewbornFits, FirstTwo, PidsFresh
<1> QED
  BY <1>1, <1>2, <1>5, <1>6, <1>7, <1>8, <1>9, SMTT(20) DEF IInv

\* The invariant is inductive.
LEMMA NextIInv == IInv /\ [Next]_vars => IInv'
<1> SUFFICES ASSUME IInv, [Next]_vars PROVE IInv'
  OBVIOUS
<1>0. /\ op \in [Task -> {"run", "spawn", "exit", "check"}] /\ off \in BOOLEAN
      /\ current \in Task /\ idle # root
  BY DEF IInv, TypeOK, idle, root
<1>1. CASE yield_current
  BY <1>0, <1>1, YieldStep DEF yield_current, curr_task, treeVars, vmVars
<1>2. CASE exit
  BY <1>2, ExitStep
<1>3. CASE exit_current
  BY <1>3, ExitCurrentStep
<1>4. CASE spawn
  BY <1>4, SpawnStep
<1>5. CASE sys_fork
  BY <1>5, NewTaskStep DEF sys_fork
<1>6. CASE sys_clone
  BY <1>6, NewTaskStep DEF sys_clone, curr_task
<1>7. CASE sys_exec
  <2>1. panicked' \subseteq {"exec"}
    BY <1>7 DEF sys_exec, Failed
  <2> QED
    BY <1>0, <1>7, <2>1, QuietStep, SMTT(20) DEF sys_exec
<1>8. ASSUME NEW pid \in {-1} \cup (2..MaxPid), sys_waitpid(pid) PROVE IInv'
  BY <1>8, ReapStep DEF sys_waitpid
<1>9. CASE RootReap
  <2>1. CASE Reap(-1) /\ UNCHANGED op
    BY <2>1, ReapStep
  <2>2. CASE /\ current = root /\ op[current] = "run" /\ op' = [op EXCEPT ![current] = "check"]
             /\ UNCHANGED <<schedVars, treeVars, vmVars, next_pid, newborn, off, panicked>>
    <3>1. panicked' \subseteq {"exec"}
      BY <2>2 DEF IInv, NoPanic
    <3>2. /\ op' \in [Task -> {"run", "spawn", "exit", "check"}]
          /\ \A t \in Task : \/ op'[t] = op[t]
                             \/ t = root /\ {op[t], op'[t]} \subseteq {"run", "check"}
      BY <1>0, <2>2
    <3> QED
      BY <1>0, <2>2, <3>1, <3>2, QuietStep
  <2> QED
    BY <1>9, <2>1, <2>2 DEF RootReap, curr_task
<1>10. CASE RootShutdown
  <2>1. /\ children[root] = <<>> /\ off' \in BOOLEAN /\ op' = op
        /\ UNCHANGED <<schedVars, treeVars, vmVars, next_pid, newborn, panicked>>
    BY <1>10, Zenon DEF RootShutdown, curr_task
  <2>2. panicked' \subseteq {"exec"}
    BY <2>1 DEF IInv, NoPanic
  <2> QED
    BY <1>0, <2>1, <2>2, QuietStep
<1>11. CASE RootYield
  <2>1. /\ current = root /\ op[root] = "check" /\ op' = [op EXCEPT ![root] = "run"]
        /\ resched(Append(ready, current), [state EXCEPT ![current] = "Ready"], children)
        /\ UNCHANGED <<children, parent, vm, cleared, next_pid, newborn, off>>
    BY <1>11 DEF RootYield, curr_task, treeVars, vmVars
  <2>2. /\ op' \in [Task -> {"run", "spawn", "exit", "check"}]
        /\ \A t \in Task : \/ op'[t] = op[t]
                           \/ t = root /\ {op[t], op'[t]} \subseteq {"run", "check"}
    BY <1>0, <2>1
  <2>3. resched(IF current = idle THEN ready ELSE Append(ready, current),
                [state EXCEPT ![current] = "Ready"], children)
    BY <1>0, <2>1
  <2> QED
    BY <2>1, <2>2, <2>3, YieldStep, SMTT(20)
<1>12. CASE UNCHANGED vars
  <2>1. panicked' \subseteq {"exec"}
    BY <1>12 DEF vars, IInv, NoPanic
  <2>2. op' = op /\ off' = off /\ UNCHANGED <<schedVars, treeVars, vmVars, next_pid, newborn>>
    BY <1>12 DEF vars, schedVars, treeVars, vmVars
  <2> QED
    BY <1>0, <2>1, <2>2, QuietStep
<1> QED
  BY <1>1, <1>2, <1>3, <1>4, <1>5, <1>6, <1>7, <1>8, <1>9, <1>10, <1>11, <1>12, SMTT(20) DEF Next,
     RootStep

-----------------------------------------------------------------------------
(* The theorems *)

\* The invariant holds of every number of tasks, whatever the order of timer ticks, forks,
\* exits and waits.
THEOREM Invariance == Spec => []IInv
BY InitIInv, NextIInv, PTL DEF Spec

\* Every variable of the task manager keeps its type.
THEOREM TypeCorrect == Spec => []TypeOK
<1>1. IInv => TypeOK
  BY DEF IInv
<1> QED
  BY <1>1, Invariance, PTL

\* None of the assertions of resched, switch_to, spawn and waitpid fails, and neither the
\* idle task nor a zombie is ever resumed.
THEOREM NothingPanics == Spec => []NoPanic
<1>1. IInv => NoPanic
  BY DEF IInv
<1> QED
  BY <1>1, Invariance, PTL

\* The ready queue holds exactly the tasks that wait for the CPU, each once.
THEOREM QueueIsExact == Spec => []QueueExact
<1>1. IInv => QueueExact
  BY SMTT(20) DEF IInv
<1> QED
  BY <1>1, Invariance, PTL

\* Every task stays in the list of exactly one living parent, whoever exits: exit_current
\* hands the children to the root task before the CPU is given away.
THEOREM EveryTaskHasOneParent == Spec => []OneLivingParent
<1>1. IInv => OneLivingParent
  <2> SUFFICES ASSUME IInv, NEW t \in 2..MaxPid
               PROVE  LET in == {x \in Places(children) : children[x[1]][x[2]] = t} IN
                      IF Exists(t)
                      THEN /\ Cardinality(in) = 1
                           /\ \A x \in in : /\ x[1] = parent[t]
                                            /\ state[parent[t]] \in {"Ready", "Running"}
                      ELSE in = {}
    BY DEF OneLivingParent
  <2> DEFINE in == {x \in Places(children) : children[x[1]][x[2]] = t}
  <2>1. children \in [Task -> Seq(Task)] /\ parent \in [Task -> Task] /\ t \in Task
    <3>1. t \in Task
      BY PidAssumption DEF Task
    <3> QED
      BY <3>1 DEF IInv, TypeOK
  <2>2. \A p \in Task : \A i \in 1..Len(children[p]) :
          /\ children[p][i] \in Range(children[p])
          /\ i \in DOMAIN children[p]
    BY <2>1, SeqIsFunction DEF Range
  <2>3. \A p \in Task : \A i \in 1..Len(children[p]) :
          children[p][i] = t => p = parent[t] /\ Exists(t)
    BY <2>2 DEF IInv, ListsExact
  <2>4. \A x \in in : Exists(t) /\ x[1] = parent[t]
    BY <2>3, PlaceOf, SMTT(20)
  <2>5. ASSUME Exists(t)
        PROVE  Cardinality(in) = 1 /\ state[parent[t]] \in {"Ready", "Running"}
    <3>1. t \in Range(children[parent[t]]) /\ state[parent[t]] \in {"Ready", "Running"}
      BY <2>5 DEF IInv, Listed
    <3>2. PICK i \in 1..Len(children[parent[t]]) : children[parent[t]][i] = t
      BY <2>1, <3>1, SeqIsFunction DEF Range
    <3>3. \A j \in 1..Len(children[parent[t]]) : children[parent[t]][j] = t => j = i
      <4>1. parent[t] \in Task
        BY <2>1, SMTT(20)
      <4>2. \A j, k \in DOMAIN children[parent[t]] :
              children[parent[t]][j] = children[parent[t]][k] => j = k
        BY <4>1 DEF IInv, ListsExact, IsInjective
      <4> QED
        BY <2>2, <3>2, <4>1, <4>2
    <3>4. <<parent[t], i>> \in in
      BY <2>1, <3>2, PlaceOf, Zenon
    <3>5. ASSUME NEW x \in in PROVE x = <<parent[t], i>>
      <4>1. PICK p \in Task : \E j \in 1..Len(children[p]) : x = <<p, j>>
        BY PlaceOf
      <4>2. PICK j \in 1..Len(children[p]) : x = <<p, j>>
        BY <4>1
      <4>3. children[p][j] = t
        BY <4>2, SMTT(20)
      <4> QED
        BY <2>3, <3>3, <4>2, <4>3
    <3>6. in = {<<parent[t], i>>}
      BY <3>4, <3>5
    <3> QED
      BY <3>1, <3>6, FS_Singleton, Zenon
  <2> QED
    BY <2>4, <2>5, SMTT(20)
<1> QED
  BY <1>1, Invariance, PTL

\* When the root task shuts the machine down every other task has been reaped.
THEOREM ShutdownIsLast == Spec => []ShutdownLast
<1>1. IInv => ShutdownLast
  BY DEF IInv
<1> QED
  BY <1>1, Invariance, PTL

\* exit clears an address space only when its last user leaves it, however many clones
\* share it.
THEOREM AddressSpacesKept == Spec => []AddressSpaceKept
<1>1. IInv => AddressSpaceKept
  BY DEF IInv
<1> QED
  BY <1>1, Invariance, PTL
=============================================================================
