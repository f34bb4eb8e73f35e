------------------------------ MODULE DataPool ------------------------------
(***************************************************************************)
(* The buffers of forwarded calls (kernel/src/scf/allocator.rs and their   *)
(* use in scf/syscall.rs).  sys_read and sys_write take two blocks from a  *)
(* buddy heap in the shared memory, one for the data and one for the       *)
(* arguments, and give them back when the call returns.  Each use of the   *)
(* heap is under its lock; between them another task may run.  What        *)
(* happens to the request meanwhile is ScfQueue's subject.                 *)
(*                                                                         *)
(* Addresses count words of 8 bytes, the smallest block of the heap; a     *)
(* block of class c has 2^c words and begins at a multiple of that.        *)
(***************************************************************************)
EXTENDS Integers, FiniteSets

CONSTANTS
  Task,   \* NimbOS tasks that make forwarded calls
  Len,    \* the lengths they read and write, in bytes
  Order   \* the pool has 2^Order words: 2^17 in the code

VARIABLES
  free_list,  \* heap: the free blocks of each class
  pc,         \* where each task is in its call
  chunk_ptr,  \* the block for the data of each task's call
  args,       \* the block for its arguments
  panicked    \* alloc_common has found no block

vars == <<free_list, pc, chunk_ptr, args, panicked>>

Class == 0..Order

Init ==
  /\ free_list = [c \in Class |-> IF c = Order THEN {0} ELSE {}]
  /\ pc = [t \in Task |-> "run"]
  /\ chunk_ptr = [t \in Task |-> 0] /\ args = [t \in Task |-> 0]
  /\ panicked = FALSE

-----------------------------------------------------------------------------
(* buddy_system_allocator::Heap *)

\* the class of a Layout: its size rounded up to a power of two, a word at least
ClassOf(size) == CHOOSE c \in Class : 8 * 2^c >= size /\ \A d \in Class : d < c => 8 * 2^d < size

\* a block of the smallest class that has one, its upper halves split off
heap_alloc(c, ptr) ==
  \E i \in Class :
    /\ c <= i /\ ptr \in free_list[i]
    /\ \A j \in c..(i - 1) : free_list[j] = {}
    /\ free_list' = [j \in Class |-> CASE j = i            -> free_list[i] \ {ptr}
                                       [] j \in c..(i - 1) -> {ptr + 2^j}
                                       [] OTHER            -> free_list[j]]

\* the block of class j that holds ptr, and the block it can be merged with
Block(ptr, j) == (ptr \div 2^j) * 2^j
Buddy(ptr, j) == IF (ptr \div 2^j) % 2 = 0 THEN Block(ptr, j) + 2^j ELSE Block(ptr, j) - 2^j

\* the block goes back and is merged with its buddy as long as that is free
heap_dealloc(ptr, c) ==
  LET Merges(j) == Buddy(ptr, j) \in free_list[j]
      top == CHOOSE i \in c..Order : ~Merges(i) /\ \A j \in c..(i - 1) : Merges(j)
  IN  free_list' = [j \in Class |-> CASE j = top            -> free_list[j] \cup {Block(ptr, j)}
                                      [] j \in c..(top - 1) -> free_list[j] \ {Buddy(ptr, j)}
                                      [] OTHER              -> free_list[j]]

-----------------------------------------------------------------------------
(* SyscallDataBuffer *)

ReadWriteArgs == ClassOf(24)  \* u32, u64, u64 in C layout
u8 == ClassOf(1)

Holds(c) == \E i \in c..Order : free_list[i] # {}

\* alloc_common of a block of class c, kept in place
alloc_common(c, place, t) ==
  IF Holds(c)
  THEN /\ \E ptr \in UNION {free_list[i] : i \in Class} :
            heap_alloc(c, ptr) /\ place' = [place EXCEPT ![t] = ptr]
       /\ UNCHANGED panicked
  ELSE /\ panicked' = TRUE
       /\ UNCHANGED <<free_list, place>>

\* alloc_array_uninit::<u8>(len)
AllocChunk(t, len) ==
  /\ pc[t] = "run"
  /\ alloc_common(ClassOf(len), chunk_ptr, t)
  /\ pc' = [pc EXCEPT ![t] = "args"]
  /\ UNCHANGED args

\* alloc(ReadWriteArgs { .. })
AllocArgs(t) ==
  /\ pc[t] = "args"
  /\ alloc_common(ReadWriteArgs, args, t)
  /\ pc' = [pc EXCEPT ![t] = "wait"]
  /\ UNCHANGED chunk_ptr

\* The request is answered.  chunk_ptr is a *mut u8, and dealloc gives the heap the
\* layout of the type pointed to.
DeallocChunk(t) ==
  /\ pc[t] = "wait"
  /\ heap_dealloc(chunk_ptr[t], u8)
  /\ pc' = [pc EXCEPT ![t] = "answered"]
  /\ UNCHANGED <<chunk_ptr, args, panicked>>

DeallocArgs(t) ==
  /\ pc[t] = "answered"
  /\ heap_dealloc(args[t], ReadWriteArgs)
  /\ pc' = [pc EXCEPT ![t] = "run"]
  /\ UNCHANGED <<chunk_ptr, args, panicked>>

Next ==
  /\ ~panicked
  /\ \E t \in Task : \/ \E len \in Len : AllocChunk(t, len)
                     \/ AllocArgs(t) \/ DeallocChunk(t) \/ DeallocArgs(t)

Spec == Init /\ [][Next]_vars

-----------------------------------------------------------------------------
\* The assertion of alloc_common: "syscall data pool is full" is never the case.
\* Stated of a pool large enough for all the calls that can be in flight together,
\* each with its two blocks.
PoolSuffices == ~panicked
=============================================================================
