----------------------------- MODULE ThreadHeap -----------------------------
(***************************************************************************)
(* The memory of threads: PROC_init(), PROC_create_kthread() and kexit()   *)
(* of lib/kproc.c over the heap of lib/kmalloc.c.                          *)
(*                                                                         *)
(* A thread's record is a struct threadinfo_st, but kmalloc() is asked for *)
(* sizeof(kthread), the size of a pointer: one word, rounded to a block of *)
(* two.  The third word of the record, stacksize, is therefore the first   *)
(* word of the header that follows the block, its ptr.  The other fields   *)
(* the code writes lie further, in the data of the following block, which  *)
(* is a stack or the unused end of the heap and longer than a record.      *)
(***************************************************************************)
EXTENDS Heap

CONSTANTS
  StackSize,   (* PROC_STACK_SIZE, in words *)
  MaxThreads   (* bound: threads created *)

ASSUME StackAssumption == StackSize \in Nat /\ StackSize > 40

VARIABLES
  heap,     (* see Heap *)
  setup,    (* PROC_init() has run *)
  threads,  (* the live threads: number |-> [rec, stack] *)
  created,  (* the number of threads created *)
  lost      (* kmalloc() returned NULL, and the code wrote through it *)

vars == <<heap, setup, threads, created, lost>>

RecordSize == 1                   \* sizeof( kthread ), a pointer
StackSizeField(rec) == rec + 2    \* where new_kthread->stacksize is

Running == ~heap.fault /\ ~lost

(* The heap after a store of value at addr, a header's first word or not. *)
Stored(h, addr, value) ==
  IF addr \in DOMAIN h.hdr THEN [h EXCEPT !.hdr[addr].ptr = value] ELSE h

Init ==
  /\ heap = EmptyHeap
  /\ setup = FALSE
  /\ threads = [n \in {} |-> NoBlock]
  /\ created = 0
  /\ lost = FALSE

(* PROC_init() writes the stacksize 0 of the main thread. *)
PROC_init ==
  /\ Running
  /\ ~setup
  /\ LET rec == kmalloc(heap, RecordSize)
     IN  /\ heap' = Stored(rec.heap, StackSizeField(rec.ptr), 0)
         /\ lost' = (rec.ptr = NoBlock)
  /\ setup' = TRUE
  /\ UNCHANGED <<threads, created>>

PROC_create_kthread ==
  /\ Running
  /\ created < MaxThreads
  /\ created' = created + 1
  /\ LET rec   == kmalloc(heap, RecordSize)
         stack == kmalloc(rec.heap, StackSize)
     IN  /\ lost' = (rec.ptr = NoBlock \/ stack.ptr = NoBlock)
         /\ heap' = Stored(stack.heap, StackSizeField(rec.ptr), StackSize)
         /\ threads' = IF lost' THEN threads
                       ELSE Put(threads, created', [rec |-> rec.ptr, stack |-> stack.ptr])
  /\ UNCHANGED setup

kexit(n) ==
  /\ Running
  /\ setup
  /\ n \in DOMAIN threads
  /\ heap' = kfree(kfree(heap, threads[n].stack), threads[n].rec)
  /\ threads' = Drop(threads, n)
  /\ UNCHANGED <<setup, created, lost>>

Next ==
  \/ PROC_init
  \/ PROC_create_kthread
  \/ \E n \in DOMAIN threads : kexit(n)

Spec == Init /\ [][Next]_vars
-----------------------------------------------------------------------------
Apart(a, b) == a + StackSize <= b \/ b + StackSize <= a

(***************************************************************************)
(* However records overrun their blocks, two live threads have different   *)
(* records, and stacks that do not overlap (kproc.c:171, 178).             *)
(***************************************************************************)
StacksApart ==
  \A m, n \in DOMAIN threads :
    m # n => /\ threads[m].rec # threads[n].rec
             /\ Apart(threads[m].stack, threads[n].stack)

(***************************************************************************)
(* What kmalloc.h:45-46 says of kmalloc(): NULL is returned on an error    *)
(* only; there is none here.                                               *)
(***************************************************************************)
RecordAllocated == ~lost
=============================================================================
