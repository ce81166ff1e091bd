------------------------------ MODULE Kmalloc ------------------------------
(***************************************************************************)
(* The callers of the kernel heap: they allocate, reallocate and free, and *)
(* pass to kfree() and krealloc() only pointers they own.  A caller may    *)
(* write anywhere in the size words it asked for, so the model stops when  *)
(* an owned block and a header overlap (~Intact) or an owned block is free *)
(* (~NoneShared): what the list and the blocks hold from there on is       *)
(* whatever the callers write.                                             *)
(***************************************************************************)
EXTENDS Heap

CONSTANTS
  Sizes,    (* the sizes asked of kmalloc() and of kcalloc() *)
  Counts,   (* the numbers of elements asked of kcalloc() *)
  ReSizes,  (* the sizes asked of krealloc() *)
  MaxBrk    (* bound: no extension once the break has reached it *)

ASSUME SizesAssumption == Sizes \cup Counts \subseteq Nat /\ ReSizes \subseteq Nat

VARIABLES
  heap,     (* see Heap *)
  owned,    (* the blocks callers hold: pointer |-> size asked for *)
  out,      (* auxiliary: pointers returned to callers and not freed *)
  resized   (* auxiliary: krealloc() has been called *)

vars == <<heap, owned, out, resized>>

HeaderWords(b) == b .. (b + HeaderSize - 1)

(* No header lies in another header or in memory that a caller may write. *)
Intact(h) ==
  \A b \in DOMAIN h.hdr :
    /\ \A a \in DOMAIN h.hdr \ {b} : HeaderWords(a) \cap HeaderWords(b) = {}
    /\ \A p \in DOMAIN owned : (p .. (p + owned[p] - 1)) \cap HeaderWords(b) = {}

(* Every block a caller holds is in use: none can be handed out again. *)
NoneShared(h) ==
  \A p \in DOMAIN owned :
    p - HeaderSize \in DOMAIN h.hdr /\ ~h.hdr[p - HeaderSize].free

Running ==
  ~heap.fault /\ Intact(heap) /\ NoneShared(heap) /\ heap.brk <= MaxBrk

(* A caller is answered: it keeps `rest`, of `left` pointers, besides the   *)
(* block it got.  A refused call gives NULL and changes nothing; a call     *)
(* that does not return gives nothing.                                      *)
Give(got, size, rest, left) ==
  /\ heap' = got.heap
  /\ IF got.ptr = NoBlock
     THEN UNCHANGED <<owned, out>>
     ELSE /\ owned' = IF got.heap.fault THEN rest ELSE Put(rest, got.ptr, size)
          /\ out' = IF got.heap.fault THEN left ELSE left + 1

Init ==
  heap = EmptyHeap /\ owned = [p \in {} |-> 0] /\ out = 0 /\ resized = FALSE

Malloc(size) ==
  /\ Running
  /\ Give(kmalloc(heap, size), size, owned, out)
  /\ UNCHANGED resized

Calloc(nmemb, size) ==
  /\ Running
  /\ Give(kcalloc(heap, nmemb, size), nmemb * size, owned, out)
  /\ UNCHANGED resized

Free(ptr) ==
  /\ Running
  /\ ptr \in DOMAIN owned
  /\ heap' = kfree(heap, ptr)
  /\ owned' = Drop(owned, ptr)
  /\ out' = out - 1
  /\ UNCHANGED resized

(* krealloc(ptr, 0) is kfree(ptr); of a NULL pointer it is kmalloc(). *)
Realloc(ptr, size) ==
  /\ Running
  /\ ptr \in DOMAIN owned
  /\ size # 0
  /\ Give(krealloc(heap, ptr, size), size, Drop(owned, ptr), out - 1)
  /\ resized' = TRUE

Next ==
  \/ \E n \in Sizes : Malloc(n)
  \/ \E k \in Counts, n \in Sizes : Calloc(k, n)
  \/ \E p \in DOMAIN owned : Free(p)
  \/ \E p \in DOMAIN owned, n \in ReSizes : Realloc(p, n)

Spec == Init /\ [][Next]_vars
-----------------------------------------------------------------------------
TypeOK ==
  /\ \A b \in DOMAIN heap.hdr : b \in Nat /\ heap.hdr[b] \in Header
  /\ heap.head \in Nat /\ heap.brk \in Nat /\ heap.fault \in BOOLEAN
  /\ \A p \in DOMAIN owned : p \in Nat /\ owned[p] \in Nat
  /\ out \in Nat /\ resized \in BOOLEAN

(***************************************************************************)
(* The list is whole: from the head, next visits every block once, in the  *)
(* order of addresses, and prev is its inverse (kmalloc.c:73-140).  (With  *)
(* the types.)                                                             *)
(***************************************************************************)
ListWhole ==
  /\ TypeOK
  /\ ~heap.fault =>
    LET c == Chain(heap)
        n == ListLength(heap)
        prevOf(i) == IF i = 1 THEN NoBlock ELSE c[i - 1]
    IN  /\ {c[i] : i \in 1..n} = DOMAIN heap.hdr
        /\ \A i \in 1..n : heap.hdr[c[i]].prev = prevOf(i)
        /\ \A i \in 2..n : c[i - 1] < c[i]

(***************************************************************************)
(* No word is lost and none is in two blocks: a block ends where the next  *)
(* begins, or, at the end of a bin, one header further, the header kbrk()  *)
(* did not make room for (kmalloc.c:107-179, mmu_driver.c:945-959).        *)
(***************************************************************************)
BlocksTile ==
  ~heap.fault =>
    \A b \in DOMAIN heap.hdr :
      LET next == IF heap.hdr[b].next = NoBlock THEN heap.brk ELSE heap.hdr[b].next
      IN  \/ End(heap, b) = next
          \/ End(heap, b) = next + HeaderSize /\ (next - Start) % PageSize = 0

(***************************************************************************)
(* Free memory is coalesced: two blocks that touch are never both free,    *)
(* as long as no block of a caller is (kmalloc.c:117-130, 448-452).        *)
(***************************************************************************)
Coalesced ==
  ~heap.fault /\ NoneShared(heap) =>
    \A b, c \in DOMAIN heap.hdr :
      End(heap, b) = c => ~(heap.hdr[b].free /\ heap.hdr[c].free)

(***************************************************************************)
(* What callers own is theirs: each pointer handed out and not yet freed   *)
(* leads to a block in use that is large enough (kmalloc.c:259-293), as    *)
(* long as krealloc() is not called.                                       *)
(***************************************************************************)
BlockInUse(p) ==
  LET b == p - HeaderSize
  IN  b \in DOMAIN heap.hdr /\ ~heap.hdr[b].free /\ heap.hdr[b].size >= owned[p]

OwnedInUse == ~resized => \A p \in DOMAIN owned : BlockInUse(p)

(***************************************************************************)
(* kmalloc(), kcalloc() and kfree() implement Allocator until krealloc()   *)
(* is called: the intervals held by callers, as the headers record them,   *)
(* never overlap, and no pointer is handed out twice (kmalloc.c:73-293,    *)
(* 408-458).                                                               *)
(***************************************************************************)
Held ==
  {[start |-> p, size |-> IF p - HeaderSize \in DOMAIN heap.hdr
                          THEN heap.hdr[p - HeaderSize].size ELSE 0] :
     p \in DOMAIN owned}

Requests == Sizes \cup {k * n : k \in Counts, n \in Sizes}

Abstract == INSTANCE Allocator WITH held <- Held, Sizes <- Requests

ImplementsAllocator ==
  Abstract!AInit /\ [][resized' \/ Abstract!ANext]_(Abstract!avars)

(***************************************************************************)
(* Sizes are 32 bits wide and merge_blocks() adds them without a check.    *)
(* No size ever overflows, whatever is freed and merged: blocks that touch *)
(* lie in one bin, and together they fit (kmalloc.h:31, kmalloc.c:90).     *)
(***************************************************************************)
AllTouch(b, c) ==
  \A d \in DOMAIN heap.hdr : b <= d /\ d < c => End(heap, d) = heap.hdr[d].next

SizesFit ==
  ~heap.fault =>
    \A b, c \in DOMAIN heap.hdr :
      b <= c /\ AllTouch(b, c) => End(heap, c) - heap.hdr[b].ptr <= SizeMax

(***************************************************************************)
(* What kmalloc.h:45 says of kmalloc(): pointers are aligned to 16 bytes,  *)
(* and stay so however blocks were split and merged before, as long as     *)
(* krealloc() is not called (kmalloc.c:107-140, 259-268).                  *)
(***************************************************************************)
PointersAligned == ~resized => \A p \in DOMAIN owned : p % AlignSize = 0

(***************************************************************************)
(* What kmalloc.h:93-94 says of krealloc(): it returns a block that holds  *)
(* the new size.                                                           *)
(***************************************************************************)
ReallocReturnsBlock == \A p \in DOMAIN owned : BlockInUse(p)
=============================================================================
