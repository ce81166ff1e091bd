-------------------------------- MODULE Heap --------------------------------
(***************************************************************************)
(* The kernel heap of lib/kmalloc.c: a doubly linked list of blocks, each  *)
(* a header followed by its data, in memory obtained from kbrk().          *)
(*                                                                         *)
(* Memory is counted in words of 8 bytes: a header (header_t) is 4 words,  *)
(* ALIGN_SIZE is 2, and addresses are word numbers.  Only headers are      *)
(* kept, as a function from their addresses; data is not.                  *)
(*                                                                         *)
(* The operators map a heap to the heap a function of the code leaves:     *)
(*   hdr   - address |-> header, for the headers a list operation can meet *)
(*   head  - kernel_heap_head                                              *)
(*   brk   - kbrk(0)                                                       *)
(*   fault - the call did not return: a header was written at or above     *)
(*           brk, where no page is mapped, and page_fault_irq() halted the *)
(*           system; or the heap was extended for ever, by blocks whose    *)
(*           size does not fit in its 32 bits and is stored as 0           *)
(***************************************************************************)
EXTENDS Integers, FiniteSets

CONSTANTS
  Start,    (* KHEAP_START, page aligned *)
  PageSize, (* PAGE_SIZE, in words *)
  BinSize,  (* BIN_SIZE, in words, a multiple of PageSize *)
  SizeMax   (* the words in UINT32_MAX bytes: the most that a header's size holds *)

NoBlock == 0       \* the NULL header
HeaderSize == 4
AlignSize == 2
MinBlkSize == HeaderSize + AlignSize

ASSUME HeapAssumption ==
  /\ PageSize \in Nat /\ PageSize > HeaderSize /\ PageSize % AlignSize = 0
  /\ BinSize \in Nat /\ BinSize >= PageSize /\ BinSize % PageSize = 0
  /\ SizeMax \in Nat /\ SizeMax >= BinSize /\ (SizeMax + 1) % BinSize = 0
  /\ Start \in Nat /\ Start > NoBlock /\ Start % PageSize = 0

RoundUp(n, d) == ((n + d - 1) \div d) * d

Header == [ptr : Nat, size : Nat, free : BOOLEAN, next : Nat, prev : Nat]

Header0(b, size, free, next, prev) ==
  [ptr |-> b + HeaderSize, size |-> size, free |-> free,
   next |-> next, prev |-> prev]

EmptyHeap ==
  [hdr |-> [b \in {} |-> Header0(b, 0, TRUE, NoBlock, NoBlock)],
   head |-> NoBlock, brk |-> Start, fault |-> FALSE]

(* The address just after a block. *)
End(h, b) == h.hdr[b].ptr + h.hdr[b].size

(* f with the value of x set to y, x in its domain or not. *)
Put(f, x, y) == [z \in DOMAIN f \cup {x} |-> IF z = x THEN y ELSE f[z]]
Drop(f, x) == [z \in DOMAIN f \ {x} |-> f[z]]

-----------------------------------------------------------------------------
(* Mutated forms of the operators below. *)
\* the header of the absorbed block is not counted
EnlargedWithoutHeader(h, b1, b2) ==
  [h.hdr EXCEPT ![b1].size = @ + h.hdr[b2].size, ![b1].next = h.hdr[b2].next]

-----------------------------------------------------------------------------
(* merge_blocks(): b2 is absorbed by b1 when both are free and adjacent.   *)
Enlarged(h, b1, b2) ==
  [h.hdr EXCEPT ![b1].size = @ + h.hdr[b2].size + HeaderSize,
                ![b1].next = h.hdr[b2].next]

\* mutated: the block after the merged pair keeps its old prev link
AbsorbOneWay(h, b1, b2) == [h EXCEPT !.hdr = Drop(Enlarged(h, b1, b2), b2)]

Absorb(h, b1, b2) ==
  LET nxt == h.hdr[b2].next
      f   == Drop(Enlarged(h, b1, b2), b2)
  IN  [h EXCEPT !.hdr = IF nxt = NoBlock THEN f ELSE [f EXCEPT ![nxt].prev = b1]]

\* mutated: blocks in use are merged too
MergeAny(h, b1, b2) ==
  IF b1 # NoBlock /\ b2 # NoBlock /\ End(h, b1) = b2 THEN Absorb(h, b1, b2) ELSE h

merge_blocks(h, b1, b2) ==
  IF /\ b1 # NoBlock /\ b2 # NoBlock
     /\ h.hdr[b1].free /\ h.hdr[b2].free
     /\ End(h, b1) = b2
  THEN Absorb(h, b1, b2) ELSE h

(***************************************************************************)
(* split_block(): b keeps size words; the rest becomes a free block, which *)
(* is merged with the block after it.  b takes the new block as its next   *)
(* only after that merge.                                                  *)
(***************************************************************************)
SplitOff(h, b, size) ==
  LET new == h.hdr[b].ptr + size
      nxt == h.hdr[b].next
      rest == Header0(new, h.hdr[b].size - size - HeaderSize, TRUE, nxt, b)
      linked == [h EXCEPT !.hdr = Put(IF nxt = NoBlock THEN @
                                      ELSE [@ EXCEPT ![nxt].prev = new], new, rest)]
      merged == merge_blocks(linked, new, nxt)
  IN  IF new + HeaderSize > h.brk
      THEN [h EXCEPT !.fault = TRUE]
      ELSE [merged EXCEPT !.hdr[b].size = size, !.hdr[b].next = new]

split_block(h, b, size) ==
  IF h.hdr[b].size < size + MinBlkSize THEN h ELSE SplitOff(h, b, size)

(***************************************************************************)
(* kbrk(): the break moves by whole pages, the remainder is ignored.  The  *)
(* new pages are allocated on their first use.                             *)
(***************************************************************************)
kbrk(h, increment) ==
  [h EXCEPT !.brk = @ + (increment \div PageSize) * PageSize]

(***************************************************************************)
(* extend_mem(): a new block at the old break, for a multiple of BIN_SIZE  *)
(* words, split to min_blk_size.  The block is given total_size words of   *)
(* data after a header that kbrk() did not make room for.  The break is    *)
(* always aligned, so the alignment step of the code does nothing.  A      *)
(* total of SizeMax + 1 words is stored as size 0: get_empty_mem() then    *)
(* finds the new block too small and extends the heap again, for ever.     *)
(***************************************************************************)
\* mutated: the header is taken out of the block, so that bins touch
ExtendTouching(h, min_blk_size, prev, next) ==
  LET total == RoundUp(min_blk_size, BinSize)
      b     == h.brk
      grown == [kbrk(h, total) EXCEPT !.fault = @ \/ total > SizeMax]
      added == [grown EXCEPT !.hdr = Put(@, b, Header0(b, total - HeaderSize, TRUE, next, prev))]
  IN  split_block(added, b, min_blk_size)

extend_mem(h, min_blk_size, prev, next) ==
  LET total == RoundUp(min_blk_size, BinSize)
      b     == h.brk
      grown == [kbrk(h, total + HeaderSize) EXCEPT !.fault = @ \/ total > SizeMax]
      added == [grown EXCEPT !.hdr = Put(@, b, Header0(b, total, TRUE, next, prev))]
  IN  split_block(added, b, min_blk_size)

-----------------------------------------------------------------------------
(* The blocks in list order, from the head along next. *)
ListLength(h) == Cardinality(DOMAIN h.hdr)

Following(h, b) == IF b = NoBlock THEN NoBlock ELSE h.hdr[b].next

Chain(h) ==
  LET at[i \in 1..ListLength(h)] ==
        IF i = 1 THEN h.head ELSE Following(h, at[i - 1])
  IN  at

Last(h) == CHOOSE b \in DOMAIN h.hdr : h.hdr[b].next = NoBlock

(* The first block of the list among good, or NoBlock. *)
FirstBlock(h, good) ==
  LET chain == Chain(h)
      hits  == {i \in DOMAIN chain : chain[i] # NoBlock /\ chain[i] \in good}
  IN  IF hits = {} THEN NoBlock
      ELSE chain[CHOOSE i \in hits : \A j \in hits : i <= j]

\* mutated: blocks in use are handed out too
ExactAny(h, size) == FirstBlock(h, {b \in DOMAIN h.hdr : h.hdr[b].size = size})

Exact(h, size) ==
  FirstBlock(h, {b \in DOMAIN h.hdr : h.hdr[b].free /\ h.hdr[b].size = size})

(***************************************************************************)
(* get_empty_mem(): the first free block of exactly this size; else the    *)
(* last block of the list when it is free and larger; else a new block at  *)
(* the end.  An oversized block before the end (b_alt) is remembered but   *)
(* never used, because extend_mem() does not fail.                         *)
(***************************************************************************)
WithHead(h) ==
  IF h.head # NoBlock THEN h
  ELSE [extend_mem(h, BinSize, NoBlock, NoBlock) EXCEPT !.head = h.brk]

Appended(h, size) ==
  LET last == Last(h)
      grown == extend_mem(h, size, last, NoBlock)
  IN  [grown EXCEPT !.hdr[last].next = h.brk]

Found(h, size) ==
  LET exact == Exact(h, size)
      last  == Last(h)
  IN  IF exact # NoBlock THEN exact
      ELSE IF h.hdr[last].free /\ h.hdr[last].size > size THEN last
      ELSE h.brk

(* A block that starts at the break is yet to be made. *)
TakeBlock(h, b, size) ==
  LET ready == IF b = h.brk THEN Appended(h, size) ELSE h
  IN  [heap |-> [split_block(ready, b, size) EXCEPT !.hdr[b].free = FALSE], block |-> b]

EmptyMemIn(h, size) == TakeBlock(h, Found(h, size), size)

get_empty_mem(h, size) == EmptyMemIn(WithHead(h), size)

\* mutated: the size is not rounded up
Unrounded(size) == IF size < 1 THEN 1 ELSE size

(* kmalloc(): size 0 counts as 1, and sizes are rounded up to ALIGN_SIZE.  *)
Rounded(size) == RoundUp(IF size < 1 THEN 1 ELSE size, AlignSize)

WithPointer(got) == [heap |-> got.heap, ptr |-> got.heap.hdr[got.block].ptr]

(* Refused requests are answered with NULL, and errno. *)
TooBig(size) == size > SizeMax \/ Rounded(size) > SizeMax

NoMemory(h) == [heap |-> h, ptr |-> NoBlock]

kmalloc(h, size) ==
  IF TooBig(size) THEN NoMemory(h) ELSE WithPointer(get_empty_mem(h, Rounded(size)))

(* kcalloc() is kmalloc() of the rounded product, followed by a memset().  *)
kcalloc(h, nmemb, size) ==
  LET total == RoundUp(nmemb * size, AlignSize)
  IN  IF nmemb > SizeMax \/ size > SizeMax \/ total > SizeMax THEN NoMemory(h)
      ELSE kmalloc(h, total)

(***************************************************************************)
(* kfree(): NULL is ignored, a pointer outside the heap or in the last     *)
(* MIN_BLK_SIZE bytes below the break is refused, and otherwise the block  *)
(* that contains the pointer is freed and merged with its neighbours.      *)
(***************************************************************************)
Refused(h, ptr) == ptr < h.head \/ h.brk - MinBlkSize < ptr

\* mutated: the freed block is merged with the next block only
FreeMergingRight(h, ptr) ==
  LET b == FirstBlock(h, {c \in DOMAIN h.hdr : c <= ptr /\ ptr < End(h, c)})
      freed == [h EXCEPT !.hdr[b].free = TRUE]
  IN  IF ptr = NoBlock \/ Refused(h, ptr) \/ b = NoBlock THEN h
      ELSE merge_blocks(freed, b, h.hdr[b].next)

kfree(h, ptr) ==
  LET b == FirstBlock(h, {c \in DOMAIN h.hdr : c <= ptr /\ ptr < End(h, c)})
      freed == [h EXCEPT !.hdr[b].free = TRUE]
      right == merge_blocks(freed, b, h.hdr[b].next)
  IN  IF ptr = NoBlock \/ Refused(h, ptr) \/ b = NoBlock THEN h
      ELSE merge_blocks(right, h.hdr[b].prev, b)

(***************************************************************************)
(* krealloc() of a block in use to a size that is not 0: shrink in place;  *)
(* else absorb the next block; else absorb the block into the previous     *)
(* one, allocate elsewhere, copy, and free the old pointer.  The result is *)
(* cut to size, which is not rounded.  When the size is too big, it        *)
(* returns NULL and leaves the block alone.                                *)
(***************************************************************************)
Resized(h, ptr, size) ==
  LET b     == ptr - HeaderSize
      total == RoundUp(size, AlignSize)
      right == merge_blocks([h EXCEPT !.hdr[b].free = TRUE], b, h.hdr[b].next)
      inUse == [right EXCEPT !.hdr[b].free = FALSE]
      both  == merge_blocks(right, right.hdr[b].prev, b)
      kept  == IF b \in DOMAIN both.hdr THEN inUse ELSE both
      moved == kmalloc(kept, total)
  IN  IF total < h.hdr[b].size
      THEN [heap |-> split_block(h, b, total), ptr |-> ptr]
      ELSE IF right.hdr[b].size >= total
      THEN [heap |-> split_block(inUse, b, size), ptr |-> inUse.hdr[b].ptr]
      ELSE IF moved.heap.fault
      THEN moved
      ELSE LET freed == kfree(moved.heap, ptr)
           IN  [heap |-> split_block(freed, moved.ptr - HeaderSize, size),
                ptr |-> moved.ptr]

krealloc(h, ptr, size) ==
  IF TooBig(size) THEN NoMemory(h) ELSE Resized(h, ptr, size)
=============================================================================
