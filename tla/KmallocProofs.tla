--------------------------- MODULE KmallocProofs ----------------------------
(***************************************************************************)
(* Theorems about the kernel heap (Heap) and its callers (Kmalloc), for    *)
(* every size of page and bin and all sizes asked for.                     *)
(***************************************************************************)
EXTENDS Kmalloc, Induction, FiniteSetTheorems

-----------------------------------------------------------------------------
(***************************************************************************)
(* A heap by the fields of its headers, without a walk: since the list is  *)
(* in the order of addresses, next of a block is the least header above it *)
(* and prev the greatest below it.                                         *)
(***************************************************************************)
PtrIn(f, b) == f[b].ptr
SizeIn(f, b) == f[b].size
NextIn(f, b) == f[b].next
PrevIn(f, b) == f[b].prev
FreeIn(f) == {d \in DOMAIN f : f[d].free}

Hdr(h) == h.hdr
Blocks(h) == DOMAIN h.hdr
Size(h, b) == SizeIn(h.hdr, b)
NextOf(h, b) == NextIn(h.hdr, b)
PrevOf(h, b) == PrevIn(h.hdr, b)
FreeOnes(h) == FreeIn(h.hdr)
UsedOnes(h) == Blocks(h) \ FreeOnes(h)
EndOf(h, b) == b + HeaderSize + Size(h, b)

Headers(D) == [D -> Header]

Heaps == [hdr : UNION {Headers(D) : D \in SUBSET Nat},
          head : Nat, brk : Nat, fault : BOOLEAN]

HeapType(h) ==
  /\ h \in Heaps
  /\ \A b \in Blocks(h) : PtrIn(h.hdr, b) = b + HeaderSize

Above(D, b, c) ==
  \/ c = NoBlock /\ \A d \in D : d <= b
  \/ c \in D /\ b < c /\ \A d \in D : d <= b \/ c <= d

Below(D, b, c) ==
  \/ c = NoBlock /\ \A d \in D : b <= d
  \/ c \in D /\ c < b /\ \A d \in D : d <= c \/ b <= d

Headed(h) ==
  \/ h.head = NoBlock /\ Blocks(h) = {}
  \/ h.head \in Blocks(h) /\ \A d \in Blocks(h) : h.head <= d

(* Where a block has to end: at the next one or at the break.              *)
Limit(h, b) == IF NextOf(h, b) = NoBlock THEN h.brk ELSE NextOf(h, b)

Placed(h, b) ==
  /\ Start <= b /\ b + HeaderSize <= h.brk /\ Size(h, b) >= 1
  /\ Above(Blocks(h), b, NextOf(h, b)) /\ Below(Blocks(h), b, PrevOf(h, b))
  /\ \/ EndOf(h, b) = Limit(h, b)
     \/ EndOf(h, b) = Limit(h, b) + HeaderSize /\ Limit(h, b) % PageSize = 0

(* Blocks that do not end where the next one begins: the last of each bin. *)
Over(h) == {b \in Blocks(h) : EndOf(h, b) # NextOf(h, b)}

(* Blocks in one bin fit in the size of one header, merged or not.         *)
FitsPair(h, b, c) ==
  EndOf(h, c) <= b + HeaderSize + SizeMax \/ \E d \in Over(h) : b <= d /\ d < c

Fits(h) ==
  /\ \A b \in Blocks(h) : NextOf(h, b) = NoBlock => EndOf(h, b) = h.brk + HeaderSize
  /\ ~h.fault => \A b, c \in Blocks(h) : b <= c => FitsPair(h, b, c)

Good(h) ==
  /\ HeapType(h) /\ Headed(h) /\ Fits(h)
  /\ IsFiniteSet(Blocks(h))
  /\ Start <= h.brk /\ h.brk % PageSize = 0
  /\ \A b \in Blocks(h) : Placed(h, b)

Apart(h) ==
  \A b \in FreeOnes(h) : NextOf(h, b) \in FreeOnes(h) => EndOf(h, b) # NextOf(h, b)

Even(h) ==
  \A b \in Blocks(h) : b % AlignSize = 0 /\ Size(h, b) % AlignSize = 0
-----------------------------------------------------------------------------
(***************************************************************************)
(* One assignment to a field of a header.                                  *)
(***************************************************************************)
SetSize(f, b, x) == [f EXCEPT ![b].size = x]
SetNext(f, b, x) == [f EXCEPT ![b].next = x]
SetPrev(f, b, x) == [f EXCEPT ![b].prev = x]
SetFree(f, b, x) == [f EXCEPT ![b].free = x]

SamePtr(D, f, g) == \A d \in D : PtrIn(g, d) = PtrIn(f, d)
SameSize(D, f, g) == \A d \in D : SizeIn(g, d) = SizeIn(f, d)
SameNext(D, f, g) == \A d \in D : NextIn(g, d) = NextIn(f, d)
SamePrev(D, f, g) == \A d \in D : PrevIn(g, d) = PrevIn(f, d)

(* A size assigned changes that size and nothing else.                     *)
LEMMA SizeSet ==
  ASSUME NEW D, NEW f \in Headers(D), NEW b \in D, NEW x \in Nat
  PROVE  LET g == SetSize(f, b, x) IN
         /\ g \in Headers(D) /\ FreeIn(g) = FreeIn(f)
         /\ SamePtr(D, f, g) /\ SameNext(D, f, g) /\ SamePrev(D, f, g)
         /\ \A d \in D : SizeIn(g, d) = IF d = b THEN x ELSE SizeIn(f, d)
<1>0. PICK g : g = [f EXCEPT ![b].size = x]
  OBVIOUS
<1>1. (\A d \in D : f[d] \in Header) /\ DOMAIN f = D
  BY DEF Headers
<1>2. \A d \in D : g[d] = IF d = b THEN [f[b] EXCEPT !.size = x] ELSE f[d]
  BY <1>0, <1>1
<1>3. [f[b] EXCEPT !.size = x] \in Header
  BY <1>1 DEF Header
<1>4. \A d \in D : /\ g[d].ptr = f[d].ptr /\ g[d].next = f[d].next /\ g[d].prev = f[d].prev
                   /\ g[d].free = f[d].free
  BY <1>1, <1>2 DEF Header
<1>5. FreeIn(g) = FreeIn(f)
  BY <1>0, <1>4 DEF FreeIn
<1>6. g = SetSize(f, b, x)
  BY <1>0 DEF SetSize
<1>7. g \in Headers(D)
  BY <1>0, <1>1, <1>3 DEF Headers
<1>8. \A d \in D : g[d].size = IF d = b THEN x ELSE f[d].size
  BY <1>1, <1>2 DEF Header
<1> QED BY <1>4, <1>5, <1>6, <1>7, <1>8
        DEF SamePtr, SameNext, SamePrev, PtrIn, SizeIn, NextIn, PrevIn

(* A next link assigned changes that link and nothing else.                *)
LEMMA NextSet ==
  ASSUME NEW D, NEW f \in Headers(D), NEW b \in D, NEW x \in Nat
  PROVE  LET g == SetNext(f, b, x) IN
         /\ g \in Headers(D) /\ FreeIn(g) = FreeIn(f)
         /\ SamePtr(D, f, g) /\ SameSize(D, f, g) /\ SamePrev(D, f, g)
         /\ \A d \in D : NextIn(g, d) = IF d = b THEN x ELSE NextIn(f, d)
<1>0. PICK g : g = [f EXCEPT ![b].next = x]
  OBVIOUS
<1>1. (\A d \in D : f[d] \in Header) /\ DOMAIN f = D
  BY DEF Headers
<1>2. \A d \in D : g[d] = IF d = b THEN [f[b] EXCEPT !.next = x] ELSE f[d]
  BY <1>0, <1>1
<1>3. [f[b] EXCEPT !.next = x] \in Header
  BY <1>1 DEF Header
<1>4. \A d \in D : /\ g[d].ptr = f[d].ptr /\ g[d].size = f[d].size /\ g[d].prev = f[d].prev
                   /\ g[d].free = f[d].free
  BY <1>1, <1>2 DEF Header
<1>5. FreeIn(g) = FreeIn(f)
  BY <1>0, <1>4 DEF FreeIn
<1>6. g = SetNext(f, b, x)
  BY <1>0 DEF SetNext
<1>7. g \in Headers(D)
  BY <1>0, <1>1, <1>3 DEF Headers
<1>8. \A d \in D : g[d].next = IF d = b THEN x ELSE f[d].next
  BY <1>1, <1>2 DEF Header
<1> QED BY <1>4, <1>5, <1>6, <1>7, <1>8
        DEF SamePtr, SameSize, SamePrev, PtrIn, SizeIn, NextIn, PrevIn

(* A prev link assigned changes that link and nothing else.                *)
LEMMA PrevSet ==
  ASSUME NEW D, NEW f \in Headers(D), NEW b \in D, NEW x \in Nat
  PROVE  LET g == SetPrev(f, b, x) IN
         /\ g \in Headers(D) /\ FreeIn(g) = FreeIn(f)
         /\ SamePtr(D, f, g) /\ SameSize(D, f, g) /\ SameNext(D, f, g)
         /\ \A d \in D : PrevIn(g, d) = IF d = b THEN x ELSE PrevIn(f, d)
<1>0. PICK g : g = [f EXCEPT ![b].prev = x]
  OBVIOUS
<1>1. (\A d \in D : f[d] \in Header) /\ DOMAIN f = D
  BY DEF Headers
<1>2. \A d \in D : g[d] = IF d = b THEN [f[b] EXCEPT !.prev = x] ELSE f[d]
  BY <1>0, <1>1
<1>3. [f[b] EXCEPT !.prev = x] \in Header
  BY <1>1 DEF Header
<1>4. \A d \in D : /\ g[d].ptr = f[d].ptr /\ g[d].size = f[d].size /\ g[d].next = f[d].next
                   /\ g[d].free = f[d].free
  BY <1>1, <1>2 DEF Header
<1>5. FreeIn(g) = FreeIn(f)
  BY <1>0, <1>4 DEF FreeIn
<1>6. g = SetPrev(f, b, x)
  BY <1>0 DEF SetPrev
<1>7. g \in Headers(D)
  BY <1>0, <1>1, <1>3 DEF Headers
<1>8. \A d \in D : g[d].prev = IF d = b THEN x ELSE f[d].prev
  BY <1>1, <1>2 DEF Header
<1> QED BY <1>4, <1>5, <1>6, <1>7, <1>8
        DEF SamePtr, SameSize, SameNext, PtrIn, SizeIn, NextIn, PrevIn

(* A free mark assigned changes that mark and nothing else.                *)
LEMMA FreeSet ==
  ASSUME NEW D, NEW f \in Headers(D), NEW b \in D, NEW x \in BOOLEAN
  PROVE  LET g == SetFree(f, b, x) IN
         /\ g \in Headers(D) /\ SamePtr(D, f, g) /\ SameSize(D, f, g)
         /\ SameNext(D, f, g) /\ SamePrev(D, f, g)
         /\ FreeIn(g) = IF x THEN FreeIn(f) \cup {b} ELSE FreeIn(f) \ {b}
<1>0. PICK g : g = [f EXCEPT ![b].free = x]
  OBVIOUS
<1>1. (\A d \in D : f[d] \in Header) /\ DOMAIN f = D
  BY DEF Headers
<1>10. PICK y : y = [f[b] EXCEPT !.free = x]
  OBVIOUS
<1>2. g[b] = y /\ \A d \in D : d # b => g[d] = f[d]
  BY <1>0, <1>1, <1>10
<1>3. y \in Header
  BY <1>1, <1>10 DEF Header
<1>4. \A d \in D : /\ g[d].ptr = f[d].ptr /\ g[d].size = f[d].size /\ g[d].prev = f[d].prev
                   /\ g[d].next = f[d].next
  BY <1>1, <1>2, <1>10 DEF Header
<1>5. (x => y.free) /\ (~x => ~y.free)
  BY <1>1, <1>10 DEF Header
<1>6. DOMAIN g = D /\ DOMAIN f = D
  BY <1>0, <1>1
<1>7. FreeIn(g) = IF x THEN FreeIn(f) \cup {b} ELSE FreeIn(f) \ {b}
  <2>1. \A d : d \in FreeIn(g) <=> d \in DOMAIN g /\ g[d].free
    BY DEF FreeIn
  <2>2. \A d : d \in FreeIn(f) <=> d \in DOMAIN f /\ f[d].free
    BY DEF FreeIn
  <2>3. CASE x
    <3>0. g[b].free /\ \A d \in D : d # b => g[d] = f[d]
      BY <1>2, <1>5, <2>3
    <3>1. \A d : d \in FreeIn(g) <=> d \in FreeIn(f) \/ d = b
      BY <1>6, <2>1, <2>2, <3>0, Zenon
    <3> QED BY <2>3, <3>1
  <2>4. CASE ~x
    <3>0. ~g[b].free /\ \A d \in D : d # b => g[d] = f[d]
      BY <1>2, <1>5, <2>4
    <3>1. \A d : d \in FreeIn(g) <=> d \in FreeIn(f) /\ d # b
      BY <1>6, <2>1, <2>2, <3>0, Zenon
    <3> QED BY <2>4, <3>1
  <2> QED BY <2>3, <2>4
<1>8. g = SetFree(f, b, x)
  BY <1>0 DEF SetFree
<1>9. g \in Headers(D)
  BY <1>0, <1>1, <1>2, <1>3 DEF Headers
<1> QED BY <1>4, <1>7, <1>8, <1>9
        DEF SamePtr, SameSize, SameNext, SamePrev, PtrIn, SizeIn, NextIn, PrevIn

(* A header dropped, and one put in.                                       *)
LEMMA Dropped ==
  ASSUME NEW D, NEW f \in Headers(D), NEW b
  PROVE  LET g == Drop(f, b)
             E == D \ {b}
         IN  /\ g \in Headers(E) /\ FreeIn(g) = FreeIn(f) \ {b}
             /\ SamePtr(E, f, g) /\ SameSize(E, f, g)
             /\ SameNext(E, f, g) /\ SamePrev(E, f, g)
<1>0. PICK g : g = Drop(f, b)
  OBVIOUS
<1>1. g \in [D \ {b} -> Header] /\ DOMAIN g = D \ {b} /\ \A d \in D \ {b} : g[d] = f[d]
  BY <1>0 DEF Drop, Headers
<1>2. DOMAIN f = D
  BY DEF Headers
<1>3. FreeIn(g) = FreeIn(f) \ {b}
  BY <1>1, <1>2, Zenon DEF FreeIn
<1> QED BY <1>0, <1>1, <1>3
        DEF SamePtr, SameSize, SameNext, SamePrev, PtrIn, SizeIn, NextIn, PrevIn, Headers

FreeHeader(b, size, next, prev) == Header0(b, size, TRUE, next, prev)

Plus(D, b) == D \cup {b}

(* A free header put in at a new address.                                  *)
LEMMA PutIn ==
  ASSUME NEW D, NEW f \in Headers(D), NEW b \in Nat, b \notin D, NEW size \in Nat,
         NEW next \in Nat, NEW prev \in Nat
  PROVE  LET g == Put(f, b, FreeHeader(b, size, next, prev))
         IN  /\ g \in Headers(Plus(D, b)) /\ FreeIn(g) = FreeIn(f) \cup {b}
             /\ SamePtr(D, f, g) /\ SameSize(D, f, g)
             /\ SameNext(D, f, g) /\ SamePrev(D, f, g)
             /\ PtrIn(g, b) = b + HeaderSize /\ SizeIn(g, b) = size
             /\ NextIn(g, b) = next /\ PrevIn(g, b) = prev
<1>0. PICK y : y = FreeHeader(b, size, next, prev)
  OBVIOUS
<1>1. /\ y \in Header /\ y.ptr = b + HeaderSize /\ y.size = size
      /\ y.next = next /\ y.prev = prev
  BY <1>0 DEF FreeHeader, Header0, Header, HeaderSize
<1>2. y.free
  BY <1>0 DEF FreeHeader, Header0
<1>3. PICK g : g = Put(f, b, y)
  OBVIOUS
<1>4. /\ g \in [Plus(D, b) -> Header] /\ DOMAIN g = Plus(D, b) /\ DOMAIN f = D
      /\ (\A d \in D : g[d] = f[d]) /\ g[b] = y
  BY <1>1, <1>3 DEF Put, Headers, Plus
<1>5. FreeIn(g) = FreeIn(f) \cup {b}
  <2>1. \A d : d \in FreeIn(g) <=> d \in DOMAIN g /\ g[d].free
    BY DEF FreeIn
  <2>2. \A d : d \in FreeIn(f) <=> d \in DOMAIN f /\ f[d].free
    BY DEF FreeIn
  <2>3. \A d : d \in FreeIn(g) <=> d \in FreeIn(f) \/ d = b
    BY <1>2, <1>4, <2>1, <2>2, Zenon DEF Plus
  <2> QED BY <2>3
<1> QED BY <1>0, <1>1, <1>3, <1>4, <1>5
        DEF SamePtr, SameSize, SameNext, SamePrev, PtrIn, SizeIn, NextIn, PrevIn, Headers

-----------------------------------------------------------------------------
(* The fields of a heap have their types.                                  *)
LEMMA HeapFields ==
  ASSUME NEW h, HeapType(h)
  PROVE  /\ Blocks(h) \in SUBSET Nat /\ FreeOnes(h) \subseteq Blocks(h)
         /\ Hdr(h) \in Headers(Blocks(h))
         /\ h.head \in Nat /\ h.brk \in Nat /\ h.fault \in BOOLEAN
         /\ \A b \in Blocks(h) :
              b \in Nat /\ Size(h, b) \in Nat /\ NextOf(h, b) \in Nat /\ PrevOf(h, b) \in Nat
<1>1. h \in Heaps
  BY DEF HeapType
<1>2. PICK D \in SUBSET Nat : h.hdr \in Headers(D)
  BY <1>1 DEF Heaps
<1>3. (\A b \in D : h.hdr[b] \in Header) /\ DOMAIN h.hdr = D
  BY <1>2 DEF Headers
<1> QED BY <1>1, <1>2, <1>3 DEF Heaps, Blocks, FreeOnes, FreeIn, Size, NextOf, PrevOf,
       SizeIn, NextIn, PrevIn, Header, Hdr

(* A heap with other headers.                                              *)
WithHdr(h, f) == [h EXCEPT !.hdr = f]

(* The fields of a heap with other headers, read off those headers.        *)
LEMMA WithHeaders ==
  ASSUME NEW h, HeapType(h), NEW D \in SUBSET Nat, NEW f \in Headers(D),
         \A d \in D : PtrIn(f, d) = d + HeaderSize
  PROVE  LET g == WithHdr(h, f)
         IN  /\ HeapType(g) /\ Hdr(g) = f /\ Blocks(g) = D /\ FreeOnes(g) = FreeIn(f)
             /\ \A d \in D : /\ Size(g, d) = SizeIn(f, d) /\ NextOf(g, d) = NextIn(f, d)
                              /\ PrevOf(g, d) = PrevIn(f, d)
             /\ g.head = h.head /\ g.brk = h.brk /\ g.fault = h.fault
<1>0. PICK g : g = [h EXCEPT !.hdr = f]
  OBVIOUS
<1>1. h \in Heaps
  BY DEF HeapType
<1>2. g \in Heaps /\ g.hdr = f /\ DOMAIN f = D
  BY <1>0, <1>1 DEF Heaps, Headers
<1>3. g.head = h.head /\ g.brk = h.brk /\ g.fault = h.fault
  BY <1>0, <1>1 DEF Heaps
<1>4. HeapType(g)
  BY <1>2 DEF HeapType, Blocks
<1> QED BY <1>0, <1>2, <1>3, <1>4 DEF WithHdr, Hdr, Blocks, FreeOnes, Size, NextOf, PrevOf

(***************************************************************************)
(* merge_blocks(): b takes the memory of c, the block behind it            *)
(* (kmalloc.c:73-98).                                                      *)
(***************************************************************************)
Merged(h, g, b, c) ==
  /\ HeapType(g)
  /\ Blocks(g) = Blocks(h) \ {c}
  /\ FreeOnes(g) = FreeOnes(h) \ {c}
  /\ \A d \in Blocks(g) :
       /\ Size(g, d) = IF d = b THEN Size(h, b) + Size(h, c) + HeaderSize ELSE Size(h, d)
       /\ NextOf(g, d) = IF d = b THEN NextOf(h, c) ELSE NextOf(h, d)
       /\ PrevOf(g, d) = IF d = NextOf(h, c) THEN b ELSE PrevOf(h, d)
  /\ g.head = h.head /\ g.brk = h.brk /\ g.fault = h.fault

Touching(h, b, c) ==
  /\ b # NoBlock /\ c # NoBlock
  /\ b \in FreeOnes(h) /\ c \in FreeOnes(h)
  /\ EndOf(h, b) = c

(* What merge_blocks() does to two free blocks that touch.                 *)
LEMMA MergeView ==
  ASSUME NEW h, HeapType(h), NoBlock \notin Blocks(h),
         NEW b, NEW c, Touching(h, b, c), b # c,
         NextOf(h, c) = NoBlock \/ NextOf(h, c) \in Blocks(h) \ {c}
  PROVE  Merged(h, merge_blocks(h, b, c), b, c)
<1>0. PICK D, E, nxt, total, f0 :
        /\ D = Blocks(h) /\ E = D \ {c} /\ nxt = NextOf(h, c) /\ f0 = Hdr(h)
        /\ total = Size(h, b) + Size(h, c) + HeaderSize
  OBVIOUS
<1>1. /\ D \in SUBSET Nat /\ f0 \in Headers(D) /\ b \in D /\ c \in D /\ b \in E
      /\ total \in Nat /\ nxt \in Nat /\ b \in Nat
  BY <1>0, HeapFields DEF Touching, HeaderSize
<1>2. PICK f1 : f1 = SetSize(f0, b, total)
  OBVIOUS
<1>3. /\ f1 \in Headers(D) /\ FreeIn(f1) = FreeIn(f0)
      /\ SamePtr(D, f0, f1) /\ SameNext(D, f0, f1) /\ SamePrev(D, f0, f1)
      /\ \A d \in D : SizeIn(f1, d) = IF d = b THEN total ELSE SizeIn(f0, d)
  BY <1>1, <1>2, SizeSet
<1>4. PICK f2 : f2 = SetNext(f1, b, nxt)
  OBVIOUS
<1>5. /\ f2 \in Headers(D) /\ FreeIn(f2) = FreeIn(f1)
      /\ SamePtr(D, f1, f2) /\ SameSize(D, f1, f2) /\ SamePrev(D, f1, f2)
      /\ \A d \in D : NextIn(f2, d) = IF d = b THEN nxt ELSE NextIn(f1, d)
  <2>1. f1 \in Headers(D) /\ b \in D /\ nxt \in Nat
    BY <1>1, <1>3
  <2> QED BY <1>4, <2>1, NextSet
<1>6. PICK f3 : f3 = Drop(f2, c)
  OBVIOUS
<1>7. /\ f3 \in Headers(E) /\ FreeIn(f3) = FreeIn(f2) \ {c}
      /\ SamePtr(E, f2, f3) /\ SameSize(E, f2, f3)
      /\ SameNext(E, f2, f3) /\ SamePrev(E, f2, f3)
  BY <1>0, <1>5, <1>6, Dropped
<1>8. PICK f4 : f4 = IF nxt = NoBlock THEN f3 ELSE SetPrev(f3, nxt, b)
  OBVIOUS
<1>9. /\ f4 \in Headers(E) /\ FreeIn(f4) = FreeIn(f3)
      /\ SamePtr(E, f3, f4) /\ SameSize(E, f3, f4) /\ SameNext(E, f3, f4)
      /\ \A d \in E : PrevIn(f4, d) = IF d = nxt THEN b ELSE PrevIn(f3, d)
  <2>1. CASE nxt = NoBlock
    <3>1. \A d \in E : d # nxt
      BY <1>0, <2>1
    <3> QED BY <1>7, <1>8, <2>1, <3>1 DEF SamePtr, SameSize, SameNext
  <2>2. CASE nxt # NoBlock
    <3>1. nxt \in E
      BY <1>0, <2>2
    <3> QED BY <1>1, <1>7, <1>8, <2>2, <3>1, PrevSet
  <2> QED BY <2>1, <2>2
<1>10. merge_blocks(h, b, c) = WithHdr(h, f4)
  <2>1. /\ h.hdr[b].free /\ h.hdr[c].free
        /\ End(h, b) = c
    <3>1. PtrIn(h.hdr, b) = b + HeaderSize
      BY <1>0, <1>1 DEF HeapType
    <3> QED BY <3>1 DEF Touching, FreeOnes, FreeIn, End, EndOf, Size, SizeIn, PtrIn
  <2>2. f2 = [h.hdr EXCEPT ![b].size = @ + h.hdr[c].size + HeaderSize, ![b].next = h.hdr[c].next]
    BY <1>0, <1>2, <1>4 DEF Size, NextOf, SizeIn, NextIn, SetSize, SetNext, Hdr
  <2>3. h.hdr[c].next = nxt
    BY <1>0 DEF NextOf, NextIn
  <2>4. Absorb(h, b, c) = WithHdr(h, IF nxt = NoBlock THEN Drop(f2, c) ELSE SetPrev(Drop(f2, c), nxt, b))
    <3>1. Enlarged(h, b, c) = f2
      BY <2>2 DEF Enlarged
    <3>2. Absorb(h, b, c) = WithHdr(h, IF h.hdr[c].next = NoBlock THEN Drop(Enlarged(h, b, c), c)
                                       ELSE SetPrev(Drop(Enlarged(h, b, c), c), h.hdr[c].next, b))
      BY Zenon DEF Absorb, SetPrev, WithHdr
    <3> QED BY <2>3, <3>1, <3>2
  <2>5. Absorb(h, b, c) = WithHdr(h, f4)
    BY <1>6, <1>8, <2>4
  <2> QED BY <2>1, <2>5 DEF merge_blocks, Touching
<1>11. /\ \A d \in E : /\ PtrIn(f4, d) = d + HeaderSize
                       /\ SizeIn(f4, d) = IF d = b THEN total ELSE Size(h, d)
                       /\ NextIn(f4, d) = IF d = b THEN nxt ELSE NextOf(h, d)
                       /\ PrevIn(f4, d) = IF d = nxt THEN b ELSE PrevOf(h, d)
       /\ FreeIn(f4) = FreeOnes(h) \ {c}
  <2>1. \A d \in D : PtrIn(f0, d) = d + HeaderSize
    BY <1>0 DEF HeapType, Hdr
  <2>2. /\ FreeIn(f0) = FreeOnes(h)
        /\ \A d : SizeIn(f0, d) = Size(h, d) /\ NextIn(f0, d) = NextOf(h, d)
                  /\ PrevIn(f0, d) = PrevOf(h, d)
    BY <1>0 DEF FreeOnes, Hdr, Size, NextOf, PrevOf
  <2>3. \A d \in E : d \in D
    BY <1>0
  <2> QED BY <1>3, <1>5, <1>7, <1>9, <2>1, <2>2, <2>3
          DEF SamePtr, SameSize, SameNext, SamePrev
<1>12. E \in SUBSET Nat
  BY <1>0, <1>1
<1>13. PICK g : g = WithHdr(h, f4)
  OBVIOUS
<1>14. /\ HeapType(g) /\ Blocks(g) = E /\ FreeOnes(g) = FreeIn(f4)
       /\ \A d \in E : /\ Size(g, d) = SizeIn(f4, d) /\ NextOf(g, d) = NextIn(f4, d)
                       /\ PrevOf(g, d) = PrevIn(f4, d)
       /\ g.head = h.head /\ g.brk = h.brk /\ g.fault = h.fault
  BY <1>9, <1>11, <1>12, <1>13, WithHeaders
<1> QED BY <1>0, <1>10, <1>11, <1>13, <1>14 DEF Merged

(* The facts about a block that the proofs use.                            *)
LEMMA GoodFields ==
  ASSUME NEW h, Good(h)
  PROVE  /\ HeapType(h) /\ NoBlock \notin Blocks(h) /\ IsFiniteSet(Blocks(h))
         /\ Blocks(h) \in SUBSET Nat /\ FreeOnes(h) \subseteq Blocks(h)
         /\ h.head \in Nat /\ h.brk \in Nat /\ h.fault \in BOOLEAN
         /\ Start <= h.brk /\ h.brk % PageSize = 0
         /\ \A b \in Blocks(h) :
              b \in Nat /\ Size(h, b) \in Nat /\ NextOf(h, b) \in Nat /\ PrevOf(h, b) \in Nat
         /\ \A b \in Blocks(h) :
              Start <= b /\ b + HeaderSize <= h.brk /\ Size(h, b) >= 1
<1>1. HeapType(h)
  BY DEF Good
<1>2. \A b \in Blocks(h) : Start <= b /\ b + HeaderSize <= h.brk /\ Size(h, b) >= 1
  BY DEF Good, Placed
<1>3. NoBlock \notin Blocks(h)
  BY <1>2, HeapAssumption DEF NoBlock
<1> QED BY <1>1, <1>2, <1>3, HeapFields DEF Good

(* Blocks of one bin still fit in one header after a merge.                *)
LEMMA MergeFits ==
  ASSUME NEW h, NEW g, NEW b, NEW c, Good(h), c = NextOf(h, b), Touching(h, b, c),
         Merged(h, g, b, c), \A d \in Blocks(h) : d <= b \/ c <= d
  PROVE  Fits(g)
<1> DEFINE D == Blocks(h)
<1>1. /\ D \in SUBSET Nat /\ b \in D /\ c \in D /\ b \in Nat /\ c \in Nat
      /\ NoBlock = 0 /\ NoBlock \notin D /\ HeaderSize = 4
      /\ EndOf(h, b) = c /\ b < c
      /\ \A d \in D : Size(h, d) \in Nat /\ NextOf(h, d) \in Nat
  <2>1. /\ D \in SUBSET Nat /\ b \in D /\ c \in D /\ NoBlock = 0 /\ NoBlock \notin D
        /\ HeaderSize = 4 /\ EndOf(h, b) = c
        /\ \A d \in D : Size(h, d) \in Nat /\ NextOf(h, d) \in Nat
    BY GoodFields DEF Touching, NoBlock, HeaderSize
  <2> QED BY <2>1 DEF EndOf
<1>2. /\ Blocks(g) = D \ {c} /\ g.brk = h.brk /\ g.fault = h.fault
  BY DEF Merged
<1>3. EndOf(g, b) = EndOf(h, c) /\ NextOf(g, b) = NextOf(h, c)
  <2>1. Size(g, b) = Size(h, b) + Size(h, c) + HeaderSize /\ NextOf(g, b) = NextOf(h, c)
    BY <1>1, <1>2 DEF Merged
  <2> QED BY <1>1, <2>1 DEF EndOf
<1>4. \A d \in D \ {b, c} : EndOf(g, d) = EndOf(h, d) /\ NextOf(g, d) = NextOf(h, d)
  BY <1>1, <1>2 DEF Merged, EndOf
<1>5. /\ \A d \in Over(h) : d # c => d \in Over(g) /\ d # b
      /\ c \in Over(h) => b \in Over(g)
  BY <1>1, <1>2, <1>3, <1>4 DEF Over
<1>6. Fits(h)
  BY DEF Good
<1>7. \A d \in Blocks(g) : NextOf(g, d) = NoBlock => EndOf(g, d) = g.brk + HeaderSize
  BY <1>1, <1>2, <1>3, <1>4, <1>6 DEF Fits
<1>8. ASSUME ~g.fault, NEW x \in Blocks(g), NEW y \in Blocks(g), x <= y
      PROVE  FitsPair(g, x, y)
  <2>1. x \in D /\ y \in D /\ x # c /\ y # c /\ x \in Nat /\ y \in Nat
    BY <1>1, <1>2, <1>8
  <2>2. \A u, v \in D : u <= v => FitsPair(h, u, v)
    BY <1>2, <1>6, <1>8 DEF Fits
  <2>3. \A d \in Over(h) : d \in Nat /\ (d <= b \/ c <= d)
    BY <1>1 DEF Over
  <2>4. CASE y = b
    <3>1. FitsPair(h, x, c)
      BY <1>1, <1>8, <2>1, <2>2, <2>4
    <3>2. CASE EndOf(h, c) <= x + HeaderSize + SizeMax
      BY <1>3, <2>4, <3>2 DEF FitsPair
    <3>3. CASE \E d \in Over(h) : x <= d /\ d < c
      <4>1. PICK d \in Over(h) : x <= d /\ d < c
        BY <3>3
      <4>2. d \in Over(g) /\ d # b /\ d \in Nat
        BY <1>1, <1>5, <2>3, <4>1
      <4>3. x <= d /\ d < b
        BY <1>1, <2>3, <4>1, <4>2
      <4> QED BY <2>4, <4>2, <4>3 DEF FitsPair
    <3> QED BY <3>1, <3>2, <3>3 DEF FitsPair
  <2>5. CASE y # b
    <3>1. FitsPair(h, x, y)
      BY <1>8, <2>1, <2>2
    <3>2. CASE EndOf(h, y) <= x + HeaderSize + SizeMax
      BY <1>4, <2>1, <2>5, <3>2 DEF FitsPair
    <3>3. CASE \E d \in Over(h) : x <= d /\ d < y
      <4>1. PICK d \in Over(h) : x <= d /\ d < y
        BY <3>3
      <4>2. CASE d # c
        BY <1>5, <4>1, <4>2 DEF FitsPair
      <4>3. CASE d = c
        <5>1. b \in Over(g)
          BY <1>5, <4>1, <4>3
        <5>2. x <= b /\ b < y
          BY <1>1, <2>1, <4>1, <4>3
        <5> QED BY <5>1, <5>2 DEF FitsPair
      <4> QED BY <4>2, <4>3
    <3> QED BY <3>1, <3>2, <3>3 DEF FitsPair
  <2> QED BY <2>4, <2>5
<1> QED BY <1>7, <1>8 DEF Fits

(* The list is good after a merge (kmalloc.c:73-98).                       *)
LEMMA MergeKeeps ==
  ASSUME NEW h, NEW g, NEW b, NEW c, Good(h), c = NextOf(h, b), Touching(h, b, c),
         Merged(h, g, b, c)
  PROVE  Good(g)
<1> DEFINE D == Blocks(h)
           nxt == NextOf(h, c)
<1>1. /\ D \in SUBSET Nat /\ b \in D /\ c \in D /\ b \in Nat /\ c \in Nat
      /\ h.brk \in Nat /\ NoBlock = 0 /\ NoBlock \notin D
      /\ nxt \in Nat
  BY GoodFields DEF Touching, NoBlock
<1>2. /\ Above(D, b, c) /\ Below(D, b, PrevOf(h, b))
      /\ Above(D, c, nxt) /\ Below(D, c, PrevOf(h, c))
  BY <1>1 DEF Good, Placed
<1>3. b < c /\ \A d \in D : d <= b \/ c <= d
  BY <1>1, <1>2 DEF Above, NoBlock
<1>4. nxt # NoBlock => nxt \in D /\ c < nxt
  BY <1>1, <1>2 DEF Above
<1>5. ASSUME NEW d \in D \ {c} PROVE Above(D \ {c}, d, NextOf(g, d))
  <2>1. CASE d = b
    BY <1>1, <1>2, <1>3, <1>5, <2>1 DEF Above, Merged
  <2>2. CASE d # b
    <3>1. NextOf(g, d) = NextOf(h, d)
      BY <1>5, <2>2 DEF Merged
    <3>2. Above(D, d, NextOf(h, d)) /\ d \in Nat
      BY <1>1, <1>5 DEF Good, Placed
    <3>3. NextOf(h, d) # c
      BY <1>1, <1>3, <2>2, <3>2 DEF Above
    <3> QED BY <1>1, <3>1, <3>2, <3>3 DEF Above
  <2> QED BY <2>1, <2>2
<1>6. ASSUME NEW d \in D \ {c} PROVE Below(D \ {c}, d, PrevOf(g, d))
  <2>0. Below(D, d, PrevOf(h, d)) /\ d \in Nat
    BY <1>1, <1>6 DEF Good, Placed
  <2>1. CASE d = nxt
    <3>1. PrevOf(g, d) = b
      BY <1>6, <2>1 DEF Merged
    <3>2. \A e \in D \ {c} : e <= b \/ nxt <= e
      BY <1>1, <1>2, <1>3, <1>4, <2>1 DEF Above
    <3> QED BY <1>1, <1>3, <1>4, <2>1, <3>1, <3>2 DEF Below
  <2>2. CASE d # nxt
    <3>1. PrevOf(g, d) = PrevOf(h, d)
      BY <1>6, <2>2 DEF Merged
    <3>2. PrevOf(h, d) # c
      BY <1>1, <1>2, <1>4, <2>0, <2>2 DEF Above, Below
    <3> QED BY <1>1, <2>0, <3>1, <3>2 DEF Below
  <2> QED BY <2>1, <2>2
<1>7. ASSUME NEW d \in D \ {c}
      PROVE  \/ EndOf(g, d) = Limit(g, d)
             \/ EndOf(g, d) = Limit(g, d) + HeaderSize /\ Limit(g, d) % PageSize = 0
  <2>1. CASE d = b
    <3>1. EndOf(g, b) = EndOf(h, c) /\ Limit(g, b) = Limit(h, c)
      <4>1. Size(h, b) \in Nat /\ Size(h, c) \in Nat /\ EndOf(h, b) = c
        BY <1>1, GoodFields DEF Touching
      <4>2. Size(g, b) = Size(h, b) + Size(h, c) + HeaderSize /\ NextOf(g, b) = nxt
        BY <1>7, <2>1 DEF Merged
      <4>3. g.brk = h.brk
        BY DEF Merged
      <4> QED BY <1>1, <4>1, <4>2, <4>3 DEF EndOf, Limit, HeaderSize
    <3> QED BY <1>1, <2>1, <3>1 DEF Good, Placed
  <2>2. CASE d # b
    <3>1. EndOf(g, d) = EndOf(h, d) /\ Limit(g, d) = Limit(h, d)
      BY <1>7, <2>2 DEF Merged, EndOf, Limit
    <3> QED BY <1>7, <3>1 DEF Good, Placed
  <2> QED BY <2>1, <2>2
<1>8. ASSUME NEW d \in D \ {c}
      PROVE  Start <= d /\ d + HeaderSize <= g.brk /\ Size(g, d) >= 1
  BY <1>1, <1>8, GoodFields DEF Merged, HeaderSize
<1>9. Blocks(g) = D \ {c} /\ HeapType(g) /\ g.brk = h.brk /\ g.head = h.head
  BY DEF Merged
<1>10. Headed(g)
  BY <1>1, <1>3, <1>9 DEF Good, Headed
<1>11. IsFiniteSet(D \ {c})
  BY GoodFields, FS_RemoveElement
<1>12. Fits(g)
  BY <1>3, MergeFits
<1> QED BY <1>5, <1>6, <1>7, <1>8, <1>9, <1>10, <1>11, <1>12, GoodFields DEF Good, Placed

(* Neighbours point to each other.                                         *)
LEMMA Neighbours ==
  ASSUME NEW h, Good(h), NEW b \in Blocks(h)
  PROVE  /\ PrevOf(h, b) # NoBlock =>
              /\ PrevOf(h, b) \in Blocks(h) /\ PrevOf(h, b) < b
              /\ NextOf(h, PrevOf(h, b)) = b
         /\ NextOf(h, b) # NoBlock =>
              /\ NextOf(h, b) \in Blocks(h) /\ b < NextOf(h, b)
              /\ PrevOf(h, NextOf(h, b)) = b
         /\ \A d \in Blocks(h) : NextOf(h, d) = b => d = PrevOf(h, b)
<1>1. /\ Blocks(h) \in SUBSET Nat /\ NoBlock = 0 /\ NoBlock \notin Blocks(h)
      /\ \A d \in Blocks(h) : NextOf(h, d) \in Nat /\ PrevOf(h, d) \in Nat
  BY GoodFields DEF NoBlock
<1>2. \A d \in Blocks(h) : Above(Blocks(h), d, NextOf(h, d)) /\ Below(Blocks(h), d, PrevOf(h, d))
  BY DEF Good, Placed
<1>3. PrevOf(h, b) # NoBlock =>
        /\ PrevOf(h, b) \in Blocks(h) /\ PrevOf(h, b) < b
        /\ NextOf(h, PrevOf(h, b)) = b
  BY <1>1, <1>2 DEF Above, Below
<1>4. NextOf(h, b) # NoBlock =>
        /\ NextOf(h, b) \in Blocks(h) /\ b < NextOf(h, b)
        /\ PrevOf(h, NextOf(h, b)) = b
  BY <1>1, <1>2 DEF Above, Below
<1>5. ASSUME NEW d \in Blocks(h), NextOf(h, d) = b PROVE d = PrevOf(h, b)
  BY <1>1, <1>2, <1>5 DEF Above, Below
<1> QED BY <1>3, <1>4, <1>5

(* No two free blocks touch, unless the left one is in X, the right one in  *)
(* Y.                                                                       *)
ApartBut(h, X, Y) ==
  \A b \in FreeOnes(h) \ X : NextOf(h, b) \in FreeOnes(h) \ Y => EndOf(h, b) # NextOf(h, b)

(***************************************************************************)
(* Merging a block with the one behind it: the list stays good, the blocks *)
(* in use keep their places and sizes, and the two no longer touch.        *)
(***************************************************************************)
MergedOrNot(h, g, b) ==
  /\ Good(g)
  /\ Blocks(g) \subseteq Blocks(h) /\ b \in Blocks(g)
  /\ \A d \in Blocks(h) \ Blocks(g) : d = NextOf(h, b) /\ d \in FreeOnes(h) /\ b \in FreeOnes(h)
  /\ FreeOnes(g) = FreeOnes(h) \cap Blocks(g)
  /\ \A d \in Blocks(g) : d # b => Size(g, d) = Size(h, d)
  /\ Size(h, b) <= Size(g, b)
  /\ \A d \in Blocks(h) \ Blocks(g) : EndOf(g, b) = EndOf(h, d)
  /\ ~Touching(h, b, NextOf(h, b)) => g = h
  /\ Even(h) => Even(g)
  /\ g.head = h.head /\ g.brk = h.brk /\ g.fault = h.fault
  /\ PrevOf(g, b) = PrevOf(h, b)
  /\ NextOf(g, b) = NextOf(h, b) \/ NextOf(h, b) \notin Blocks(g)

(* Sums of even numbers are even.                                          *)
LEMMA EvenSum ==
  ASSUME NEW x \in Nat, NEW y \in Nat, x % 2 = 0, y % 2 = 0
  PROVE  (x + y) % 2 = 0 /\ (x + y + 4) % 2 = 0 /\ (x + 4) % 2 = 0
  OBVIOUS

(* merge_blocks() of a block and its next has the effect just described.   *)
LEMMA MergeNext ==
  ASSUME NEW h, Good(h), NEW b \in Blocks(h)
  PROVE  LET g == merge_blocks(h, b, NextOf(h, b))
         IN  /\ MergedOrNot(h, g, b)
             /\ \A X, Y : NextOf(h, b) \notin X /\ ApartBut(h, X \cup {b}, Y) => ApartBut(g, X, Y)
<1>0. PICK c, g : c = NextOf(h, b) /\ g = merge_blocks(h, b, c)
  OBVIOUS
<1>1. /\ Blocks(h) \in SUBSET Nat /\ NoBlock = 0 /\ NoBlock \notin Blocks(h)
      /\ b \in Nat /\ c \in Nat /\ Size(h, b) \in Nat /\ HeapType(h)
      /\ FreeOnes(h) \subseteq Blocks(h)
  BY <1>0, GoodFields DEF NoBlock
<1>2. c # NoBlock => c \in Blocks(h) /\ b < c
  BY <1>0, Neighbours
<1>3. CASE Touching(h, b, c)
  <2>1. c \in Blocks(h) /\ b < c /\ b # c /\ b \in FreeOnes(h) /\ c \in FreeOnes(h)
    BY <1>1, <1>2, <1>3 DEF Touching
  <2>2. NextOf(h, c) = NoBlock \/ NextOf(h, c) \in Blocks(h) \ {c}
    <3>1. NextOf(h, c) # NoBlock => NextOf(h, c) \in Blocks(h) /\ c < NextOf(h, c)
      BY <2>1, Neighbours
    <3> QED BY <1>1, <3>1
  <2>3. Merged(h, g, b, c)
    BY <1>0, <1>1, <1>3, <2>1, <2>2, MergeView
  <2>4. Good(g)
    BY <1>0, <1>3, <2>3, MergeKeeps
  <2>5. Size(h, c) \in Nat
    BY <2>1, GoodFields
  <2>6. Size(g, b) = Size(h, b) + Size(h, c) + HeaderSize /\ NextOf(g, b) = NextOf(h, c)
        /\ b \in Blocks(g)
    BY <1>1, <2>1, <2>3 DEF Merged
  <2>7. Even(h) => Even(g)
    <3>1. SUFFICES ASSUME Even(h), NEW d \in Blocks(g)
                   PROVE  d % AlignSize = 0 /\ Size(g, d) % AlignSize = 0
      BY DEF Even
    <3>2. d \in Blocks(h)
      BY <2>3 DEF Merged
    <3>3. CASE d = b
      BY <1>1, <2>1, <2>5, <2>6, <3>1, <3>3, EvenSum DEF Even, HeaderSize, AlignSize
    <3>4. CASE d # b
      BY <2>3, <3>1, <3>2, <3>4 DEF Even, Merged
    <3> QED BY <3>3, <3>4
  <2>8. PrevOf(g, b) = PrevOf(h, b)
    <3>1. b # NextOf(h, c)
      BY <1>1, <2>1, Neighbours
    <3> QED BY <2>3, <2>6, <3>1 DEF Merged
  <2>11. \A d \in Blocks(h) \ Blocks(g) : EndOf(g, b) = EndOf(h, d)
    <3>1. \A d \in Blocks(h) \ Blocks(g) : d = c
      BY <2>3 DEF Merged
    <3>2. EndOf(g, b) = EndOf(h, c)
      BY <1>1, <1>3, <2>5, <2>6 DEF Touching, EndOf, HeaderSize
    <3> QED BY <3>1, <3>2
  <2>9. MergedOrNot(h, g, b)
    BY <1>0, <1>1, <1>3, <2>1, <2>3, <2>4, <2>5, <2>6, <2>7, <2>8, <2>11
       DEF MergedOrNot, Merged, HeaderSize
  <2>10. ASSUME NEW X, NEW Y, c \notin X, ApartBut(h, X \cup {b}, Y) PROVE ApartBut(g, X, Y)
    <3>1. SUFFICES ASSUME NEW d \in FreeOnes(g) \ X, NextOf(g, d) \in FreeOnes(g) \ Y,
                          EndOf(g, d) = NextOf(g, d)
                   PROVE  FALSE
      BY DEF ApartBut
    <3>2. FreeOnes(g) = FreeOnes(h) \ {c} /\ d \in Blocks(g)
      BY <1>1, <2>3, <3>1 DEF Merged
    <3>3. CASE d = b
      <4>1. EndOf(g, b) = EndOf(h, c)
        BY <1>1, <1>3, <2>5, <2>6 DEF Touching, EndOf, HeaderSize
      <4> QED BY <2>1, <2>6, <2>10, <3>1, <3>2, <3>3, <4>1 DEF ApartBut
    <3>4. CASE d # b
      BY <2>3, <2>10, <3>1, <3>2, <3>4 DEF ApartBut, Merged, EndOf
    <3> QED BY <3>3, <3>4
  <2> QED BY <1>0, <2>9, <2>10
<1>4. CASE ~Touching(h, b, c)
  <2>1. g = h
    <3>1. b # NoBlock
      BY <1>1
    <3>2. c # NoBlock => (h.hdr[b].free <=> b \in FreeOnes(h)) /\ (h.hdr[c].free <=> c \in FreeOnes(h))
      BY <1>2, Zenon DEF FreeOnes, FreeIn, Blocks
    <3>3. End(h, b) = EndOf(h, b)
      BY <1>1 DEF End, EndOf, HeapType, PtrIn, Size, SizeIn
    <3> QED BY <1>0, <1>4, <3>1, <3>2, <3>3 DEF merge_blocks, Touching
  <2>2. MergedOrNot(h, h, b)
    BY <1>1 DEF MergedOrNot
  <2>3. ASSUME NEW X, NEW Y, ApartBut(h, X \cup {b}, Y) PROVE ApartBut(h, X, Y)
    BY <1>0, <1>1, <1>2, <1>4, <2>3 DEF ApartBut, Touching
  <2> QED BY <1>0, <2>1, <2>2, <2>3
<1> QED BY <1>3, <1>4

(* Merging with NULL changes nothing.                                      *)
LEMMA MergeNull ==
  ASSUME NEW h, NEW b PROVE merge_blocks(h, NoBlock, b) = h
  BY DEF merge_blocks
-----------------------------------------------------------------------------
(* Numbers that the page size, or the size of a bin, divides.              *)
LEMMA DivMod ==
  ASSUME NEW x \in Nat, NEW p \in Nat, p > 0
  PROVE  x = p * (x \div p) + (x % p) /\ x % p \in 0..(p - 1) /\ x \div p \in Nat
<1>1. x = p * (x \div p) + (x % p)
  OBVIOUS
<1>2. x % p \in 0..(p - 1)
  OBVIOUS
<1>3. x \div p \in Nat
  OBVIOUS
<1> QED BY <1>1, <1>2, <1>3

(* The quotient and the remainder are determined by x = p * q + r.         *)
LEMMA Quotient ==
  ASSUME NEW x \in Nat, NEW p \in Nat, p > 0, NEW q \in Nat, NEW r \in 0..(p - 1),
         x = p * q + r
  PROVE  x \div p = q /\ x % p = r
  OBVIOUS

(* p divides x when x is p times some number.                              *)
LEMMA Multiple ==
  ASSUME NEW x \in Nat, NEW p \in Nat, p > 0
  PROVE  x % p = 0 <=> \E q \in Nat : x = p * q
<1>1. ASSUME x % p = 0 PROVE x = p * (x \div p) /\ x \div p \in Nat
  BY <1>1, DivMod
<1>2. ASSUME NEW q \in Nat, x = p * q PROVE x % p = 0
  <2>1. x = p * q + 0 /\ 0 \in 0..(p - 1)
    BY <1>2
  <2> QED BY <2>1, Quotient
<1> QED BY <1>1, <1>2

(* p divides the sum and the difference of numbers that it divides.        *)
LEMMA SumMultiple ==
  ASSUME NEW x \in Nat, NEW y \in Nat, NEW p \in Nat, p > 0, x % p = 0, y % p = 0
  PROVE  (x + y) % p = 0 /\ (y <= x => (x - y) % p = 0)
<1>1. PICK q \in Nat : x = p * q
  BY Multiple
<1>2. PICK r \in Nat : y = p * r
  BY Multiple
<1>3. (x + y) % p = 0
  <2>1. x + y = p * (q + r) /\ q + r \in Nat /\ x + y \in Nat
    BY <1>1, <1>2
  <2> QED BY <2>1, Multiple
<1>4. ASSUME y <= x PROVE (x - y) % p = 0
  <2>1. x - y = p * (q - r)
    BY <1>1, <1>2
  <2>2. q - r \in Nat
    BY <1>1, <1>2, <1>4
  <2>3. x - y \in Nat
    BY <1>4
  <2> QED BY <2>1, <2>2, <2>3, Multiple
<1> QED BY <1>3, <1>4

(* Divisibility is transitive.                                             *)
LEMMA MultipleOfMultiple ==
  ASSUME NEW x \in Nat, NEW y \in Nat, NEW p \in Nat, p > 0, y > 0, x % y = 0, y % p = 0
  PROVE  x % p = 0
<1>1. PICK q \in Nat : x = y * q
  BY Multiple
<1>2. PICK r \in Nat : y = p * r
  BY Multiple
<1>3. x = p * (r * q)
  BY <1>1, <1>2
<1>4. r * q \in Nat
  OBVIOUS
<1> QED BY <1>3, <1>4, Multiple

(* RoundUp(n, d) is a multiple of d, not below n and less than d above it. *)
LEMMA RoundedUp ==
  ASSUME NEW n \in Nat, NEW d \in Nat, d > 0
  PROVE  /\ RoundUp(n, d) \in Nat /\ RoundUp(n, d) % d = 0
         /\ n <= RoundUp(n, d) /\ RoundUp(n, d) < n + d
<1>1. PICK q, r : q = (n + d - 1) \div d /\ r = (n + d - 1) % d
  OBVIOUS
<1>2. n + d - 1 = d * q + r /\ r \in 0..(d - 1) /\ q \in Nat
  BY <1>1, DivMod
<1>3. RoundUp(n, d) = d * q
  BY <1>1, <1>2 DEF RoundUp
<1>4. d * q \in Nat
  BY <1>2
<1>5. (d * q) % d = 0
  BY <1>2, <1>4, Multiple
<1> QED BY <1>2, <1>3, <1>4, <1>5

(* kbrk() ignores the remainder: division rounds down to a multiple of d.  *)
LEMMA RoundedDown ==
  ASSUME NEW x \in Nat, NEW d \in Nat, d > 0, x % d = 0, NEW r \in 0..(d - 1)
  PROVE  ((x + r) \div d) * d = x
<1>1. PICK q \in Nat : x = d * q
  BY Multiple
<1>2. x + r = d * q + r
  BY <1>1
<1>3. (x + r) \div d = q
  BY <1>2, Quotient
<1> QED BY <1>1, <1>3

(* What fits depends only on places, sizes, next links and the break.      *)
LEMMA SameFits ==
  ASSUME NEW h, NEW g, Fits(h), Blocks(g) = Blocks(h), g.brk = h.brk, h.fault => g.fault,
         \A d \in Blocks(h) : Size(g, d) = Size(h, d) /\ NextOf(g, d) = NextOf(h, d)
  PROVE  Fits(g)
<1>1. \A d \in Blocks(h) : EndOf(g, d) = EndOf(h, d)
  BY DEF EndOf
<1>2. Over(g) = Over(h)
  BY <1>1 DEF Over
<1>3. \A b, c \in Blocks(h) : FitsPair(h, b, c) => FitsPair(g, b, c)
  BY <1>1, <1>2 DEF FitsPair
<1> QED BY <1>1, <1>3 DEF Fits
-----------------------------------------------------------------------------
(***************************************************************************)
(* A step of a list operation around block b: the list stays good, and the *)
(* blocks in use keep their places and sizes, b apart.                     *)
(***************************************************************************)
Around(h, g, b) ==
  /\ Good(g)
  /\ \A d : d # b => (d \in UsedOnes(g) <=> d \in UsedOnes(h))
  /\ \A d \in UsedOnes(g) : d # b => Size(g, d) = Size(h, d)

(* b is marked free or in use.                                              *)
Marked(h, b, x) == [h EXCEPT !.hdr[b].free = x]

(* A mark leaves everything but the mark.                                  *)
LEMMA MarkView ==
  ASSUME NEW h, Good(h), NEW b \in Blocks(h), NEW x \in BOOLEAN
  PROVE  LET g == Marked(h, b, x)
         IN  /\ Good(g) /\ Blocks(g) = Blocks(h)
             /\ FreeOnes(g) = IF x THEN FreeOnes(h) \cup {b} ELSE FreeOnes(h) \ {b}
             /\ \A d \in Blocks(h) : /\ Size(g, d) = Size(h, d) /\ NextOf(g, d) = NextOf(h, d)
                                     /\ PrevOf(g, d) = PrevOf(h, d)
             /\ g.head = h.head /\ g.brk = h.brk /\ g.fault = h.fault
<1>0. PICK D, f : D = Blocks(h) /\ f = SetFree(Hdr(h), b, x)
  OBVIOUS
<1>1. D \in SUBSET Nat /\ Hdr(h) \in Headers(D) /\ b \in D /\ HeapType(h)
  BY <1>0, GoodFields, HeapFields
<1>2. /\ f \in Headers(D) /\ SamePtr(D, Hdr(h), f) /\ SameSize(D, Hdr(h), f)
      /\ SameNext(D, Hdr(h), f) /\ SamePrev(D, Hdr(h), f)
      /\ FreeIn(f) = IF x THEN FreeIn(Hdr(h)) \cup {b} ELSE FreeIn(Hdr(h)) \ {b}
  BY <1>0, <1>1, FreeSet
<1>3. \A d \in D : PtrIn(f, d) = d + HeaderSize
  BY <1>0, <1>1, <1>2 DEF HeapType, SamePtr, Hdr
<1>4. PICK g : g = WithHdr(h, f)
  OBVIOUS
<1>5. /\ HeapType(g) /\ Hdr(g) = f /\ Blocks(g) = D /\ FreeOnes(g) = FreeIn(f)
      /\ \A d \in D : /\ Size(g, d) = SizeIn(f, d) /\ NextOf(g, d) = NextIn(f, d)
                       /\ PrevOf(g, d) = PrevIn(f, d)
      /\ g.head = h.head /\ g.brk = h.brk /\ g.fault = h.fault
  BY <1>1, <1>2, <1>3, <1>4, WithHeaders
<1>6. Marked(h, b, x) = g
  BY <1>0, <1>4 DEF Marked, WithHdr, SetFree, Hdr
<1>7. \A d \in D : /\ Size(g, d) = Size(h, d) /\ NextOf(g, d) = NextOf(h, d)
                   /\ PrevOf(g, d) = PrevOf(h, d)
  BY <1>2, <1>5 DEF SameSize, SameNext, SamePrev, Size, NextOf, PrevOf, Hdr
<1>8. Good(g)
  <2>1. ASSUME NEW d \in D PROVE Placed(g, d)
    <3>1. Placed(h, d)
      BY <1>0, <2>1 DEF Good
    <3>2. EndOf(g, d) = EndOf(h, d) /\ Limit(g, d) = Limit(h, d)
      BY <1>5, <1>7, <2>1 DEF EndOf, Limit
    <3> QED BY <1>0, <1>5, <1>7, <2>1, <3>1, <3>2 DEF Placed
  <2>2. Fits(g)
    <3>1. Fits(h)
      BY DEF Good
    <3> QED BY <1>0, <1>5, <1>7, <3>1, SameFits
  <2> QED BY <1>0, <1>5, <2>1, <2>2 DEF Good, Headed
<1> QED BY <1>0, <1>2, <1>5, <1>6, <1>7, <1>8 DEF FreeOnes, Hdr
Used(h, b) == Marked(h, b, FALSE)
Freed(h, b) == Marked(h, b, TRUE)

(* g is h but for the mark of a block.                                      *)
SameList(h, g) ==
  /\ Good(g) /\ Blocks(g) = Blocks(h)
  /\ \A d \in Blocks(h) : /\ Size(g, d) = Size(h, d) /\ NextOf(g, d) = NextOf(h, d)
                          /\ PrevOf(g, d) = PrevOf(h, d)
  /\ g.head = h.head /\ g.brk = h.brk /\ g.fault = h.fault

(* The same for each of the two marks.                                     *)
LEMMA MarkedViews ==
  ASSUME NEW h, Good(h), NEW b \in Blocks(h)
  PROVE  /\ SameList(h, Used(h, b)) /\ FreeOnes(Used(h, b)) = FreeOnes(h) \ {b}
         /\ SameList(h, Freed(h, b)) /\ FreeOnes(Freed(h, b)) = FreeOnes(h) \cup {b}
<1>1. ASSUME NEW x \in BOOLEAN
      PROVE  /\ SameList(h, Marked(h, b, x))
             /\ x => FreeOnes(Marked(h, b, x)) = FreeOnes(h) \cup {b}
             /\ ~x => FreeOnes(Marked(h, b, x)) = FreeOnes(h) \ {b}
  BY MarkView DEF SameList
<1>2. SameList(h, Marked(h, b, FALSE)) /\ FreeOnes(Marked(h, b, FALSE)) = FreeOnes(h) \ {b}
  BY <1>1, Zenon
<1>3. SameList(h, Marked(h, b, TRUE)) /\ FreeOnes(Marked(h, b, TRUE)) = FreeOnes(h) \cup {b}
  BY <1>1, Zenon
<1> QED BY <1>2, <1>3 DEF Used, Freed
-----------------------------------------------------------------------------
(***************************************************************************)
(* Assignments to the headers of different blocks commute, with each other *)
(* and with a header that is dropped or put in.                            *)
(***************************************************************************)
Alter(f, k, v) == [d \in DOMAIN f |-> IF d = k THEN v ELSE f[d]]

(* Alterations at different addresses commute, also with Drop and Put.     *)
LEMMA AlterCommutes ==
  ASSUME NEW f, NEW k, NEW v
  PROVE  /\ DOMAIN Alter(f, k, v) = DOMAIN f
         /\ \A d \in DOMAIN f : Alter(f, k, v)[d] = IF d = k THEN v ELSE f[d]
         /\ \A l, w : k # l => Alter(Alter(f, k, v), l, w) = Alter(Alter(f, l, w), k, v)
         /\ \A l : k # l => Drop(Alter(f, k, v), l) = Alter(Drop(f, l), k, v)
         /\ \A l, w : k # l => Put(Alter(f, k, v), l, w) = Alter(Put(f, l, w), k, v)
<1>1. /\ DOMAIN Alter(f, k, v) = DOMAIN f
      /\ \A d \in DOMAIN f : Alter(f, k, v)[d] = IF d = k THEN v ELSE f[d]
  BY DEF Alter
<1>2. ASSUME NEW l, NEW w, k # l
      PROVE  Alter(Alter(f, k, v), l, w) = Alter(Alter(f, l, w), k, v)
  BY <1>2, Zenon DEF Alter
<1>3. ASSUME NEW l, k # l PROVE Drop(Alter(f, k, v), l) = Alter(Drop(f, l), k, v)
  BY <1>3 DEF Alter, Drop
<1>4. ASSUME NEW l, NEW w, k # l
      PROVE  Put(Alter(f, k, v), l, w) = Alter(Put(f, l, w), k, v)
  BY <1>4 DEF Alter, Put
<1> QED BY <1>1, <1>2, <1>3, <1>4

SizeGiven(r, x) == [r EXCEPT !.size = x]
NextGiven(r, x) == [r EXCEPT !.next = x]
PrevGiven(r, x) == [r EXCEPT !.prev = x]

(* An assignment to a field is an alteration.                              *)
LEMMA Assignments ==
  ASSUME NEW f, NEW k \in DOMAIN f, NEW x, f = [d \in DOMAIN f |-> f[d]]
  PROVE  /\ SetSize(f, k, x) = Alter(f, k, SizeGiven(f[k], x))
         /\ SetNext(f, k, x) = Alter(f, k, NextGiven(f[k], x))
         /\ SetPrev(f, k, x) = Alter(f, k, PrevGiven(f[k], x))
<1>1. SetSize(f, k, x) = Alter(f, k, SizeGiven(f[k], x))
  BY DEF Alter, SetSize, SizeGiven
<1>2. SetNext(f, k, x) = Alter(f, k, NextGiven(f[k], x))
  BY DEF Alter, SetNext, NextGiven
<1>3. SetPrev(f, k, x) = Alter(f, k, PrevGiven(f[k], x))
  BY DEF Alter, SetPrev, PrevGiven
<1> QED BY <1>1, <1>2, <1>3

(***************************************************************************)
(* split_block() gives the block its size and next after the merge of the  *)
(* new block; it might as well do it before.                               *)
(***************************************************************************)
Given(r, x, y) == NextGiven(SizeGiven(r, x), y)

Absorbing(f, c, e) ==
  LET v == Given(f[c], f[c].size + f[e].size + HeaderSize, f[e].next)
      f1 == Drop(Alter(f, c, v), e)
      nxt == f[e].next
  IN  IF nxt = NoBlock THEN f1 ELSE Alter(f1, nxt, PrevGiven(f1[nxt], c))

(* merge_blocks() in terms of alterations.                                 *)
LEMMA AbsorbingIsMerge ==
  ASSUME NEW h, NEW f, f = Hdr(h), f = [d \in DOMAIN f |-> f[d]],
         NEW c \in DOMAIN f, NEW e \in DOMAIN f, c # e,
         f[e].next = NoBlock \/ f[e].next \in DOMAIN f \ {e}
  PROVE  merge_blocks(h, c, e) =
           IF /\ c # NoBlock /\ e # NoBlock /\ f[c].free /\ f[e].free /\ f[c].ptr + f[c].size = e
           THEN WithHdr(h, Absorbing(f, c, e)) ELSE h
<1>0. PICK nxt, x, f1, f2, f3 :
        /\ nxt = f[e].next /\ x = f[c].size + f[e].size + HeaderSize
        /\ f1 = SetSize(f, c, x) /\ f2 = SetNext(f1, c, nxt)
        /\ f3 = Drop(f2, e)
  OBVIOUS
<1>1. f1 = Alter(f, c, SizeGiven(f[c], x)) /\ DOMAIN f1 = DOMAIN f
      /\ f1[c] = SizeGiven(f[c], x)
  BY <1>0, Assignments, AlterCommutes
<1>2. f1 = [d \in DOMAIN f1 |-> f1[d]]
  BY <1>1 DEF Alter
<1>3. f2 = Alter(f1, c, NextGiven(f1[c], nxt))
  BY <1>0, <1>1, <1>2, Assignments
<1>4. f2 = Alter(f, c, Given(f[c], x, nxt))
  BY <1>1, <1>3 DEF Alter, Given
<1>5. f3 = [d \in DOMAIN f3 |-> f3[d]] /\ DOMAIN f3 = DOMAIN f \ {e}
  BY <1>0, <1>4 DEF Drop, Alter
<1>6. ASSUME nxt # NoBlock
      PROVE  SetPrev(f3, nxt, c) = Alter(f3, nxt, PrevGiven(f3[nxt], c))
  BY <1>0, <1>5, <1>6, Assignments
<1>7. (IF nxt = NoBlock THEN f3 ELSE SetPrev(f3, nxt, c)) = Absorbing(f, c, e)
  BY <1>0, <1>4, <1>6 DEF Absorbing
<1>8. f3 = Drop([h.hdr EXCEPT ![c].size = @ + h.hdr[e].size + HeaderSize, ![c].next = h.hdr[e].next], e)
  BY <1>0 DEF Hdr, SetSize, SetNext
<1>9. Absorb(h, c, e) = WithHdr(h, IF nxt = NoBlock THEN f3 ELSE SetPrev(f3, nxt, c))
  <2>1. nxt = h.hdr[e].next
    BY <1>0 DEF Hdr
  <2>2. Drop(Enlarged(h, c, e), e) = f3
    BY <1>8 DEF Enlarged
  <2>3. Absorb(h, c, e) = WithHdr(h, IF h.hdr[e].next = NoBlock THEN Drop(Enlarged(h, c, e), e)
                                     ELSE SetPrev(Drop(Enlarged(h, c, e), e), h.hdr[e].next, c))
    BY Zenon DEF Absorb, SetPrev, WithHdr
  <2> QED BY <2>1, <2>2, <2>3
<1>10. Absorb(h, c, e) = WithHdr(h, Absorbing(f, c, e))
  BY <1>7, <1>9
<1> QED BY <1>10 DEF merge_blocks, End, Hdr

(* Merging two blocks commutes with an alteration of a third.              *)
LEMMA AbsorbingCommutes ==
  ASSUME NEW f, f = [d \in DOMAIN f |-> f[d]],
         NEW b \in DOMAIN f, NEW v, NEW c \in DOMAIN f, NEW e \in DOMAIN f, c # e, b # c, b # e,
         f[e].next # b
  PROVE  Absorbing(Alter(f, b, v), c, e) = Alter(Absorbing(f, c, e), b, v)
<1>0. PICK g, nxt, w, f1, g1 :
        /\ g = Alter(f, b, v) /\ nxt = f[e].next
        /\ w = Given(f[c], f[c].size + f[e].size + HeaderSize, nxt)
        /\ f1 = Drop(Alter(f, c, w), e) /\ g1 = Drop(Alter(g, c, w), e)
  OBVIOUS
<1>1. g[c] = f[c] /\ g[e] = f[e]
  BY <1>0, AlterCommutes
<1>2. g1 = Alter(f1, b, v)
  <2>1. Alter(g, c, w) = Alter(Alter(f, c, w), b, v)
    BY <1>0, AlterCommutes
  <2> QED BY <1>0, <2>1, AlterCommutes
<1>3. CASE nxt = NoBlock
  BY <1>0, <1>1, <1>2, <1>3 DEF Absorbing
<1>4. CASE nxt # NoBlock
  <2>1. PICK x, y : x = PrevGiven(f1[nxt], c) /\ y = PrevGiven(g1[nxt], c)
    OBVIOUS
  <2>2. Absorbing(f, c, e) = Alter(f1, nxt, x) /\ Absorbing(g, c, e) = Alter(g1, nxt, y)
    BY <1>0, <1>1, <1>4, <2>1 DEF Absorbing
  <2>3. Alter(g1, nxt, x) = Alter(Alter(f1, nxt, x), b, v)
    BY <1>0, <1>2, AlterCommutes
  <2>4. Alter(g1, nxt, y) = Alter(g1, nxt, x)
    <3>1. CASE nxt \in DOMAIN f1
      BY <1>0, <1>2, <2>1, <3>1, AlterCommutes
    <3>2. CASE nxt \notin DOMAIN f1
      <4>1. DOMAIN g1 = DOMAIN f1
        BY <1>2, AlterCommutes
      <4> QED BY <3>2, <4>1, Zenon DEF Alter
    <3> QED BY <3>1, <3>2
  <2> QED BY <1>0, <2>2, <2>3, <2>4
<1> QED BY <1>3, <1>4
-----------------------------------------------------------------------------
(* Assigning size and next is one alteration.                              *)
LEMMA GivenBoth ==
  ASSUME NEW f, NEW k \in DOMAIN f, NEW x, NEW y, f = [d \in DOMAIN f |-> f[d]]
  PROVE  SetNext(SetSize(f, k, x), k, y) = Alter(f, k, Given(f[k], x, y))
<1>0. PICK f1 : f1 = SetSize(f, k, x)
  OBVIOUS
<1>1. f1 = Alter(f, k, SizeGiven(f[k], x)) /\ DOMAIN f1 = DOMAIN f
      /\ f1[k] = SizeGiven(f[k], x)
  BY <1>0, Assignments, AlterCommutes
<1>2. f1 = [d \in DOMAIN f1 |-> f1[d]]
  BY <1>1 DEF Alter
<1>3. SetNext(f1, k, y) = Alter(f1, k, NextGiven(f1[k], y))
  BY <1>0, <1>1, <1>2, Assignments
<1> QED BY <1>0, <1>1, <1>3 DEF Alter, Given

(***************************************************************************)
(* Block b of h cut: it keeps size words, and a new block has the rest.    *)
(***************************************************************************)
NewAt(b, size) == b + HeaderSize + size

LinkedHdr(h, b, size) ==
  LET new == NewAt(b, size)
      nxt == NextOf(h, b)
      f1  == IF nxt = NoBlock THEN Hdr(h) ELSE SetPrev(Hdr(h), nxt, new)
  IN  Put(f1, new, FreeHeader(new, Size(h, b) - size - HeaderSize, nxt, b))

Cut(h, b, size) ==
  WithHdr(h, SetNext(SetSize(LinkedHdr(h, b, size), b, size), b, NewAt(b, size)))

IsCut(h, g, b, size) ==
  LET new == NewAt(b, size)
      nxt == NextOf(h, b)
  IN  /\ HeapType(g)
      /\ Blocks(g) = Blocks(h) \cup {new} /\ FreeOnes(g) = FreeOnes(h) \cup {new}
      /\ \A d \in Blocks(g) :
           /\ Size(g, d) = IF d = b THEN size
                           ELSE IF d = new THEN Size(h, b) - size - HeaderSize ELSE Size(h, d)
           /\ NextOf(g, d) = IF d = b THEN new ELSE IF d = new THEN nxt ELSE NextOf(h, d)
           /\ PrevOf(g, d) = IF d = new THEN b ELSE IF d = nxt THEN new ELSE PrevOf(h, d)
      /\ g.head = h.head /\ g.brk = h.brk /\ g.fault = h.fault

(* What can be cut off: the new block lies before the end of b.            *)
CanCut(h, b, size) ==
  /\ HeapType(h) /\ NoBlock \notin Blocks(h) /\ b \in Blocks(h) /\ size \in Nat
  /\ size + HeaderSize <= Size(h, b)
  /\ NewAt(b, size) \notin Blocks(h)
  /\ NextOf(h, b) # NoBlock => NextOf(h, b) \in Blocks(h) \ {b}

(* The headers with the new one linked in.                                 *)
LEMMA LinkedView ==
  ASSUME NEW h, NEW b, NEW size, CanCut(h, b, size)
  PROVE  LET f == LinkedHdr(h, b, size)
             D == Blocks(h)
             new == NewAt(b, size)
         IN  /\ f \in Headers(Plus(D, new)) /\ FreeIn(f) = FreeOnes(h) \cup {new}
             /\ \A d \in D \cup {new} : PtrIn(f, d) = d + HeaderSize
             /\ \A d \in D : /\ SizeIn(f, d) = Size(h, d) /\ NextIn(f, d) = NextOf(h, d)
                             /\ PrevIn(f, d) = IF d = NextOf(h, b) THEN new ELSE PrevOf(h, d)
             /\ SizeIn(f, new) = Size(h, b) - size - HeaderSize
             /\ NextIn(f, new) = NextOf(h, b) /\ PrevIn(f, new) = b
<1>0. PICK D, E, new, nxt, rest, f0, f1, f :
        /\ D = Blocks(h) /\ E = Plus(D, new) /\ new = NewAt(b, size) /\ nxt = NextOf(h, b) /\ f0 = Hdr(h)
        /\ rest = Size(h, b) - size - HeaderSize
        /\ f1 = (IF nxt = NoBlock THEN f0 ELSE SetPrev(f0, nxt, new))
        /\ f = Put(f1, new, FreeHeader(new, rest, nxt, b))
  OBVIOUS
<1>1. /\ D \in SUBSET Nat /\ f0 \in Headers(D) /\ b \in D /\ b \in Nat /\ nxt \in Nat
      /\ Size(h, b) \in Nat /\ new \in Nat /\ rest \in Nat /\ new \notin D
  BY <1>0, HeapFields DEF CanCut, HeaderSize, NewAt
<1>2. /\ f1 \in Headers(D) /\ FreeIn(f1) = FreeIn(f0)
      /\ SamePtr(D, f0, f1) /\ SameSize(D, f0, f1) /\ SameNext(D, f0, f1)
      /\ \A d \in D : PrevIn(f1, d) = IF d = nxt THEN new ELSE PrevIn(f0, d)
  <2>1. CASE nxt = NoBlock
    <3>1. \A d \in D : d # nxt
      BY <1>0, <2>1 DEF CanCut
    <3> QED BY <1>0, <1>1, <2>1, <3>1 DEF SamePtr, SameSize, SameNext
  <2>2. CASE nxt # NoBlock
    <3>1. nxt \in D
      BY <1>0, <2>2 DEF CanCut
    <3>2. f1 = SetPrev(f0, nxt, new)
      BY <1>0, <2>2
    <3>3. f0 \in Headers(D) /\ nxt \in D /\ new \in Nat
      BY <1>1, <3>1
    <3> QED BY <3>2, <3>3, PrevSet
  <2> QED BY <2>1, <2>2
<1>3. /\ f \in Headers(E) /\ FreeIn(f) = FreeIn(f1) \cup {new}
      /\ SamePtr(D, f1, f) /\ SameSize(D, f1, f)
      /\ SameNext(D, f1, f) /\ SamePrev(D, f1, f)
      /\ PtrIn(f, new) = new + HeaderSize /\ SizeIn(f, new) = rest
      /\ NextIn(f, new) = nxt /\ PrevIn(f, new) = b
  <2>1. f = Put(f1, new, FreeHeader(new, rest, nxt, b)) /\ f1 \in Headers(D)
    BY <1>0, <1>2
  <2>2. E = Plus(D, new)
    BY <1>0
  <2> QED BY <1>1, <2>1, <2>2, PutIn
<1>4. \A d \in D : PtrIn(f0, d) = d + HeaderSize
  BY <1>0 DEF HeapType, CanCut, Hdr
<1>5. FreeIn(f0) = FreeOnes(h)
      /\ \A d : SizeIn(f0, d) = Size(h, d) /\ NextIn(f0, d) = NextOf(h, d)
                /\ PrevIn(f0, d) = PrevOf(h, d)
  BY <1>0 DEF FreeOnes, Hdr, Size, NextOf, PrevOf
<1>6. f = LinkedHdr(h, b, size)
  BY <1>0 DEF LinkedHdr
<1> QED BY <1>0, <1>2, <1>3, <1>4, <1>5, <1>6
        DEF SamePtr, SameSize, SameNext, SamePrev, Plus

(* The fields of a heap that was cut.                                      *)
LEMMA CutView ==
  ASSUME NEW h, NEW b, NEW size, CanCut(h, b, size)
  PROVE  IsCut(h, Cut(h, b, size), b, size)
<1>0. PICK D, E, new, nxt, f2, f3, f4, g :
        /\ D = Blocks(h) /\ new = NewAt(b, size) /\ nxt = NextOf(h, b)
        /\ E = Plus(D, new)
        /\ f2 = LinkedHdr(h, b, size) /\ f3 = SetSize(f2, b, size) /\ f4 = SetNext(f3, b, new)
        /\ g = WithHdr(h, f4)
  OBVIOUS
<1>1. /\ D \in SUBSET Nat /\ b \in D /\ b \in Nat /\ size \in Nat /\ new \in Nat /\ new \notin D
      /\ b \in E /\ E \in SUBSET Nat
  BY <1>0, HeapFields DEF CanCut, HeaderSize, NewAt, Plus
<1>2. /\ f2 \in Headers(E) /\ FreeIn(f2) = FreeOnes(h) \cup {new}
      /\ \A d \in E : PtrIn(f2, d) = d + HeaderSize
      /\ \A d \in D : /\ SizeIn(f2, d) = Size(h, d) /\ NextIn(f2, d) = NextOf(h, d)
                      /\ PrevIn(f2, d) = IF d = nxt THEN new ELSE PrevOf(h, d)
      /\ SizeIn(f2, new) = Size(h, b) - size - HeaderSize
      /\ NextIn(f2, new) = nxt /\ PrevIn(f2, new) = b
  BY <1>0, LinkedView DEF Plus
<1>3. /\ f3 \in Headers(E) /\ FreeIn(f3) = FreeIn(f2)
      /\ SamePtr(E, f2, f3) /\ SameNext(E, f2, f3) /\ SamePrev(E, f2, f3)
      /\ \A d \in E : SizeIn(f3, d) = IF d = b THEN size ELSE SizeIn(f2, d)
  BY <1>0, <1>1, <1>2, SizeSet
<1>4. /\ f4 \in Headers(E) /\ FreeIn(f4) = FreeIn(f3)
      /\ SamePtr(E, f3, f4) /\ SameSize(E, f3, f4) /\ SamePrev(E, f3, f4)
      /\ \A d \in E : NextIn(f4, d) = IF d = b THEN new ELSE NextIn(f3, d)
  BY <1>0, <1>1, <1>3, NextSet
<1>5. \A d \in E : PtrIn(f4, d) = d + HeaderSize
  BY <1>2, <1>3, <1>4 DEF SamePtr
<1>6. /\ HeapType(g) /\ Blocks(g) = E /\ FreeOnes(g) = FreeIn(f4)
      /\ \A d \in E : /\ Size(g, d) = SizeIn(f4, d) /\ NextOf(g, d) = NextIn(f4, d)
                       /\ PrevOf(g, d) = PrevIn(f4, d)
      /\ g.head = h.head /\ g.brk = h.brk /\ g.fault = h.fault
  BY <1>0, <1>1, <1>4, <1>5, WithHeaders DEF CanCut
<1>7. \A d \in E :
        /\ Size(g, d) = IF d = b THEN size
                        ELSE IF d = new THEN Size(h, b) - size - HeaderSize ELSE Size(h, d)
        /\ NextOf(g, d) = IF d = b THEN new ELSE IF d = new THEN nxt ELSE NextOf(h, d)
        /\ PrevOf(g, d) = IF d = new THEN b ELSE IF d = nxt THEN new ELSE PrevOf(h, d)
  <2>1. \A d \in E : d \in D \/ d = new
    BY <1>0 DEF Plus
  <2> QED BY <1>1, <1>2, <1>3, <1>4, <1>6, <2>1 DEF SameSize, SameNext, SamePrev
<1>8. g = Cut(h, b, size)
  BY <1>0 DEF Cut
<1> QED BY <1>0, <1>2, <1>3, <1>4, <1>6, <1>7, <1>8 DEF IsCut, Plus
-----------------------------------------------------------------------------
Faulting(h) == [h EXCEPT !.fault = TRUE]

Regiven(h, b, x, y) == [h EXCEPT !.hdr[b].size = x, !.hdr[b].next = y]

(* A record with the fields of a heap, whatever its headers are. *)
IsHeapRecord(h) ==
  h = [hdr |-> h.hdr, head |-> h.head, brk |-> h.brk, fault |-> h.fault]

(* Assigning size and next of a block, as an alteration of its headers.    *)
LEMMA RegivenHdr ==
  ASSUME NEW h, IsHeapRecord(h), NEW b, NEW x, NEW y
  PROVE  Regiven(h, b, x, y) = WithHdr(h, SetNext(SetSize(h.hdr, b, x), b, y))
<1>1. PICK f1 : f1 = [h.hdr EXCEPT ![b].size = x]
  OBVIOUS
<1>2. PICK h1 : h1 = [h EXCEPT !.hdr[b].size = x]
  OBVIOUS
<1>3. h1 = [h EXCEPT !.hdr = f1]
  BY <1>1, <1>2 DEF IsHeapRecord
<1>4. h1.hdr = f1 
  BY <1>3 DEF IsHeapRecord
<1>5. PICK h2 : h2 = [h1 EXCEPT !.hdr[b].next = y]
  OBVIOUS
<1>6. h2 = [h1 EXCEPT !.hdr = [f1 EXCEPT ![b].next = y]]
  BY <1>4, <1>5
<1>7. h2 = [h EXCEPT !.hdr = [f1 EXCEPT ![b].next = y]]
  BY <1>3, <1>6 DEF IsHeapRecord
<1>8. h2 = [h EXCEPT !.hdr[b].size = x, !.hdr[b].next = y]
  BY <1>2, <1>5
<1> QED BY <1>1, <1>7, <1>8 DEF Regiven, WithHdr, SetNext, SetSize

(* Of headers given twice, the last remain.                                *)
LEMMA WithHdrLast ==
  ASSUME NEW h, HeapType(h), NEW f
  PROVE  /\ Hdr(WithHdr(h, f)) = f
         /\ \A g : WithHdr(WithHdr(h, f), g) = WithHdr(h, g)
<1>1. h \in Heaps
  BY DEF HeapType
<1>2. Hdr(WithHdr(h, f)) = f
  BY <1>1 DEF Heaps, WithHdr, Hdr
<1>3. ASSUME NEW g PROVE WithHdr(WithHdr(h, f), g) = WithHdr(h, g)
  BY <1>1 DEF Heaps, WithHdr
<1> QED BY <1>2, <1>3

(* What SplitOff computes when the new header is below the break.          *)
LEMMA SplitIsCut ==
  ASSUME NEW h, NEW b, NEW size, CanCut(h, b, size), NEW e, e = NextOf(h, b),
         e # NoBlock => NextOf(h, e) = NoBlock \/ NextOf(h, e) \in Blocks(h) \ {e, b}
  PROVE  SplitOff(h, b, size) =
           IF NewAt(b, size) + HeaderSize > h.brk THEN Faulting(h)
           ELSE merge_blocks(Cut(h, b, size), NewAt(b, size), e)
<1>0. PICK D, E, new, rest, f, f4, k, g, m, hb :
        /\ D = Blocks(h) /\ new = NewAt(b, size) /\ E = Plus(D, new) /\ hb = h.hdr[b].ptr + size
        /\ f = LinkedHdr(h, b, size) /\ f4 = SetNext(SetSize(f, b, size), b, new)
        /\ k = WithHdr(h, f) /\ g = Cut(h, b, size) /\ m = merge_blocks(k, new, e)
  OBVIOUS
<1>1. /\ D \in SUBSET Nat /\ b \in D /\ b \in Nat /\ size \in Nat /\ new \in Nat /\ new \notin D
      /\ HeapType(h) /\ b \in E /\ new \in E /\ b # new
  BY <1>0, HeapFields DEF CanCut, HeaderSize, NewAt, Plus
<1>2. f \in Headers(E) /\ NextIn(f, new) = e
      /\ \A d \in D : NextIn(f, d) = NextOf(h, d)
  BY <1>0, LinkedView
<1>3. f = [d \in DOMAIN f |-> f[d]] /\ DOMAIN f = E
  BY <1>2 DEF Headers
<1>4. hb = new
  BY <1>0, <1>1 DEF HeapType, PtrIn, NewAt
<1>5. SplitOff(h, b, size) =
        IF new + HeaderSize > h.brk THEN Faulting(h)
        ELSE Regiven(m, b, size, new)
  <2>1. h.hdr[b].next = e /\ h.hdr[b].size = Size(h, b) /\ h.hdr[b].ptr + size = new
    BY <1>0, <1>4 DEF NextOf, NextIn, Size, SizeIn
  <2>2. PICK linked :
          linked = [h EXCEPT !.hdr = Put(IF h.hdr[b].next = NoBlock THEN @
                                         ELSE [@ EXCEPT ![h.hdr[b].next].prev = h.hdr[b].ptr + size],
                                         h.hdr[b].ptr + size,
                                         Header0(h.hdr[b].ptr + size, h.hdr[b].size - size - HeaderSize,
                                                 TRUE, h.hdr[b].next, b))]
    OBVIOUS
  <2>3. linked = k
    BY <1>0, <2>1, <2>2 DEF LinkedHdr, WithHdr, FreeHeader, SetPrev, Hdr
  <2>4. SplitOff(h, b, size) =
          IF h.hdr[b].ptr + size + HeaderSize > h.brk THEN Faulting(h)
          ELSE Regiven(merge_blocks(linked, h.hdr[b].ptr + size, h.hdr[b].next),
                       b, size, h.hdr[b].ptr + size)
    BY <2>2 DEF SplitOff, Faulting, Regiven
  <2> QED BY <1>0, <2>1, <2>3, <2>4
<1>6. g = WithHdr(h, f4)
  BY <1>0 DEF Cut
<1>7. Hdr(k) = f /\ Hdr(g) = f4 /\ \A x : WithHdr(k, x) = WithHdr(h, x) /\ WithHdr(g, x) = WithHdr(h, x)
  BY <1>0, <1>1, <1>6, WithHdrLast
<1>8. f4 = Alter(f, b, Given(f[b], size, new))
  BY <1>0, <1>1, <1>3, GivenBoth
<1>9. ASSUME NEW x, x = [d \in DOMAIN x |-> x[d]], b \in DOMAIN x, x[b] = f[b]
      PROVE  Regiven(WithHdr(h, x), b, size, new)
               = WithHdr(h, Alter(x, b, Given(f[b], size, new)))
  <2>1. SetNext(SetSize(x, b, size), b, new) = Alter(x, b, Given(f[b], size, new))
    BY <1>9, GivenBoth
  <2>2. h \in Heaps
    BY <1>1 DEF HeapType
  <2>3. PICK y : y = WithHdr(h, x)
    OBVIOUS
  <2>4. IsHeapRecord(y) /\ y.hdr = x
    BY <2>2, <2>3 DEF Heaps, WithHdr, IsHeapRecord
  <2>5. Regiven(y, b, size, new) = WithHdr(y, SetNext(SetSize(x, b, size), b, new))
    BY <2>4, RegivenHdr
  <2> QED BY <1>1, <2>1, <2>3, <2>5, WithHdrLast
<1>10. CASE e = NoBlock
  <2>1. m = k /\ merge_blocks(g, new, e) = g
    BY <1>0, <1>10 DEF merge_blocks
  <2> QED BY <1>0, <1>1, <1>3, <1>5, <1>6, <1>8, <1>9, <1>10, <2>1
<1>11. CASE e # NoBlock
  <2>1. e \in D /\ e \in E /\ e # b /\ e # new
    BY <1>0, <1>1, <1>11 DEF CanCut, Plus
  <2>2. f[e].next = NextOf(h, e)
    BY <1>2, <2>1 DEF NextIn
  <2>3. f[e].next = NoBlock \/ f[e].next \in DOMAIN f \ {e}
    BY <1>0, <1>3, <1>11, <2>2 DEF Plus
  <2>4. f[e].next # b
    BY <1>1, <1>11, <2>2 DEF CanCut
  <2>5. f4 = [d \in DOMAIN f4 |-> f4[d]] /\ DOMAIN f4 = DOMAIN f /\ f4[new] = f[new] /\ f4[e] = f[e]
    <3>1. f4 = [d \in DOMAIN f4 |-> f4[d]]
      BY <1>8 DEF Alter
    <3> QED BY <1>1, <1>3, <1>8, <2>1, <3>1, AlterCommutes
  <2>6. Absorbing(f4, new, e) = Alter(Absorbing(f, new, e), b, Given(f[b], size, new))
    BY <1>1, <1>3, <1>8, <2>1, <2>4, AbsorbingCommutes
  <2> DEFINE Cond == /\ new # NoBlock /\ e # NoBlock /\ f[new].free /\ f[e].free
                     /\ f[new].ptr + f[new].size = e
  <2>7. m = IF Cond THEN WithHdr(k, Absorbing(f, new, e)) ELSE k
    BY <1>0, <1>1, <1>3, <1>7, <2>1, <2>3, AbsorbingIsMerge
  <2>8. merge_blocks(g, new, e) = IF Cond THEN WithHdr(g, Absorbing(f4, new, e)) ELSE g
    <3>1. f4[e].next = NoBlock \/ f4[e].next \in DOMAIN f4 \ {e}
      BY <2>3, <2>5
    <3> QED BY <1>1, <1>3, <1>7, <2>1, <2>5, <3>1, AbsorbingIsMerge
  <2>9. CASE Cond
    <3>1. PICK x : x = Absorbing(f, new, e)
      OBVIOUS
    <3>2. x = [d \in DOMAIN x |-> x[d]] /\ b \in DOMAIN x /\ x[b] = f[b]
      BY <1>1, <1>3, <2>1, <2>4, <3>1 DEF Absorbing, Alter, Drop
    <3>3. m = WithHdr(h, x) /\ merge_blocks(g, new, e) = WithHdr(h, Alter(x, b, Given(f[b], size, new)))
      BY <1>7, <2>6, <2>7, <2>8, <2>9, <3>1
    <3> QED BY <1>0, <1>5, <1>9, <3>2, <3>3
  <2>10. CASE ~Cond
    <3>1. m = k /\ merge_blocks(g, new, e) = g
      BY <2>7, <2>8, <2>10
    <3> QED BY <1>0, <1>1, <1>3, <1>5, <1>6, <1>8, <1>9, <3>1
  <2> QED BY <2>9, <2>10
<1> QED BY <1>10, <1>11
-----------------------------------------------------------------------------
(* Neighbours stay neighbours when a block is put elsewhere.               *)
LEMMA MoreAround ==
  ASSUME NEW D \in SUBSET Nat, NEW d \in Nat, NEW new \in Nat, NEW c \in Nat, NoBlock \notin D
  PROVE  /\ Above(D, d, c) /\ (new <= d \/ (c # NoBlock /\ c <= new)) => Above(D \cup {new}, d, c)
         /\ Below(D, d, c) /\ (d <= new \/ (c # NoBlock /\ new <= c)) => Below(D \cup {new}, d, c)
<1>1. NoBlock = 0
  BY DEF NoBlock
<1>2. ASSUME Above(D, d, c), new <= d \/ (c # NoBlock /\ c <= new)
      PROVE  Above(D \cup {new}, d, c)
  BY <1>1, <1>2 DEF Above
<1>3. ASSUME Below(D, d, c), d <= new \/ (c # NoBlock /\ new <= c)
      PROVE  Below(D \cup {new}, d, c)
  BY <1>1, <1>3 DEF Below
<1> QED BY <1>2, <1>3

(* Blocks of one bin still fit in one header after a cut.                  *)
LEMMA CutFits ==
  ASSUME NEW h, Good(h), NEW g, NEW b \in Blocks(h), NEW size \in Nat,
         size + MinBlkSize <= Size(h, b), IsCut(h, g, b, size),
         \A d \in Blocks(h) : d <= b \/ NewAt(b, size) < d
  PROVE  Fits(g)
<1>0. PICK D, new : D = Blocks(h) /\ new = NewAt(b, size)
  OBVIOUS
<1>1. /\ D \in SUBSET Nat /\ b \in D /\ b \in Nat /\ NoBlock = 0 /\ NoBlock \notin D
      /\ HeaderSize = 4 /\ Size(h, b) \in Nat /\ new = b + 4 + size /\ new \in Nat
      /\ b < new /\ size + 6 <= Size(h, b) /\ SizeMax \in Nat
      /\ \A d \in D : d <= b \/ new < d
      /\ \A d \in D : Size(h, d) \in Nat /\ NextOf(h, d) \in Nat
  BY <1>0, GoodFields, HeapAssumption DEF NoBlock, HeaderSize, MinBlkSize, AlignSize, NewAt
<1>2. /\ Blocks(g) = D \cup {new} /\ g.brk = h.brk /\ g.fault = h.fault /\ new \notin D
  BY <1>0, <1>1 DEF IsCut
<1>3. /\ EndOf(g, b) = new /\ NextOf(g, b) = new
      /\ EndOf(g, new) = EndOf(h, b) /\ NextOf(g, new) = NextOf(h, b)
      /\ EndOf(h, b) \in Nat /\ new < EndOf(h, b)
  <2>1. /\ Size(g, b) = size /\ NextOf(g, b) = new /\ NextOf(g, new) = NextOf(h, b)
        /\ Size(g, new) = Size(h, b) - size - 4
    BY <1>0, <1>1, <1>2 DEF IsCut
  <2> QED BY <1>1, <2>1 DEF EndOf
<1>4. \A d \in D \ {b} : EndOf(g, d) = EndOf(h, d) /\ NextOf(g, d) = NextOf(h, d)
  BY <1>0, <1>2 DEF IsCut, EndOf
<1>5. /\ \A d \in Over(h) : d # b => d \in Over(g)
      /\ b \in Over(h) => new \in Over(g)
  BY <1>0, <1>2, <1>3, <1>4 DEF Over
<1>6. Fits(h)
  BY DEF Good
<1>7. \A d \in Blocks(g) : NextOf(g, d) = NoBlock => EndOf(g, d) = g.brk + HeaderSize
  BY <1>0, <1>1, <1>2, <1>3, <1>4, <1>6 DEF Fits
<1>8. ASSUME ~g.fault, NEW x \in Blocks(g), NEW y \in Blocks(g), x <= y
      PROVE  FitsPair(g, x, y)
  <2>0. PICK u, v : u = (IF x = new THEN b ELSE x) /\ v = (IF y = new THEN b ELSE y)
    OBVIOUS
  <2>1. /\ u \in D /\ v \in D /\ x \in Nat /\ y \in Nat /\ u \in Nat /\ v \in Nat
        /\ u <= v /\ u <= x /\ v <= y
    BY <1>1, <1>2, <1>8, <2>0
  <2>2. FitsPair(h, u, v)
    BY <1>0, <1>2, <1>6, <1>8, <2>1 DEF Fits
  <2>3. EndOf(g, y) <= EndOf(h, v) /\ EndOf(g, y) \in Nat /\ EndOf(h, v) \in Nat
    <3>1. EndOf(h, v) \in Nat
      BY <1>1, <2>1 DEF EndOf
    <3>2. CASE y = new
      BY <1>3, <2>0, <3>2
    <3>3. CASE y = b
      BY <1>1, <1>2, <1>3, <2>0, <3>3
    <3>4. CASE y # new /\ y # b
      BY <1>2, <1>4, <2>0, <3>1, <3>4
    <3> QED BY <3>2, <3>3, <3>4
  <2>4. CASE EndOf(h, v) <= u + HeaderSize + SizeMax
    <3>1. EndOf(g, y) <= x + HeaderSize + SizeMax
      BY <1>1, <2>1, <2>3, <2>4
    <3> QED BY <3>1 DEF FitsPair
  <2>5. CASE \E d \in Over(h) : u <= d /\ d < v
    <3>1. PICK d \in Over(h) : u <= d /\ d < v
      BY <2>5
    <3>2. d \in D /\ d \in Nat
      BY <1>0, <1>1, <3>1 DEF Over
    <3>3. CASE d = b
      <4>1. new \in Over(g)
        BY <1>5, <3>1, <3>3
      <4>2. x <= new /\ new < y
        BY <1>1, <2>0, <2>1, <3>1, <3>3
      <4> QED BY <4>1, <4>2 DEF FitsPair
    <3>4. CASE d # b
      <4>1. d \in Over(g)
        BY <1>5, <3>1, <3>4
      <4>2. x <= d /\ d < y
        BY <1>1, <2>0, <2>1, <3>1, <3>2, <3>4
      <4> QED BY <4>1, <4>2 DEF FitsPair
    <3> QED BY <3>3, <3>4
  <2> QED BY <2>2, <2>4, <2>5 DEF FitsPair
<1> QED BY <1>7, <1>8 DEF Fits

(* A cut keeps the list good.                                              *)
LEMMA CutKeeps ==
  ASSUME NEW h, Good(h), NEW b \in Blocks(h), NEW size \in Nat, size >= 1,
         size + MinBlkSize <= Size(h, b)
  PROVE  LET new == NewAt(b, size)
             nxt == NextOf(h, b)
         IN  /\ CanCut(h, b, size) /\ new \in Nat /\ b < new
             /\ nxt # NoBlock => nxt \in Blocks(h) /\ new < nxt
             /\ nxt # NoBlock => NextOf(h, nxt) = NoBlock \/ NextOf(h, nxt) \in Blocks(h) \ {nxt, b}
             /\ new + HeaderSize <= h.brk => Good(Cut(h, b, size))
<1>0. PICK D, new, nxt, g : /\ D = Blocks(h) /\ new = NewAt(b, size) /\ nxt = NextOf(h, b)
                            /\ g = Cut(h, b, size)
  OBVIOUS
<1>1. /\ D \in SUBSET Nat /\ b \in D /\ b \in Nat /\ NoBlock = 0 /\ NoBlock \notin D
      /\ HeaderSize = 4 /\ MinBlkSize = 6 /\ Size(h, b) \in Nat /\ HeapType(h)
      /\ h.brk \in Nat /\ nxt \in Nat /\ new = b + 4 + size /\ new \in Nat
  BY <1>0, GoodFields DEF NoBlock, HeaderSize, MinBlkSize, AlignSize, NewAt
<1>2. \A d \in D : Placed(h, d)
  BY <1>0 DEF Good
<1>3. nxt # NoBlock => nxt \in D /\ b < nxt /\ \A d \in D : d <= b \/ nxt <= d
  BY <1>0, <1>1, <1>2 DEF Placed, Above
<1>4. nxt = NoBlock => \A d \in D : d <= b
  BY <1>0, <1>1, <1>2 DEF Placed, Above
<1>5. nxt # NoBlock => new < nxt
  BY <1>0, <1>1, <1>2, <1>3 DEF Placed, EndOf, Limit
<1>6. \A d \in D : d <= b \/ new < d
  BY <1>1, <1>3, <1>4, <1>5
<1>7. new \notin D
  BY <1>1, <1>6
<1>8. CanCut(h, b, size)
  BY <1>0, <1>1, <1>3, <1>7 DEF CanCut
<1>9. ASSUME nxt # NoBlock
      PROVE  NextOf(h, nxt) = NoBlock \/ NextOf(h, nxt) \in Blocks(h) \ {nxt, b}
  BY <1>0, <1>1, <1>3, <1>9, Neighbours
<1>10. ASSUME new + HeaderSize <= h.brk PROVE Good(g)
  <2>1. IsCut(h, g, b, size)
    BY <1>0, <1>8, CutView
  <2>2. Blocks(g) = D \cup {new} /\ HeapType(g) /\ g.head = h.head /\ g.brk = h.brk
    BY <1>0, <2>1 DEF IsCut
  <2>3. \A d \in D \cup {new} :
           /\ Size(g, d) = IF d = b THEN size
                           ELSE IF d = new THEN Size(h, b) - size - HeaderSize ELSE Size(h, d)
           /\ NextOf(g, d) = IF d = b THEN new ELSE IF d = new THEN nxt ELSE NextOf(h, d)
           /\ PrevOf(g, d) = IF d = new THEN b ELSE IF d = nxt THEN new ELSE PrevOf(h, d)
    BY <1>0, <2>1 DEF IsCut
  <2>4. Start \in Nat /\ Start <= b /\ b + 4 <= h.brk
    BY <1>1, GoodFields, HeapAssumption
  <2>5. Placed(g, b)
    <3>1. Size(g, b) = size /\ NextOf(g, b) = new /\ PrevOf(g, b) = PrevOf(h, b)
      BY <1>1, <1>3, <1>7, <2>3
    <3>2. Above(D \cup {new}, b, new)
      BY <1>1, <1>6 DEF Above
    <3>3. Below(D \cup {new}, b, PrevOf(h, b))
      <4>1. Below(D, b, PrevOf(h, b)) /\ PrevOf(h, b) \in Nat
        BY <1>0, <1>1, <1>2, GoodFields DEF Placed
      <4> QED BY <1>1, <4>1, MoreAround
    <3>4. EndOf(g, b) = Limit(g, b)
      BY <1>1, <3>1 DEF EndOf, Limit
    <3> QED BY <1>1, <2>2, <2>4, <3>1, <3>2, <3>3, <3>4 DEF Placed
  <2>6. Placed(g, new)
    <3>1. Size(g, new) = Size(h, b) - size - 4 /\ NextOf(g, new) = nxt /\ PrevOf(g, new) = b
      BY <1>1, <1>7, <2>3
    <3>2. Above(D \cup {new}, new, nxt)
      BY <1>1, <1>3, <1>4, <1>5 DEF Above
    <3>3. Below(D \cup {new}, new, b)
      BY <1>1, <1>6 DEF Below
    <3>4. EndOf(g, new) = EndOf(h, b) /\ Limit(g, new) = Limit(h, b)
      BY <1>0, <1>1, <2>2, <3>1 DEF EndOf, Limit
    <3>5. \/ EndOf(g, new) = Limit(g, new)
          \/ EndOf(g, new) = Limit(g, new) + HeaderSize /\ Limit(g, new) % PageSize = 0
      BY <1>1, <1>2, <3>4 DEF Placed
    <3>6. Start <= new /\ Size(g, new) >= 1 /\ new + HeaderSize <= g.brk
      BY <1>1, <1>10, <2>2, <2>4, <3>1
    <3> QED BY <2>2, <3>1, <3>2, <3>3, <3>5, <3>6 DEF Placed
  <2>7. ASSUME NEW d \in D, d # b PROVE Placed(g, d)
    <3>1. /\ Size(g, d) = Size(h, d) /\ NextOf(g, d) = NextOf(h, d) /\ d # new /\ d \in Nat
          /\ PrevOf(g, d) = IF d = nxt THEN new ELSE PrevOf(h, d)
      BY <1>1, <1>7, <2>3, <2>7
    <3>2. Placed(h, d)
      BY <1>2, <2>7
    <3>3. Above(D \cup {new}, d, NextOf(h, d))
      <4>1. Above(D, d, NextOf(h, d)) /\ NextOf(h, d) \in Nat
        BY <1>0, <2>7, <3>2, GoodFields DEF Placed
      <4>2. d < b \/ new < d
        BY <1>1, <1>6, <2>7, <3>1
      <4>3. d < b => NextOf(h, d) # NoBlock /\ NextOf(h, d) <= new
        BY <1>1, <3>1, <4>1 DEF Above
      <4> QED BY <1>1, <3>1, <4>1, <4>2, <4>3, MoreAround
    <3>4. Below(D \cup {new}, d, PrevOf(g, d))
      <4>1. Below(D, d, PrevOf(h, d)) /\ PrevOf(h, d) \in Nat
        BY <1>0, <2>7, <3>2, GoodFields DEF Placed
      <4>2. CASE d = nxt
        BY <1>1, <1>3, <1>5, <1>6, <3>1, <4>2 DEF Below
      <4>3. CASE d # nxt
        <5>1. d < b \/ (nxt # NoBlock /\ nxt < d)
          BY <1>1, <1>3, <1>4, <2>7, <3>1, <4>3
        <5>2. nxt # NoBlock /\ nxt < d => PrevOf(h, d) # NoBlock /\ new <= PrevOf(h, d)
          BY <1>1, <1>3, <1>5, <3>1, <4>1 DEF Below
        <5> QED BY <1>1, <3>1, <4>1, <4>3, <5>1, <5>2, MoreAround
      <4> QED BY <4>2, <4>3
    <3>5. EndOf(g, d) = EndOf(h, d) /\ Limit(g, d) = Limit(h, d)
      BY <2>2, <3>1 DEF EndOf, Limit
    <3> QED BY <2>2, <3>1, <3>2, <3>3, <3>4, <3>5 DEF Placed
  <2>8. Headed(g)
    <3>1. Headed(h)
      BY DEF Good
    <3>2. h.head \in D /\ \A d \in D : h.head <= d
      BY <1>0, <1>1, <3>1 DEF Headed
    <3>3. h.head <= new
      <4>1. h.head \in Nat /\ h.head <= b /\ b < new
        BY <1>1, <3>2, GoodFields
      <4> QED BY <1>1, <4>1
    <3> QED BY <2>2, <3>2, <3>3 DEF Headed
  <2>9. IsFiniteSet(D \cup {new})
    BY <1>0, GoodFields, FS_AddElement
  <2>10. Start <= g.brk /\ g.brk % PageSize = 0
    BY <2>2, GoodFields
  <2>11. Fits(g)
    BY <1>0, <1>6, <2>1, CutFits
  <2> QED BY <2>2, <2>5, <2>6, <2>7, <2>8, <2>9, <2>10, <2>11 DEF Good
<1> QED BY <1>0, <1>1, <1>3, <1>5, <1>8, <1>9, <1>10
-----------------------------------------------------------------------------
(* A fault leaves the headers as they are.                                 *)
LEMMA FaultKeeps ==
  ASSUME NEW h, Good(h)
  PROVE  LET g == Faulting(h)
         IN  /\ Good(g) /\ Blocks(g) = Blocks(h) /\ FreeOnes(g) = FreeOnes(h)
             /\ \A d \in Blocks(h) : Size(g, d) = Size(h, d)
             /\ g.head = h.head /\ g.brk = h.brk /\ g.fault
<1>0. PICK g : g = Faulting(h)
  OBVIOUS
<1>1. h \in Heaps
  BY GoodFields DEF HeapType
<1>2. /\ g \in Heaps /\ g.hdr = h.hdr /\ g.head = h.head /\ g.brk = h.brk
  BY <1>0, <1>1 DEF Heaps, Faulting
<1>3. g.fault
  BY <1>0, <1>1 DEF Heaps, Faulting
<1>4. Blocks(g) = Blocks(h) /\ FreeOnes(g) = FreeOnes(h)
  BY <1>2 DEF Blocks, FreeOnes
<1>5. \A d : Size(g, d) = Size(h, d) /\ NextOf(g, d) = NextOf(h, d) /\ PrevOf(g, d) = PrevOf(h, d)
  BY <1>2 DEF Size, NextOf, PrevOf
<1>6. \A d : Placed(h, d) => Placed(g, d)
  BY <1>2, <1>4, <1>5 DEF Placed, EndOf, Limit
<1>7. HeapType(g)
  BY <1>2, GoodFields DEF HeapType, Blocks
<1>9. Fits(g)
  <2>1. Fits(h)
    BY DEF Good
  <2> QED BY <1>2, <1>3, <1>4, <1>5, <2>1, SameFits
<1>8. Good(g)
  BY <1>2, <1>4, <1>6, <1>7, <1>9 DEF Good, Headed
<1> QED BY <1>0, <1>2, <1>3, <1>4, <1>5, <1>8

(***************************************************************************)
(* split_block(): the list stays good, the other blocks in use keep their  *)
(* places and sizes, and b keeps at least size words if it had them.       *)
(***************************************************************************)
(* Every block but b is as before, in use or not.                           *)
Kept(h, g, b) == \A d \in Blocks(h) : d # b => d \in Blocks(g) /\ Size(g, d) = Size(h, d)

SplitDone(h, g, b, size) ==
  /\ Around(h, g, b)
  /\ b \in Blocks(g) /\ (b \in FreeOnes(g) <=> b \in FreeOnes(h))
  /\ size <= Size(h, b) => size <= Size(g, b)
  /\ Size(h, b) < size + MinBlkSize => g = h
  /\ ~g.fault => Size(g, b) < size + MinBlkSize
  /\ Even(h) /\ size % AlignSize = 0 => Even(g)
  /\ ~g.fault => \A Y : ApartBut(h, {b}, Y) => ApartBut(g, {b}, Y)
  /\ NextOf(h, b) = NoBlock => Kept(h, g, b)
  /\ g.brk = h.brk /\ (h.fault => g.fault) 

(* split_block() does what SplitDone says (kmalloc.c:107-140).             *)
LEMMA SplitKeeps ==
  ASSUME NEW h, Good(h), NEW b \in Blocks(h), NEW size \in Nat, size >= 1
  PROVE  SplitDone(h, split_block(h, b, size), b, size)
<1>0. PICK g : g = split_block(h, b, size)
  OBVIOUS
<1>1. /\ Blocks(h) \in SUBSET Nat /\ FreeOnes(h) \subseteq Blocks(h) /\ b \in Nat
      /\ Size(h, b) \in Nat /\ HeapType(h) /\ h.brk \in Nat
  BY GoodFields
<1>2. CASE Size(h, b) < size + MinBlkSize
  <2>1. g = h
    BY <1>0, <1>2 DEF split_block, Size, SizeIn
  <2> QED BY <1>0, <1>2, <2>1 DEF SplitDone, Around, Kept
<1>3. CASE ~(Size(h, b) < size + MinBlkSize)
  <2>0. PICK new, nxt, c : new = NewAt(b, size) /\ nxt = NextOf(h, b) /\ c = Cut(h, b, size)
    OBVIOUS
  <2>1. size + MinBlkSize <= Size(h, b)
    BY <1>1, <1>3 DEF MinBlkSize, HeaderSize, AlignSize
  <2>2. /\ CanCut(h, b, size) /\ new \in Nat /\ b < new
        /\ nxt # NoBlock => nxt \in Blocks(h) /\ new < nxt
        /\ nxt # NoBlock => NextOf(h, nxt) = NoBlock \/ NextOf(h, nxt) \in Blocks(h) \ {nxt, b}
        /\ new + HeaderSize <= h.brk => Good(c)
    BY <2>0, <2>1, CutKeeps
  <2>3. g = IF new + HeaderSize > h.brk THEN Faulting(h) ELSE merge_blocks(c, new, nxt)
    <3>1. g = SplitOff(h, b, size)
      BY <1>0, <1>3 DEF split_block, Size, SizeIn
    <3> QED BY <2>0, <2>2, <3>1, SplitIsCut
  <2>4. CASE new + HeaderSize > h.brk
    <3>1. g = Faulting(h)
      BY <2>3, <2>4
    <3>2. /\ Good(g) /\ Blocks(g) = Blocks(h) /\ FreeOnes(g) = FreeOnes(h)
          /\ \A d \in Blocks(h) : Size(g, d) = Size(h, d)
          /\ g.head = h.head /\ g.brk = h.brk /\ g.fault
      BY <3>1, FaultKeeps
    <3>3. Even(h) => Even(g)
      BY <3>2 DEF Even
    <3> QED BY <1>0, <1>1, <1>3, <3>2, <3>3 DEF SplitDone, Around, UsedOnes, Kept
  <2>5. CASE ~(new + HeaderSize > h.brk)
    <3>1. g = merge_blocks(c, new, nxt) /\ Good(c)
      BY <1>1, <2>2, <2>3, <2>5 DEF HeaderSize
    <3>2. IsCut(h, c, b, size)
      BY <2>0, <2>2, CutView
    <3>3. /\ Blocks(c) = Blocks(h) \cup {new} /\ FreeOnes(c) = FreeOnes(h) \cup {new}
          /\ new \notin Blocks(h) /\ c.brk = h.brk /\ c.fault = h.fault
      BY <2>0, <2>2, <3>2 DEF IsCut, CanCut
    <3>4. \A d \in Blocks(c) :
            /\ Size(c, d) = IF d = b THEN size
                            ELSE IF d = new THEN Size(h, b) - size - HeaderSize ELSE Size(h, d)
            /\ NextOf(c, d) = IF d = b THEN new ELSE IF d = new THEN nxt ELSE NextOf(h, d)
      BY <2>0, <3>2 DEF IsCut
    <3>5. NextOf(c, new) = nxt /\ Size(c, b) = size /\ b # new
      BY <1>1, <2>2, <3>3, <3>4
    <3>6. /\ MergedOrNot(c, g, new)
          /\ \A Y : nxt \notin {b} /\ ApartBut(c, {b} \cup {new}, Y) => ApartBut(g, {b}, Y)
      BY <3>1, <3>3, <3>5, MergeNext
    <3>7. b # nxt
      BY <2>0, <2>2 DEF CanCut
    <3>8. b \in Blocks(g) /\ Size(g, b) = size /\ (b \in FreeOnes(g) <=> b \in FreeOnes(h))
      BY <3>3, <3>5, <3>6, <3>7 DEF MergedOrNot
    <3>9. Around(h, g, b)
      <4>1. Good(g) /\ FreeOnes(g) = FreeOnes(c) \cap Blocks(g) /\ Blocks(g) \subseteq Blocks(c)
            /\ (\A d \in Blocks(c) \ Blocks(g) : d \in FreeOnes(c)) /\ new \in FreeOnes(g)
            /\ \A d \in Blocks(g) : d # new => Size(g, d) = Size(c, d)
        BY <3>3, <3>6 DEF MergedOrNot
      <4>2. ASSUME NEW d, d # b PROVE d \in UsedOnes(g) <=> d \in UsedOnes(h)
        BY <1>1, <3>3, <4>1 DEF UsedOnes
      <4>3. ASSUME NEW d \in UsedOnes(g), d # b PROVE Size(g, d) = Size(h, d)
        <5>1. d \in Blocks(g) /\ d # new
          BY <4>1, <4>3 DEF UsedOnes
        <5> QED BY <3>4, <4>1, <4>3, <5>1
      <4> QED BY <4>1, <4>2, <4>3 DEF Around
    <3>10. ASSUME Even(h), size % AlignSize = 0 PROVE Even(g)
      <4>1. b % 2 = 0 /\ Size(h, b) % 2 = 0 /\ size % 2 = 0
        BY <3>10 DEF Even, AlignSize
      <4>2. new % 2 = 0 /\ (Size(h, b) - size - 4) % 2 = 0
        <5>1. new = b + 4 + size /\ size + 6 <= Size(h, b)
          BY <2>0, <2>1 DEF NewAt, HeaderSize, MinBlkSize, AlignSize
        <5> QED BY <1>1, <4>1, <5>1
      <4>3. Even(c)
        <5>1. ASSUME NEW d \in Blocks(c) PROVE d % AlignSize = 0 /\ Size(c, d) % AlignSize = 0
          <6>1. CASE d = b
            BY <3>4, <4>1, <5>1, <6>1 DEF AlignSize
          <6>2. CASE d = new
            BY <3>4, <3>5, <4>2, <5>1, <6>2 DEF AlignSize, HeaderSize
          <6>3. CASE d # b /\ d # new
            BY <3>3, <3>4, <3>10, <5>1, <6>3 DEF Even
          <6> QED BY <6>1, <6>2, <6>3
        <5> QED BY <5>1 DEF Even
      <4> QED BY <3>6, <4>3 DEF MergedOrNot
    <3>11. ASSUME NEW Y, ApartBut(h, {b}, Y) PROVE ApartBut(g, {b}, Y)
      <4>1. ASSUME NEW d \in FreeOnes(c) \ ({b} \cup {new}), NextOf(c, d) \in FreeOnes(c) \ Y
            PROVE  EndOf(c, d) # NextOf(c, d)
        <5>1. d \in FreeOnes(h) \ {b} /\ d \in Blocks(h) /\ d \in Blocks(c) /\ d # b /\ d # new
          BY <1>1, <3>3, <4>1
        <5>2. NextOf(c, d) = NextOf(h, d) /\ Size(c, d) = Size(h, d)
          BY <3>4, <5>1
        <5>3. NextOf(h, d) \in FreeOnes(h) \ Y
          <6>1. NextOf(h, d) # new
            <7>1. NextOf(h, d) = NoBlock \/ NextOf(h, d) \in Blocks(h)
              BY <5>1, Neighbours
            <7>2. new # NoBlock
              BY <1>1, <2>2 DEF NoBlock
            <7> QED BY <3>3, <7>1, <7>2
          <6> QED BY <3>3, <4>1, <5>2, <6>1
        <5> QED BY <3>11, <5>1, <5>2, <5>3 DEF ApartBut, EndOf
      <4>2. ApartBut(c, {b} \cup {new}, Y)
        BY <4>1 DEF ApartBut
      <4> QED BY <3>6, <3>7, <4>2
    <3>12. g.brk = h.brk /\ g.fault = h.fault
      BY <3>3, <3>6 DEF MergedOrNot
    <3>13. ASSUME nxt = NoBlock PROVE Kept(h, g, b)
      <4>1. ASSUME NEW d \in Blocks(h), d # b PROVE d \in Blocks(g) /\ Size(g, d) = Size(h, d)
        <5>1. d \in Blocks(c) /\ d # new /\ d # NoBlock
          BY <3>3, <4>1, GoodFields
        <5>2. d \in Blocks(g) /\ Size(g, d) = Size(c, d)
          BY <3>5, <3>6, <3>13, <5>1 DEF MergedOrNot
        <5> QED BY <3>4, <4>1, <5>1, <5>2
      <4> QED BY <4>1 DEF Kept
    <3>14. Size(g, b) < size + MinBlkSize
      BY <3>8 DEF MinBlkSize, HeaderSize, AlignSize
    <3>15. size <= Size(h, b) => size <= Size(g, b)
      BY <1>1, <3>8
    <3> HIDE DEF Around
    <3>16. SplitDone(h, g, b, size)
      BY <1>3, <2>0, <3>8, <3>9, <3>10, <3>11, <3>12, <3>13, <3>14, <3>15, Zenon DEF SplitDone
    <3> QED BY <1>0, <3>16
  <2> QED BY <2>4, <2>5
<1> QED BY <1>2, <1>3
-----------------------------------------------------------------------------
(* The last block of the list is the one at the highest address.           *)
LEMMA LastBlock ==
  ASSUME NEW h, Good(h), Blocks(h) # {}
  PROVE  /\ Last(h) \in Blocks(h) /\ NextOf(h, Last(h)) = NoBlock
         /\ \A d \in Blocks(h) : d <= Last(h)
<1>1. /\ Blocks(h) \in SUBSET Nat /\ h.brk \in Nat /\ NoBlock = 0 /\ NoBlock \notin Blocks(h)
      /\ \A d \in Blocks(h) : d + 4 <= h.brk
  BY GoodFields DEF NoBlock, HeaderSize
<1> DEFINE Room == {r \in Nat : h.brk - r \in Blocks(h)}
<1>2. \A d \in Blocks(h) : h.brk - d \in Room
  BY <1>1
<1>3. Room # {} /\ Room \in SUBSET Nat
  BY <1>2
<1>4. PICK r \in Room : \A s \in Room : r <= s
  <2> HIDE DEF Room
  <2> QED BY <1>3, LeastElement
<1>5. PICK b : b = h.brk - r
  OBVIOUS
<1>6. b \in Blocks(h) /\ \A d \in Blocks(h) : d <= b
  <2>1. b \in Blocks(h) /\ r \in Nat
    BY <1>4, <1>5
  <2>2. ASSUME NEW d \in Blocks(h) PROVE d <= b
    <3>1. r <= h.brk - d /\ d \in Nat
      BY <1>1, <1>2, <1>4
    <3> QED BY <1>1, <1>5, <2>1, <3>1
  <2> QED BY <2>1, <2>2
<1>7. NextOf(h, b) = NoBlock
  <2>1. Above(Blocks(h), b, NextOf(h, b))
    BY <1>6 DEF Good, Placed
  <2> QED BY <1>1, <1>6, <2>1 DEF Above
<1>8. \E d \in DOMAIN h.hdr : h.hdr[d].next = NoBlock
  BY <1>6, <1>7 DEF Blocks, NextOf, NextIn
<1>9. Last(h) \in Blocks(h) /\ NextOf(h, Last(h)) = NoBlock
  BY <1>8 DEF Last, Blocks, NextOf, NextIn
<1>10. Above(Blocks(h), Last(h), NextOf(h, Last(h)))
  BY <1>9 DEF Good, Placed
<1> QED BY <1>1, <1>9, <1>10 DEF Above

(***************************************************************************)
(* What extend_mem() adds before it splits: a free block of total words at *)
(* the old break, and as much more memory.                                 *)
(***************************************************************************)
Grown(h, total) ==
  [h EXCEPT !.brk = h.brk + total, !.fault = h.fault \/ total > SizeMax]

Extended(h, total, prev) ==
  WithHdr(Grown(h, total), Put(Hdr(h), h.brk, FreeHeader(h.brk, total, NoBlock, prev)))

(* extend_mem() splits a whole number of bins (kmalloc.c:142-179).         *)
LEMMA ExtendIsSplit ==
  ASSUME NEW h, HeapType(h), NEW min \in Nat, NEW prev
  PROVE  LET total == RoundUp(min, BinSize)
         IN  /\ total \in Nat /\ total % PageSize = 0 /\ total % AlignSize = 0 /\ min <= total
             /\ extend_mem(h, min, prev, NoBlock) = split_block(Extended(h, total, prev), h.brk, min)
<1>0. PICK total : total = RoundUp(min, BinSize)
  OBVIOUS
<1>1. /\ BinSize \in Nat /\ BinSize > 0 /\ PageSize \in Nat /\ PageSize > 4 /\ HeaderSize = 4
      /\ BinSize % PageSize = 0 /\ PageSize % 2 = 0 /\ AlignSize = 2
  BY HeapAssumption DEF HeaderSize, AlignSize
<1>2. total \in Nat /\ total % BinSize = 0 /\ min <= total
  BY <1>0, <1>1, RoundedUp
<1>3. total % PageSize = 0
  <2>1. PageSize > 0
    BY <1>1
  <2> QED BY <1>1, <1>2, <2>1, MultipleOfMultiple
<1>4. total % AlignSize = 0
  <2>1. AlignSize \in Nat /\ AlignSize > 0 /\ PageSize > 0 /\ PageSize % AlignSize = 0
    BY <1>1, HeapAssumption
  <2> QED BY <1>1, <1>2, <1>3, <2>1, MultipleOfMultiple
<1>5. ((total + 4) \div PageSize) * PageSize = total
  <2>1. 4 \in 0..(PageSize - 1) /\ PageSize > 0
    BY <1>1
  <2> QED BY <1>1, <1>2, <1>3, <2>1, RoundedDown
<1>7. h \in Heaps
  BY DEF HeapType
<1>6. [kbrk(h, total + HeaderSize) EXCEPT !.fault = @ \/ total > SizeMax] = Grown(h, total)
  BY <1>1, <1>5, <1>7 DEF kbrk, Grown, Heaps
<1>8. Grown(h, total).hdr = h.hdr
  BY <1>7 DEF Grown, Heaps
<1>9. [Grown(h, total) EXCEPT !.hdr = Put(@, h.brk, Header0(h.brk, total, TRUE, NoBlock, prev))]
        = Extended(h, total, prev)
  BY <1>8 DEF Extended, WithHdr, FreeHeader, Hdr
<1>10. extend_mem(h, min, prev, NoBlock) = split_block(Extended(h, total, prev), h.brk, min)
  BY <1>0, <1>6, <1>9 DEF extend_mem
<1> QED BY <1>0, <1>1, <1>2, <1>3, <1>4, <1>10

(* The fields of a heap with a block at its end.                           *)
LEMMA ExtendView ==
  ASSUME NEW h, HeapType(h), h.brk \notin Blocks(h), NEW total \in Nat, NEW prev \in Nat
  PROVE  LET g == Extended(h, total, prev)
             b == h.brk
         IN  /\ HeapType(g) /\ Blocks(g) = Plus(Blocks(h), b) /\ FreeOnes(g) = FreeOnes(h) \cup {b}
             /\ \A d \in Blocks(h) : /\ Size(g, d) = Size(h, d) /\ NextOf(g, d) = NextOf(h, d)
                                     /\ PrevOf(g, d) = PrevOf(h, d)
             /\ Size(g, b) = total /\ NextOf(g, b) = NoBlock /\ PrevOf(g, b) = prev
             /\ g.head = h.head /\ g.brk = h.brk + total
             /\ g.fault = (h.fault \/ total > SizeMax)
<1>0. PICK D, E, b, f, k, g : /\ D = Blocks(h) /\ b = h.brk /\ E = Plus(D, b) /\ k = Grown(h, total)
                              /\ f = Put(Hdr(h), b, FreeHeader(b, total, NoBlock, prev))
                              /\ g = WithHdr(k, f)
  OBVIOUS
<1>1. /\ D \in SUBSET Nat /\ Hdr(h) \in Headers(D) /\ b \in Nat /\ b \notin D /\ NoBlock \in Nat
      /\ h \in Heaps
  BY <1>0, HeapFields DEF NoBlock, HeapType
<1>2. /\ k \in Heaps /\ k.hdr = h.hdr /\ k.head = h.head /\ k.brk = b + total
      /\ k.fault = (h.fault \/ total > SizeMax)
  <2>1. PICK x, y : x = (h.fault \/ total > SizeMax) /\ y = b + total
    OBVIOUS
  <2>2. x \in BOOLEAN /\ y \in Nat
    BY <1>1, <2>1
  <2>3. k = [h EXCEPT !.brk = y, !.fault = x]
    BY <1>0, <2>1 DEF Grown
  <2>4. k \in Heaps /\ k.hdr = h.hdr /\ k.head = h.head /\ k.brk = y /\ k.fault = x
    BY <1>1, <2>2, <2>3 DEF Heaps
  <2> QED BY <2>1, <2>4
<1>3. HeapType(k)
  BY <1>2 DEF HeapType, Blocks
<1>4. f = Put(Hdr(h), b, FreeHeader(b, total, NoBlock, prev))
  BY <1>0
<1>5. /\ f \in Headers(Plus(D, b)) /\ FreeIn(f) = FreeIn(Hdr(h)) \cup {b}
      /\ SamePtr(D, Hdr(h), f) /\ SameSize(D, Hdr(h), f)
      /\ SameNext(D, Hdr(h), f) /\ SamePrev(D, Hdr(h), f)
      /\ PtrIn(f, b) = b + HeaderSize /\ SizeIn(f, b) = total
      /\ NextIn(f, b) = NoBlock /\ PrevIn(f, b) = prev
  BY <1>1, <1>4, PutIn
<1>6. E \in SUBSET Nat /\ \A d \in E : d \in D \/ d = b
  BY <1>0, <1>1 DEF Plus
<1>7. \A d \in E : PtrIn(f, d) = d + HeaderSize
  BY <1>0, <1>5, <1>6 DEF HeapType, SamePtr, Hdr
<1>8. f \in Headers(E)
  BY <1>0, <1>5
<1>9. /\ HeapType(g) /\ Blocks(g) = E /\ FreeOnes(g) = FreeIn(f)
      /\ \A d \in E : /\ Size(g, d) = SizeIn(f, d) /\ NextOf(g, d) = NextIn(f, d)
                       /\ PrevOf(g, d) = PrevIn(f, d)
      /\ g.head = k.head /\ g.brk = k.brk /\ g.fault = k.fault
  BY <1>0, <1>3, <1>6, <1>7, <1>8, WithHeaders
<1>10. g = Extended(h, total, prev)
  BY <1>0 DEF Extended
<1>11. b \in E /\ D \subseteq E
  BY <1>0 DEF Plus
<1>12. FreeIn(Hdr(h)) = FreeOnes(h) /\ \A d : SizeIn(Hdr(h), d) = Size(h, d)
       /\ NextIn(Hdr(h), d) = NextOf(h, d) /\ PrevIn(Hdr(h), d) = PrevOf(h, d)
  BY DEF FreeOnes, Hdr, Size, NextOf, PrevOf
<1>13. \A d \in D : /\ Size(g, d) = Size(h, d) /\ NextOf(g, d) = NextOf(h, d)
                    /\ PrevOf(g, d) = PrevOf(h, d)
  BY <1>5, <1>9, <1>11, <1>12 DEF SameSize, SameNext, SamePrev
<1> QED BY <1>0, <1>2, <1>5, <1>9, <1>10, <1>11, <1>12, <1>13
-----------------------------------------------------------------------------
(***************************************************************************)
(* get_empty_mem() links the last block to the new one after extend_mem()  *)
(* has split it; it might as well do it before.                            *)
(***************************************************************************)
WithNext(h, k, y) == [h EXCEPT !.hdr[k].next = y]

(* A next link assigned, as headers given, and before or after a fault.    *)
LEMMA WithNextHdr ==
  ASSUME NEW h, IsHeapRecord(h), NEW k, NEW y
  PROVE  /\ WithNext(h, k, y) = WithHdr(h, SetNext(h.hdr, k, y))
         /\ WithNext(Faulting(h), k, y) = Faulting(WithNext(h, k, y))
<1>1. WithNext(h, k, y) = WithHdr(h, SetNext(h.hdr, k, y))
  BY DEF IsHeapRecord, WithNext, WithHdr, SetNext
<1>2. PICK g : g = Faulting(h)
  OBVIOUS
<1>3. IsHeapRecord(g) /\ g.hdr = h.hdr
  BY <1>2 DEF IsHeapRecord, Faulting
<1>4. WithNext(g, k, y) = WithHdr(g, SetNext(h.hdr, k, y))
  BY <1>3 DEF IsHeapRecord, WithNext, WithHdr, SetNext
<1>5. WithHdr(g, SetNext(h.hdr, k, y)) = Faulting(WithHdr(h, SetNext(h.hdr, k, y)))
  BY <1>2 DEF IsHeapRecord, WithHdr, Faulting
<1> QED BY <1>1, <1>2, <1>4, <1>5

(* Linking the last block commutes with the split of the new one.          *)
LEMMA LinkCommutes ==
  ASSUME NEW h, HeapType(h), NoBlock \notin Blocks(h), NEW b \in Blocks(h), NextOf(h, b) = NoBlock,
         NEW last \in Blocks(h), last # b, NEW size \in Nat, \A d \in Blocks(h) : d <= b
  PROVE  WithNext(split_block(h, b, size), last, b) = split_block(WithNext(h, last, b), b, size)
<1>0. PICK f, k, g, v, new, E : 
          /\ f = Hdr(h) /\ k = SetNext(f, last, b) /\ g = WithNext(h, last, b)
          /\ v = NextGiven(f[last], b) /\ new = NewAt(b, size) /\ E = Plus(Blocks(h), new)
  OBVIOUS
<1>1. /\ Blocks(h) \in SUBSET Nat /\ f \in Headers(Blocks(h)) /\ b \in Nat /\ last \in Nat
      /\ Size(h, b) \in Nat /\ h.brk \in Nat /\ DOMAIN f = Blocks(h)
      /\ new \in Nat /\ b < new /\ h \in Heaps
  BY <1>0, HeapFields DEF Headers, NewAt, HeaderSize, HeapType
<1>2. IsHeapRecord(h) /\ h.hdr = f
  BY <1>0, <1>1 DEF Heaps, IsHeapRecord, Hdr
<1>3. g = WithHdr(h, k)
  BY <1>0, <1>2, WithNextHdr
<1>4. /\ k \in Headers(Blocks(h))
      /\ SamePtr(Blocks(h), f, k) /\ SameSize(Blocks(h), f, k)
      /\ \A d \in Blocks(h) : NextIn(k, d) = IF d = last THEN b ELSE NextIn(f, d)
  <2>1. PICK D : D = Blocks(h)
    OBVIOUS
  <2>2. k = SetNext(f, last, b) /\ f \in Headers(D) /\ last \in D /\ b \in Nat
    BY <1>0, <1>1, <2>1
  <2>3. /\ k \in Headers(D) /\ SamePtr(D, f, k) /\ SameSize(D, f, k)
        /\ \A d \in D : NextIn(k, d) = IF d = last THEN b ELSE NextIn(f, d)
    BY <2>2, NextSet
  <2> QED BY <2>1, <2>3
<1>5. /\ HeapType(g) /\ Hdr(g) = k /\ Blocks(g) = Blocks(h)
      /\ \A d \in Blocks(h) : Size(g, d) = SizeIn(k, d) /\ NextOf(g, d) = NextIn(k, d)
      /\ g.brk = h.brk
  <2>1. \A d \in Blocks(h) : PtrIn(k, d) = d + HeaderSize
    BY <1>2, <1>4 DEF HeapType, SamePtr
  <2> QED BY <1>1, <1>3, <1>4, <2>1, WithHeaders
<1>6. Size(g, b) = Size(h, b) /\ NextOf(g, b) = NoBlock
  BY <1>2, <1>4, <1>5 DEF SameSize, Size, NextOf
<1>7. CASE Size(h, b) < size + MinBlkSize
  BY <1>0, <1>6, <1>7 DEF split_block, Size, SizeIn
<1>8. CASE ~(Size(h, b) < size + MinBlkSize)
  <2>1. split_block(h, b, size) = SplitOff(h, b, size) /\ split_block(g, b, size) = SplitOff(g, b, size)
    BY <1>6, <1>8 DEF split_block, Size, SizeIn
  <2>2. size + HeaderSize <= Size(h, b) /\ new \notin Blocks(h) /\ NoBlock = 0
    BY <1>1, <1>8 DEF MinBlkSize, HeaderSize, AlignSize, NoBlock
  <2>3. CanCut(h, b, size) /\ CanCut(g, b, size)
    BY <1>0, <1>5, <1>6, <2>2 DEF CanCut
  <2>4. /\ SplitOff(h, b, size) = IF new + HeaderSize > h.brk THEN Faulting(h) ELSE Cut(h, b, size)
        /\ SplitOff(g, b, size) = IF new + HeaderSize > h.brk THEN Faulting(g) ELSE Cut(g, b, size)
    <3>1. \A x : merge_blocks(x, new, NoBlock) = x
      BY DEF merge_blocks
    <3> QED BY <1>0, <1>5, <1>6, <2>3, <3>1, SplitIsCut
  <2>5. Cut(g, b, size) = WithNext(Cut(h, b, size), last, b)
    <3>0. PICK r, p, q, w, x, y :
            /\ r = FreeHeader(new, Size(h, b) - size - HeaderSize, NoBlock, b)
            /\ p = Put(f, new, r) /\ q = Put(k, new, r) /\ w = Given(f[b], size, new)
            /\ x = SetNext(SetSize(p, b, size), b, new) /\ y = SetNext(SetSize(q, b, size), b, new)
      OBVIOUS
    <3>1. p = LinkedHdr(h, b, size) /\ q = LinkedHdr(g, b, size)
      BY <1>0, <1>5, <1>6, <3>0 DEF LinkedHdr
    <3>2. Cut(h, b, size) = WithHdr(h, x) /\ Cut(g, b, size) = WithHdr(g, y)
      BY <1>0, <3>0, <3>1 DEF Cut
    <3>3. f = [d \in DOMAIN f |-> f[d]] /\ k = Alter(f, last, v)
      <4>1. f = [d \in DOMAIN f |-> f[d]]
        BY <1>1 DEF Headers
      <4> QED BY <1>0, <1>1, <4>1, Assignments
    <3>4. last # new /\ b # new
      BY <1>1, <2>2
    <3>5. q = Alter(p, last, v)
      BY <3>0, <3>3, <3>4, AlterCommutes
    <3>6. /\ p = [d \in DOMAIN p |-> p[d]] /\ DOMAIN p = Blocks(h) \cup {new}
          /\ p[b] = f[b] /\ p[last] = f[last]
      BY <1>1, <3>0, <3>4 DEF Put
    <3>7. q = [d \in DOMAIN q |-> q[d]] /\ DOMAIN q = DOMAIN p /\ q[b] = f[b]
      BY <3>5, <3>6 DEF Alter
    <3>8. x = Alter(p, b, w)
      BY <3>0, <3>6, GivenBoth
    <3>9. y = Alter(q, b, w)
      BY <3>0, <3>6, <3>7, GivenBoth
    <3>10. y = Alter(x, last, v)
      BY <3>5, <3>8, <3>9, AlterCommutes
    <3>11. x = [d \in DOMAIN x |-> x[d]] /\ last \in DOMAIN x /\ x[last] = f[last]
      BY <3>6, <3>8 DEF Alter
    <3>12. SetNext(x, last, b) = y
      BY <1>0, <3>10, <3>11, Assignments
    <3>13. PICK z : z = WithHdr(h, x)
      OBVIOUS
    <3>14. IsHeapRecord(z) /\ z.hdr = x
      BY <1>1, <3>13 DEF Heaps, IsHeapRecord, WithHdr
    <3>15. WithNext(z, last, b) = WithHdr(z, y)
      BY <3>12, <3>14, WithNextHdr
    <3>16. WithHdr(z, y) = WithHdr(h, y) /\ WithHdr(g, y) = WithHdr(h, y)
      BY <1>3, <3>13, WithHdrLast
    <3> QED BY <3>2, <3>13, <3>15, <3>16
  <2>6. Faulting(g) = WithNext(Faulting(h), last, b)
    BY <1>0, <1>2, WithNextHdr
  <2> QED BY <1>0, <2>1, <2>4, <2>5, <2>6
<1> QED BY <1>7, <1>8
-----------------------------------------------------------------------------
(* The heap with one more block at its end.                                *)
Linked(h, total) == WithNext(Extended(h, total, Last(h)), Last(h), h.brk)

(* A block put at the end is in a bin of its own.                          *)
LEMMA LinkedFits ==
  ASSUME NEW h, Good(h), NEW g, NEW b, NEW last, NEW total \in Nat,
         b = h.brk, last \in Blocks(h), NextOf(h, last) = NoBlock, b \notin Blocks(h),
         \A d \in Blocks(h) : d <= last,
         Blocks(g) = Blocks(h) \cup {b}, g.brk = b + total,
         g.fault = (h.fault \/ total > SizeMax),
         \A d \in Blocks(h) : /\ Size(g, d) = Size(h, d)
                               /\ NextOf(g, d) = IF d = last THEN b ELSE NextOf(h, d),
         Size(g, b) = total, NextOf(g, b) = NoBlock
  PROVE  Fits(g)
<1>1. /\ Blocks(h) \in SUBSET Nat /\ b \in Nat /\ NoBlock = 0 /\ NoBlock \notin Blocks(h)
      /\ HeaderSize = 4 /\ last \in Nat /\ SizeMax \in Nat
      /\ \A d \in Blocks(h) : Size(h, d) \in Nat /\ NextOf(h, d) \in Nat /\ d + 4 <= b
  BY GoodFields, HeapAssumption DEF NoBlock, HeaderSize
<1>2. Fits(h)
  BY DEF Good
<1>3. EndOf(g, b) = b + 4 + total /\ \A d \in Blocks(h) : EndOf(g, d) = EndOf(h, d)
  BY <1>1 DEF EndOf
<1>4. EndOf(h, last) = b + 4
  BY <1>1, <1>2 DEF Fits
<1>5. last \in Over(g) /\ \A d \in Over(h) : d \in Over(g)
  BY <1>1, <1>3, <1>4 DEF Over
<1>6. ASSUME NEW d \in Blocks(h), NextOf(h, d) = NoBlock PROVE d = last
  <2>1. Above(Blocks(h), d, NoBlock)
    BY <1>6 DEF Good, Placed
  <2>2. last <= d /\ d <= last
    BY <1>1, <2>1 DEF Above
  <2> QED BY <1>1, <2>2
<1>7. \A d \in Blocks(g) : NextOf(g, d) = NoBlock => EndOf(g, d) = g.brk + HeaderSize
  <2>1. b # NoBlock
    BY <1>1, HeapAssumption, GoodFields DEF NoBlock
  <2> QED BY <1>1, <1>3, <1>6, <2>1
<1>8. ASSUME ~g.fault, NEW x \in Blocks(g), NEW y \in Blocks(g), x <= y
      PROVE  FitsPair(g, x, y)
  <2>0. ~h.fault /\ ~(total > SizeMax)
    BY <1>8, Zenon
  <2>1. ~h.fault /\ total <= SizeMax
    BY <1>1, <2>0
  <2>2. CASE y = b /\ x = b
    BY <1>1, <1>3, <2>1, <2>2 DEF FitsPair
  <2>3. CASE y = b /\ x # b
    <3>1. x \in Blocks(h) /\ x <= last /\ last < b
      BY <1>1, <2>3
    <3> QED BY <1>5, <2>3, <3>1 DEF FitsPair
  <2>4. CASE y # b
    <3>1. x \in Blocks(h) /\ y \in Blocks(h)
      BY <1>1, <1>8, <2>4
    <3>2. FitsPair(h, x, y)
      BY <1>2, <1>8, <2>1, <3>1 DEF Fits
    <3> QED BY <1>3, <1>5, <3>1, <3>2 DEF FitsPair
  <2> QED BY <2>2, <2>3, <2>4
<1> QED BY <1>7, <1>8 DEF Fits

(* The list is good with one more block linked at its end.                 *)
LEMMA LinkedKeeps ==
  ASSUME NEW h, Good(h), Blocks(h) # {}, NEW total \in Nat, total >= 1, total % PageSize = 0
  PROVE  LET g == Linked(h, total)
             b == h.brk
         IN  /\ Good(g) /\ Blocks(g) = Blocks(h) \cup {b} /\ FreeOnes(g) = FreeOnes(h) \cup {b}
             /\ b \notin Blocks(h) /\ b \in Nat
             /\ \A d \in Blocks(h) : Size(g, d) = Size(h, d)
             /\ \A d \in Blocks(h) : NextOf(g, d) = IF d = Last(h) THEN b ELSE NextOf(h, d)
             /\ Size(g, b) = total /\ NextOf(g, b) = NoBlock
             /\ g.fault = (h.fault \/ total > SizeMax) /\ g.brk = b + total
<1>0. PICK D, E, b, last, k, f, m, g :
        /\ D = Blocks(h) /\ b = h.brk /\ E = Plus(D, b) /\ last = Last(h)
        /\ k = Extended(h, total, last) /\ f = Hdr(k) /\ m = SetNext(f, last, b)
        /\ g = WithNext(k, last, b)
  OBVIOUS
<1>1. /\ D \in SUBSET Nat /\ b \in Nat /\ NoBlock = 0 /\ NoBlock \notin D /\ HeaderSize = 4
      /\ last \in D /\ NextOf(h, last) = NoBlock /\ \A d \in D : d <= last
      /\ HeapType(h) /\ \A d \in D : d + 4 <= b
  BY <1>0, GoodFields, LastBlock DEF NoBlock, HeaderSize
<1>2. b \notin D /\ last \in Nat /\ b # NoBlock /\ Start \in Nat /\ Start <= b /\ b % PageSize = 0
  BY <1>0, <1>1, GoodFields, HeapAssumption
<1>3. /\ HeapType(k) /\ Blocks(k) = E /\ FreeOnes(k) = FreeOnes(h) \cup {b}
      /\ \A d \in D : /\ Size(k, d) = Size(h, d) /\ NextOf(k, d) = NextOf(h, d)
                      /\ PrevOf(k, d) = PrevOf(h, d)
      /\ Size(k, b) = total /\ NextOf(k, b) = NoBlock /\ PrevOf(k, b) = last
      /\ k.head = h.head /\ k.brk = b + total
      /\ k.fault = (h.fault \/ total > SizeMax)
  <2>1. HeapType(h) /\ h.brk \notin Blocks(h) /\ last \in Nat
    BY <1>0, <1>1, <1>2
  <2> QED BY <1>0, <2>1, ExtendView
<1>4. E \in SUBSET Nat /\ last \in E /\ b \in E /\ f \in Headers(E) /\ IsHeapRecord(k) /\ k.hdr = f
  <2>1. k \in Heaps
    BY <1>3 DEF HeapType
  <2> QED BY <1>0, <1>1, <1>3, <2>1, HeapFields DEF Plus, IsHeapRecord, Heaps, Hdr
<1>5. /\ m \in Headers(E) /\ FreeIn(m) = FreeIn(f)
      /\ SamePtr(E, f, m) /\ SameSize(E, f, m) /\ SamePrev(E, f, m)
      /\ \A d \in E : NextIn(m, d) = IF d = last THEN b ELSE NextIn(f, d)
  <2>1. m = SetNext(f, last, b)
    BY <1>0
  <2> QED BY <1>1, <1>4, <2>1, NextSet
<1>6. g = WithHdr(k, m)
  BY <1>0, <1>4, WithNextHdr
<1>7. \A d \in E : PtrIn(m, d) = d + HeaderSize
  BY <1>3, <1>4, <1>5 DEF HeapType, SamePtr
<1>8. /\ HeapType(g) /\ Blocks(g) = E /\ FreeOnes(g) = FreeIn(m)
      /\ \A d \in E : /\ Size(g, d) = SizeIn(m, d) /\ NextOf(g, d) = NextIn(m, d)
                       /\ PrevOf(g, d) = PrevIn(m, d)
      /\ g.head = k.head /\ g.brk = k.brk /\ g.fault = k.fault
  BY <1>3, <1>4, <1>5, <1>6, <1>7, WithHeaders
<1>9. /\ FreeIn(f) = FreeOnes(k)
      /\ \A d : SizeIn(f, d) = Size(k, d) /\ NextIn(f, d) = NextOf(k, d) /\ PrevIn(f, d) = PrevOf(k, d)
  BY <1>0 DEF FreeOnes, Hdr, Size, NextOf, PrevOf
<1>10. E = D \cup {b}
  BY <1>0 DEF Plus
<1>11. /\ \A d \in D : /\ Size(g, d) = Size(h, d)
                       /\ NextOf(g, d) = IF d = last THEN b ELSE NextOf(h, d)
                       /\ PrevOf(g, d) = PrevOf(h, d)
       /\ Size(g, b) = total /\ NextOf(g, b) = NoBlock /\ PrevOf(g, b) = last
       /\ FreeOnes(g) = FreeOnes(h) \cup {b}
  BY <1>1, <1>2, <1>3, <1>5, <1>8, <1>9, <1>10 DEF SameSize, SamePrev
<1>12. Good(g)
  <2>1. Placed(g, b)
    <3>1. Above(E, b, NoBlock)
      BY <1>1, <1>2, <1>10 DEF Above
    <3>2. Below(E, b, last)
      BY <1>1, <1>2, <1>10 DEF Below
    <3>3. EndOf(g, b) = g.brk + HeaderSize /\ Limit(g, b) = g.brk
      BY <1>1, <1>2, <1>3, <1>8, <1>11 DEF EndOf, Limit
    <3>4. (b + total) % PageSize = 0
      <4>1. PageSize \in Nat /\ PageSize > 0
        BY HeapAssumption DEF HeaderSize
      <4> QED BY <1>1, <1>2, <4>1, SumMultiple
    <3>5. PageSize \in Nat /\ PageSize >= 5
      BY HeapAssumption DEF HeaderSize
    <3>6. total >= 4
      <4>1. total < PageSize => total % PageSize = total
        BY <3>5
      <4> QED BY <3>5, <4>1
    <3>7. b + HeaderSize <= g.brk
      BY <1>1, <1>3, <1>8, <3>6
    <3> QED BY <1>2, <1>3, <1>8, <1>11, <3>1, <3>2, <3>3, <3>4, <3>7 DEF Placed
  <2>2. ASSUME NEW d \in D PROVE Placed(g, d)
    <3>1. Placed(h, d) /\ d \in Nat /\ d <= last /\ d + 4 <= b
      BY <1>0, <1>1, <2>2 DEF Good
    <3>2. Above(E, d, NextOf(g, d))
      <4>1. CASE d = last
        BY <1>1, <1>2, <1>10, <1>11, <2>2, <4>1 DEF Above
      <4>2. CASE d # last
        <5>1. Above(D, d, NextOf(h, d)) /\ NextOf(h, d) \in Nat
          BY <1>0, <2>2, <3>1, GoodFields DEF Placed
        <5>2. NextOf(h, d) # NoBlock /\ NextOf(h, d) <= b
          BY <1>1, <1>2, <3>1, <4>2, <5>1 DEF Above
        <5> QED BY <1>1, <1>10, <1>11, <2>2, <3>1, <4>2, <5>1, <5>2, MoreAround
      <4> QED BY <4>1, <4>2
    <3>3. Below(E, d, PrevOf(g, d))
      <4>1. Below(D, d, PrevOf(h, d)) /\ PrevOf(h, d) \in Nat
        BY <1>0, <2>2, <3>1, GoodFields DEF Placed
      <4>2. d <= b
        BY <1>1, <3>1
      <4> QED BY <1>1, <1>10, <1>11, <2>2, <3>1, <4>1, <4>2, MoreAround
    <3>4. EndOf(g, d) = EndOf(h, d) /\ Limit(g, d) = Limit(h, d)
      <4>1. EndOf(g, d) = EndOf(h, d)
        BY <1>11, <2>2 DEF EndOf
      <4>2. CASE d = last
        BY <1>0, <1>1, <1>2, <1>11, <2>2, <4>1, <4>2 DEF Limit
      <4>3. CASE d # last
        <5>1. Above(D, d, NextOf(h, d))
          BY <1>0, <3>1 DEF Placed
        <5>2. NextOf(h, d) # NoBlock
          BY <1>1, <1>2, <3>1, <4>3, <5>1 DEF Above
        <5> QED BY <1>11, <2>2, <4>1, <4>3, <5>2 DEF Limit
      <4> QED BY <4>1, <4>2, <4>3
    <3>5. d + HeaderSize <= g.brk /\ Start <= d /\ Size(g, d) >= 1
      BY <1>0, <1>1, <1>3, <1>8, <1>11, <2>2, <3>1 DEF Placed
    <3> QED BY <1>8, <3>1, <3>2, <3>3, <3>4, <3>5 DEF Placed
  <2>3. Headed(g)
    <3>1. h.head \in D /\ \A d \in D : h.head <= d
      BY <1>0, <1>1 DEF Good, Headed
    <3>2. h.head <= b
      <4>1. h.head \in Nat /\ h.head + 4 <= b
        BY <1>1, <3>1
      <4> QED BY <1>1, <4>1
    <3> QED BY <1>3, <1>8, <1>10, <3>1, <3>2 DEF Headed
  <2>4. IsFiniteSet(E)
    BY <1>0, <1>10, GoodFields, FS_AddElement
  <2>5. Start <= g.brk /\ g.brk % PageSize = 0
    <3>1. (b + total) % PageSize = 0
      <4>1. PageSize \in Nat /\ PageSize > 0
        BY HeapAssumption DEF HeaderSize
      <4> QED BY <1>1, <1>2, <4>1, SumMultiple
    <3> QED BY <1>1, <1>2, <1>3, <1>8, <3>1
  <2>6. Fits(g)
    <3>1. /\ Blocks(g) = Blocks(h) \cup {b} /\ g.brk = b + total
          /\ g.fault = (h.fault \/ total > SizeMax)
          /\ \A d \in Blocks(h) : /\ Size(g, d) = Size(h, d)
                                   /\ NextOf(g, d) = IF d = last THEN b ELSE NextOf(h, d)
          /\ last \in Blocks(h) /\ \A d \in Blocks(h) : d <= last
      BY <1>0, <1>1, <1>3, <1>8, <1>10, <1>11
    <3>2. /\ b = h.brk /\ b \notin Blocks(h) /\ NextOf(h, last) = NoBlock
          /\ Size(g, b) = total /\ NextOf(g, b) = NoBlock
      BY <1>0, <1>1, <1>2, <1>11
    <3> QED BY <3>1, <3>2, LinkedFits
  <2> QED BY <1>8, <1>10, <2>1, <2>2, <2>3, <2>4, <2>5, <2>6 DEF Good
<1> QED BY <1>0, <1>1, <1>2, <1>3, <1>8, <1>10, <1>11, <1>12 DEF Linked
-----------------------------------------------------------------------------
(* No free block ends where b begins.                                      *)
LeftApart(h, b) == \A d \in FreeOnes(h) : NextOf(h, d) = b => EndOf(h, d) # b

(***************************************************************************)
(* A block taken for a caller: it was not in use and is, with at least     *)
(* size words; the other blocks in use are as before, and every other      *)
(* block if it is a new one.                                               *)
(***************************************************************************)
Taken(h, g, b, size) ==
  /\ Around(h, g, b)
  /\ b \in UsedOnes(g) /\ b \notin UsedOnes(h) /\ size <= Size(g, b)
  /\ Even(h) /\ size % AlignSize = 0 => Even(g)
  /\ ~g.fault /\ ApartBut(h, {b}, {b}) => Apart(g)
  /\ ~g.fault /\ b \in Blocks(h) /\ ApartBut(h, {b}, {}) => LeftApart(g, b)
  /\ ~g.fault /\ b \notin Blocks(h) => Kept(h, g, b)
  /\ h.fault => g.fault

Take(h, b, size) == Used(split_block(h, b, size), b)

(* A free block is taken by splitting and marking it.                      *)
LEMMA TakeKeeps ==
  ASSUME NEW h, Good(h), NEW b \in FreeOnes(h), NEW size \in Nat, size >= 1, size <= Size(h, b)
  PROVE  /\ Taken(h, Take(h, b, size), b, size)
         /\ Size(h, b) < size + MinBlkSize => Kept(h, Take(h, b, size), b)
<1>0. PICK s, g : s = split_block(h, b, size) /\ g = Used(s, b)
  OBVIOUS
<1>1. b \in Blocks(h) /\ SplitDone(h, s, b, size)
  <2>1. b \in Blocks(h)
    BY GoodFields
  <2> QED BY <1>0, <2>1, SplitKeeps
<1>2. /\ Good(s) /\ b \in Blocks(s) /\ b \in FreeOnes(s) /\ FreeOnes(s) \subseteq Blocks(s)
      /\ size <= Size(s, b)
  BY <1>1, GoodFields DEF SplitDone, Around
<1>3. /\ Good(g) /\ Blocks(g) = Blocks(s) /\ FreeOnes(g) = FreeOnes(s) \ {b}
      /\ \A d \in Blocks(s) : Size(g, d) = Size(s, d) /\ NextOf(g, d) = NextOf(s, d)
      /\ g.fault = s.fault
  BY <1>0, <1>2, MarkedViews DEF SameList
<1>4. Around(h, g, b) /\ b \in UsedOnes(g) /\ b \notin UsedOnes(h) /\ size <= Size(g, b)
  BY <1>1, <1>2, <1>3 DEF SplitDone, Around, UsedOnes
<1>5. Even(h) /\ size % AlignSize = 0 => Even(g)
  BY <1>1, <1>3 DEF SplitDone, Even
<1>6. ~g.fault /\ ApartBut(h, {b}, {b}) => Apart(g)
  BY <1>1, <1>2, <1>3 DEF SplitDone, ApartBut, Apart, EndOf
<1>7. h.fault => g.fault
  BY <1>1, <1>3 DEF SplitDone
<1>8. ~g.fault /\ ApartBut(h, {b}, {}) => LeftApart(g, b)
  <2>1. ASSUME ~g.fault, ApartBut(h, {b}, {}), NEW d \in FreeOnes(g), NextOf(g, d) = b
        PROVE  EndOf(g, d) # b
    <3>1. ApartBut(s, {b}, {})
      BY <1>1, <1>3, <2>1 DEF SplitDone
    <3>2. d \in FreeOnes(s) \ {b} /\ d \in Blocks(s) /\ NextOf(s, d) = b /\ EndOf(g, d) = EndOf(s, d)
      BY <1>2, <1>3, <2>1 DEF EndOf
    <3> QED BY <1>2, <3>1, <3>2 DEF ApartBut
  <2> QED BY <2>1 DEF LeftApart
<1>9. Size(h, b) < size + MinBlkSize => Kept(h, g, b)
  BY <1>1, <1>3 DEF SplitDone, Kept
<1> QED BY <1>0, <1>1, <1>4, <1>5, <1>6, <1>7, <1>8, <1>9 DEF Taken, Take

(* A block behind the last one, taken.                                     *)
LEMMA TakeNewKeeps ==
  ASSUME NEW h, Good(h), Blocks(h) # {}, NEW size \in Nat, size >= 1
  PROVE  /\ Taken(h, Take(Appended(h, size), h.brk, size), h.brk, size)
         /\ h.brk \notin Blocks(h)
<1>0. PICK b, last, total, k, m, a, g :
        /\ b = h.brk /\ last = Last(h) /\ total = RoundUp(size, BinSize)
        /\ k = Extended(h, total, last) /\ m = Linked(h, total)
        /\ a = Appended(h, size) /\ g = Take(a, b, size)
  OBVIOUS
<1>1. /\ HeapType(h) /\ Blocks(h) \in SUBSET Nat /\ last \in Blocks(h) /\ last \in Nat /\ b \in Nat
      /\ FreeOnes(h) \subseteq Blocks(h)
      /\ \A d \in Blocks(h) : d + 4 <= b
  BY <1>0, GoodFields, LastBlock DEF HeaderSize
<1>2. /\ total \in Nat /\ total % PageSize = 0 /\ total % AlignSize = 0 /\ size <= total
      /\ extend_mem(h, size, last, NoBlock) = split_block(k, b, size)
  BY <1>0, <1>1, ExtendIsSplit
<1>3. total >= 1
  BY <1>2
<1>4. /\ Good(m) /\ Blocks(m) = Blocks(h) \cup {b} /\ FreeOnes(m) = FreeOnes(h) \cup {b}
      /\ b \notin Blocks(h)
      /\ \A d \in Blocks(h) : Size(m, d) = Size(h, d)
      /\ \A d \in Blocks(h) : NextOf(m, d) = IF d = last THEN b ELSE NextOf(h, d)
      /\ Size(m, b) = total /\ NextOf(m, b) = NoBlock
      /\ h.fault => m.fault
  <2>1. /\ Good(m) /\ Blocks(m) = Blocks(h) \cup {b} /\ FreeOnes(m) = FreeOnes(h) \cup {b}
        /\ b \notin Blocks(h)
        /\ \A d \in Blocks(h) : Size(m, d) = Size(h, d)
        /\ \A d \in Blocks(h) : NextOf(m, d) = IF d = last THEN b ELSE NextOf(h, d)
        /\ Size(m, b) = total /\ NextOf(m, b) = NoBlock
        /\ m.fault = (h.fault \/ total > SizeMax)
    BY <1>0, <1>2, <1>3, LinkedKeeps
  <2> QED BY <2>1
<1>5. a = split_block(m, b, size)
  <2>1. a = WithNext(extend_mem(h, size, last, NoBlock), last, b)
    BY <1>0 DEF Appended, WithNext
  <2>2. /\ HeapType(k) /\ Blocks(k) = Plus(Blocks(h), b) /\ NextOf(k, b) = NoBlock
    BY <1>0, <1>1, <1>2, <1>4, ExtendView
  <2>3. /\ NoBlock \notin Blocks(k) /\ b \in Blocks(k) /\ last \in Blocks(k) /\ last # b
        /\ \A d \in Blocks(k) : d <= b
    <3>1. NoBlock \notin Blocks(h) /\ b # NoBlock
      BY <1>0, <1>1, <1>4, GoodFields DEF NoBlock
    <3>2. \A d \in Blocks(k) : d \in Blocks(h) \/ d = b
      BY <2>2 DEF Plus
    <3>3. \A d \in Blocks(k) : d <= b
      BY <1>1, <3>2
    <3>4. b \in Blocks(k) /\ last \in Blocks(k) /\ last # b
      BY <1>1, <1>4, <2>2 DEF Plus
    <3> QED BY <3>1, <3>2, <3>3, <3>4
  <2>4. WithNext(split_block(k, b, size), last, b) = split_block(WithNext(k, last, b), b, size)
    BY <2>2, <2>3, LinkCommutes
  <2>5. WithNext(k, last, b) = m
    BY <1>0 DEF Linked
  <2> QED BY <1>2, <2>1, <2>4, <2>5
<1>6. SplitDone(m, a, b, size)
  <2>1. b \in Blocks(m)
    BY <1>4
  <2> QED BY <1>4, <1>5, <2>1, SplitKeeps
<1>7. Good(a) /\ b \in FreeOnes(a) /\ size <= Size(a, b)
  BY <1>2, <1>4, <1>6 DEF SplitDone, Around
<1>8. Taken(a, g, b, size)
  BY <1>0, <1>7, TakeKeeps
<1>9. Around(h, g, b)
  <2>1. \A d : d # b => (d \in UsedOnes(m) <=> d \in UsedOnes(h))
    BY <1>4 DEF UsedOnes
  <2>2. \A d \in UsedOnes(h) : Size(m, d) = Size(h, d)
    BY <1>4 DEF UsedOnes
  <2> QED BY <1>6, <1>8, <2>1, <2>2 DEF SplitDone, Taken, Around
<1>10. Even(h) /\ size % AlignSize = 0 => Even(m)
  <2>1. b % AlignSize = 0
    <3>1. PageSize \in Nat /\ PageSize > 0 /\ AlignSize \in Nat /\ AlignSize > 0
          /\ b % PageSize = 0 /\ PageSize % AlignSize = 0
      BY <1>0, HeapAssumption, GoodFields DEF HeaderSize, AlignSize
    <3> QED BY <1>1, <3>1, MultipleOfMultiple
  <2> QED BY <1>2, <1>4, <2>1 DEF Even
<1>11. ApartBut(h, {b}, {b}) => ApartBut(m, {b}, {b})
  <2>1. ASSUME ApartBut(h, {b}, {b}), NEW d \in FreeOnes(m) \ {b}, NextOf(m, d) \in FreeOnes(m) \ {b}
        PROVE  EndOf(m, d) # NextOf(m, d)
    <3>1. d \in FreeOnes(h) \ {b} /\ d \in Blocks(h) /\ NextOf(m, d) \in FreeOnes(h) \ {b}
      BY <1>1, <1>4, <2>1
    <3>2. NextOf(m, d) = NextOf(h, d) /\ Size(m, d) = Size(h, d)
      BY <1>4, <3>1
    <3> QED BY <2>1, <3>1, <3>2 DEF ApartBut, EndOf
  <2> QED BY <2>1 DEF ApartBut
<1>12. ~g.fault => ~a.fault
  BY <1>8 DEF Taken
<1>13. ~g.fault => Kept(h, g, b)
  <2>1. ASSUME ~g.fault PROVE Kept(h, g, b)
    <3>1. Size(a, b) < size + MinBlkSize
      BY <1>6, <1>12, <2>1 DEF SplitDone
    <3>2. Kept(a, g, b)
      BY <1>0, <1>7, <3>1, TakeKeeps
    <3>3. Kept(m, a, b)
      BY <1>4, <1>6 DEF SplitDone
    <3> QED BY <1>4, <3>2, <3>3 DEF Kept
  <2> QED BY <2>1
<1> QED BY <1>0, <1>4, <1>6, <1>8, <1>9, <1>10, <1>11, <1>12, <1>13 DEF SplitDone, Taken, UsedOnes
-----------------------------------------------------------------------------
(***************************************************************************)
(* The walk along next visits the blocks in the order of addresses.        *)
(***************************************************************************)
Walks(h, c) ==
  c = [i \in 1..ListLength(h) |->
         IF i = 1 THEN h.head
         ELSE IF c[i - 1] = NoBlock THEN NoBlock ELSE h.hdr[c[i - 1]].next]

(* Chain chooses a walk.                                                   *)
LEMMA ChainChosen ==
  ASSUME NEW h PROVE Chain(h) = CHOOSE c : Walks(h, c)
  BY DEF Chain, Walks, Following

(* There is a walk to choose.                                              *)
LEMMA ChainWalks ==
  ASSUME NEW h, Good(h)
  PROVE  Walks(h, Chain(h)) /\ ListLength(h) \in Nat
<1>0. PICK n, S : n = ListLength(h) /\ S = Blocks(h) \cup {NoBlock}
  OBVIOUS
<1>1. n \in Nat
  BY <1>0, GoodFields, FS_CardinalityType DEF ListLength, Blocks
<1>2. \E c : Walks(h, c)
  <2>1. CASE n = 0
    <3>1. PICK c : c = [i \in 1..0 |-> 0]
      OBVIOUS
    <3>2. c = [i \in 1..0 |-> IF i = 1 THEN h.head
                ELSE IF c[i - 1] = NoBlock THEN NoBlock ELSE h.hdr[c[i - 1]].next]
      BY <3>1
    <3> QED BY <1>0, <2>1, <3>2 DEF Walks
  <2>2. CASE n # 0
    <3>1. PICK Step : Step = [k \in 2..n |-> [x \in S |-> IF x = NoBlock THEN NoBlock ELSE NextOf(h, x)]]
      OBVIOUS
    <3>2. \A x \in S : x # NoBlock => NextOf(h, x) \in S
      BY <1>0, Neighbours
    <3>3. \A k \in 2..n : \A x \in S : Step[k][x] = IF x = NoBlock THEN NoBlock ELSE NextOf(h, x)
      BY <3>1
    <3>4. h.head \in S
      BY <1>0 DEF Good, Headed
    <3>5. Stepwise(Step, 1, n, S)
      <4>1. 1 + 1 = 2 /\ NoBlock \in S
        BY <1>0
      <4> QED BY <3>2, <3>3, <4>1 DEF Stepwise
    <3>6. 1 \in Int /\ n \in Int /\ 1 <= n
      BY <1>1, <2>2
    <3>7. PICK c : Follows(c, 1, n, S, h.head, Step)
      BY <3>4, <3>5, <3>6, PrimitiveRecursion
    <3>8. c \in [1..n -> S] /\ c[1] = h.head /\ \A k \in 2..n : c[k] = Step[k][c[k - 1]]
      BY <3>7 DEF Follows
    <3>9. ASSUME NEW i \in 1..n
          PROVE  c[i] = IF i = 1 THEN h.head
                        ELSE IF c[i - 1] = NoBlock THEN NoBlock ELSE h.hdr[c[i - 1]].next
      <4>1. CASE i = 1
        BY <3>8, <4>1
      <4>2. CASE i # 1
        <5>1. i \in 2..n /\ i - 1 \in 1..n
          BY <1>1, <3>9, <4>2
        <5>2. c[i - 1] \in S /\ c[i] = Step[i][c[i - 1]]
          BY <3>8, <5>1
        <5>3. Step[i][c[i - 1]] = IF c[i - 1] = NoBlock THEN NoBlock ELSE NextOf(h, c[i - 1])
          BY <3>3, <5>1, <5>2
        <5> QED BY <4>2, <5>2, <5>3 DEF NextOf, NextIn
      <4> QED BY <4>1, <4>2
    <3>10. c = [i \in 1..n |-> c[i]]
      BY <3>8
    <3>11. [i \in 1..n |-> c[i]] =
             [i \in 1..n |-> IF i = 1 THEN h.head
                ELSE IF c[i - 1] = NoBlock THEN NoBlock ELSE h.hdr[c[i - 1]].next]
      BY <3>9, Zenon
    <3>12. c = [i \in 1..n |-> IF i = 1 THEN h.head
                ELSE IF c[i - 1] = NoBlock THEN NoBlock ELSE h.hdr[c[i - 1]].next]
      BY <3>10, <3>11, Zenon
    <3> QED BY <1>0, <3>12, Zenon DEF Walks
  <2> QED BY <2>1, <2>2
<1>3. Walks(h, Chain(h))
  BY <1>2, ChainChosen
<1> QED BY <1>0, <1>1, <1>3

(* The walk visits every block once, in the order of addresses.            *)
Visits(h, c, n) ==
  /\ n \in Nat /\ DOMAIN c = 1..n
  /\ \A i \in 1..n : c[i] \in Blocks(h)
  /\ \A i \in 2..n : c[i] = NextOf(h, c[i - 1]) /\ c[i - 1] < c[i]
  /\ n >= 1 => c[1] = h.head
  /\ \A d \in Blocks(h) : \E i \in 1..n : c[i] = d

(* The walk visits every block, once.                                      *)
LEMMA ChainVisits ==
  ASSUME NEW h, Good(h)
  PROVE  Visits(h, Chain(h), ListLength(h))
<1>0. PICK n, c, D : n = ListLength(h) /\ c = Chain(h) /\ D = Blocks(h)
  OBVIOUS
<1>1. n \in Nat /\ Walks(h, c)
  BY <1>0, ChainWalks
<1>2. /\ DOMAIN c = 1..n
      /\ \A i \in 1..n : c[i] = IF i = 1 THEN h.head
                                ELSE IF c[i - 1] = NoBlock THEN NoBlock ELSE NextOf(h, c[i - 1])
  <2>1. PICK w : w = [i \in 1..n |-> IF i = 1 THEN h.head
                        ELSE IF c[i - 1] = NoBlock THEN NoBlock ELSE h.hdr[c[i - 1]].next]
    OBVIOUS
  <2>2. c = w
    BY <1>0, <1>1, <2>1 DEF Walks
  <2>3. DOMAIN w = 1..n /\ \A i \in 1..n : w[i] = IF i = 1 THEN h.head
                ELSE IF c[i - 1] = NoBlock THEN NoBlock ELSE h.hdr[c[i - 1]].next
    BY <2>1
  <2> QED BY <2>2, <2>3 DEF NextOf, NextIn
<1>3. /\ D \in SUBSET Nat /\ IsFiniteSet(D) /\ NoBlock = 0 /\ NoBlock \notin D /\ Cardinality(D) = n
      /\ \A d \in D : Above(D, d, NextOf(h, d))
      /\ (D = {} \/ (h.head \in D /\ \A d \in D : h.head <= d))
  BY <1>0, GoodFields DEF NoBlock, Good, Placed, Headed, ListLength, Blocks
<1> DEFINE Upto(x) == {d \in D : d <= x}
<1>4. \A x : IsFiniteSet(Upto(x)) /\ Cardinality(Upto(x)) \in Nat
  <2>1. ASSUME NEW x PROVE IsFiniteSet(Upto(x)) /\ Cardinality(Upto(x)) \in Nat
    <3>1. Upto(x) \subseteq D
      OBVIOUS
    <3> QED BY <1>3, <3>1, FS_Subset, FS_CardinalityType
  <2> QED BY <2>1
<1> DEFINE T == {i \in 1..n : c[i] \in D /\ Cardinality(Upto(c[i])) = i}
<1>5. 1 <= n => 1 \in T
  <2>1. SUFFICES ASSUME 1 <= n PROVE 1 \in T
    OBVIOUS
  <2>2. D # {}
    BY <1>3, <2>1, FS_EmptySet
  <2>3. c[1] = h.head /\ h.head \in D /\ 1 \in 1..n
    <3>1. 1 \in 1..n
      BY <1>1, <2>1
    <3>2. c[1] = h.head
      BY <1>2, <3>1
    <3> QED BY <1>3, <2>2, <3>1, <3>2
  <2>4. Upto(c[1]) = {c[1]}
    <3>0. PICK x \in D : x = c[1]
      BY <2>3
    <3>1. \A d \in D : d <= x => d = x
      <4>1. \A d \in D : x <= d /\ d \in Nat /\ x \in Nat
        BY <1>3, <2>2, <2>3, <3>0
      <4> QED BY <4>1
    <3>2. x <= x
      BY <1>3
    <3> QED BY <3>0, <3>1, <3>2
  <2>5. Cardinality({c[1]}) = 1
    BY FS_Singleton
  <2> QED BY <2>3, <2>4, <2>5
<1>6. ASSUME NEW i \in 1..(n - 1), i \in T
      PROVE  i + 1 \in T /\ c[i + 1] = NextOf(h, c[i]) /\ c[i] < c[i + 1]
  <2>1. i + 1 \in 1..n /\ i + 1 # 1 /\ (i + 1) - 1 = i /\ i \in 1..n /\ i # n /\ i \in Nat
    BY <1>1, <1>6
  <2>2. c[i] \in D /\ c[i] \in Nat /\ Cardinality(Upto(c[i])) = i
    BY <1>3, <1>6
  <2>3. c[i + 1] = NextOf(h, c[i])
    <3>1. c[i] # NoBlock
      BY <1>3, <2>2
    <3>2. c[i + 1] = IF c[i] = NoBlock THEN NoBlock ELSE NextOf(h, c[i])
      BY <1>2, <2>1
    <3> QED BY <3>1, <3>2
  <2>4. Above(D, c[i], c[i + 1])
    BY <1>3, <2>2, <2>3
  <2>5. c[i + 1] # NoBlock
    <3>1. SUFFICES ASSUME c[i + 1] = NoBlock PROVE FALSE
      OBVIOUS
    <3>2. \A d \in D : d <= c[i]
      BY <1>3, <2>4, <3>1 DEF Above
    <3>3. Upto(c[i]) = D
      BY <3>2
    <3> QED BY <1>3, <2>1, <2>2, <3>3
  <2>6. c[i + 1] \in D /\ c[i] < c[i + 1] /\ c[i + 1] \in Nat /\ \A d \in D : d <= c[i] \/ c[i + 1] <= d
    BY <1>3, <2>4, <2>5 DEF Above
  <2>7. Upto(c[i + 1]) = Upto(c[i]) \cup {c[i + 1]} /\ c[i + 1] \notin Upto(c[i])
    <3>1. \A d \in D : d <= c[i + 1] <=> d <= c[i] \/ d = c[i + 1]
      BY <1>3, <2>2, <2>6
    <3>2. ~(c[i + 1] <= c[i])
      BY <2>2, <2>6
    <3> QED BY <2>6, <3>1, <3>2
  <2>8. Cardinality(Upto(c[i + 1])) = i + 1
    <3>1. PICK A, y : A = Upto(c[i]) /\ y = c[i + 1]
      OBVIOUS
    <3>2. IsFiniteSet(A) /\ Cardinality(A) = i /\ y \notin A
      BY <1>4, <2>2, <2>7, <3>1
    <3>3. Cardinality(A \cup {y}) = i + 1
      BY <3>2, FS_AddElement
    <3> QED BY <2>7, <3>1, <3>3
  <2> QED BY <2>1, <2>3, <2>6, <2>8
<1>7. \A i \in 1..n : i \in T
  <2> HIDE DEF T
  <2> QED BY <1>1, <1>5, <1>6, IntervalInduction
<1>8. \A i \in 1..n : c[i] \in D
  BY <1>7
<1>9. ASSUME NEW i \in 2..n PROVE c[i] = NextOf(h, c[i - 1]) /\ c[i - 1] < c[i]
  <2>1. i - 1 \in 1..(n - 1) /\ (i - 1) + 1 = i /\ i - 1 \in 1..n
    BY <1>1, <1>9
  <2>2. i - 1 \in T
    BY <1>7, <2>1
  <2> HIDE DEF T
  <2>3. c[(i - 1) + 1] = NextOf(h, c[i - 1]) /\ c[i - 1] < c[(i - 1) + 1]
    BY <1>6, <2>1, <2>2
  <2> QED BY <2>1, <2>3
<1>10. ASSUME NEW d \in D PROVE \E i \in 1..n : c[i] = d
  <2>1. SUFFICES ASSUME \A i \in 1..n : c[i] # d PROVE FALSE
    OBVIOUS
  <2> DEFINE U == {i \in 1..n : c[i] < d}
  <2>2. n >= 1
    <3>1. Cardinality(D) = 0 => D = {}
      BY <1>3, FS_EmptySet
    <3> QED BY <1>1, <1>3, <1>10, <3>1
  <2>3. 1 \in U
    <3>1. 1 \in 1..n /\ c[1] = h.head
      BY <1>1, <1>2, <2>2
    <3>2. h.head \in D /\ h.head <= d /\ d \in Nat /\ h.head \in Nat
      BY <1>3, <1>10
    <3> QED BY <2>1, <3>1, <3>2
  <2>4. ASSUME NEW i \in 1..(n - 1), i \in U PROVE i + 1 \in U
    <3>1. i + 1 \in 1..n /\ i + 1 \in 2..n /\ (i + 1) - 1 = i /\ i \in 1..n
      BY <1>1, <2>4
    <3>2. c[i + 1] = NextOf(h, c[i]) /\ c[i] \in D /\ c[i + 1] \in D /\ c[i + 1] # d
      <4>1. c[i + 1] = NextOf(h, c[(i + 1) - 1])
        BY <1>9, <3>1
      <4> QED BY <1>8, <2>1, <3>1, <4>1
    <3>3. Above(D, c[i], c[i + 1]) /\ c[i] < d /\ c[i] \in Nat /\ c[i + 1] \in Nat /\ d \in Nat
      BY <1>3, <1>10, <2>4, <3>2
    <3>4. c[i + 1] < d
      BY <1>3, <1>10, <3>2, <3>3 DEF Above
    <3> QED BY <3>1, <3>4
  <2>5. n \in U
    <3> HIDE DEF U
    <3>1. \A i \in 1..n : i \in U
      BY <1>1, <2>2, <2>3, <2>4, IntervalInduction
    <3> QED BY <1>1, <2>2, <3>1
  <2>6. n \in T /\ c[n] < d
    BY <1>1, <1>7, <2>2, <2>5
  <2>7. Upto(c[n]) \subseteq D \ {d}
    <3>1. c[n] \in Nat /\ d \in Nat /\ ~(d <= c[n])
      <4>1. n \in 1..n
        BY <1>1, <2>2
      <4>2. c[n] \in D
        BY <1>8, <4>1
      <4>3. c[n] \in Nat /\ d \in Nat
        BY <1>3, <1>10, <4>2
      <4> HIDE DEF T
      <4> QED BY <2>6, <4>3
    <3> QED BY <3>1
  <2>8. IsFiniteSet(D \ {d}) /\ Cardinality(D \ {d}) = n - 1
    BY <1>3, <1>10, FS_RemoveElement
  <2>9. Cardinality(Upto(c[n])) <= n - 1
    BY <2>7, <2>8, FS_Subset
  <2> QED BY <1>1, <2>6, <2>9
<1>11. n >= 1 => c[1] = h.head
  BY <1>1, <1>2
<1> QED BY <1>0, <1>1, <1>2, <1>8, <1>9, <1>10, <1>11 DEF Visits

(* The first block of the list among some is the one at the least address. *)
LEMMA FirstOf ==
  ASSUME NEW h, Good(h), NEW good \in SUBSET Blocks(h)
  PROVE  LET b == FirstBlock(h, good)
         IN  \/ good = {} /\ b = NoBlock
             \/ b \in good /\ b # NoBlock /\ \A d \in good : b <= d
<1>0. PICK n, c : n = ListLength(h) /\ c = Chain(h)
  OBVIOUS
<1>1. /\ n \in Nat /\ DOMAIN c = 1..n
      /\ \A i \in 1..n : c[i] \in Blocks(h)
      /\ \A i \in 2..n : c[i - 1] < c[i]
      /\ \A d \in Blocks(h) : \E i \in 1..n : c[i] = d
  BY <1>0, ChainVisits DEF Visits
<1>2. Blocks(h) \in SUBSET Nat /\ NoBlock \notin Blocks(h)
  BY GoodFields
<1> DEFINE hits == {i \in DOMAIN c : c[i] # NoBlock /\ c[i] \in good}
<1>3. hits = {i \in 1..n : c[i] \in good}
  BY <1>1, <1>2
<1>4. FirstBlock(h, good) = IF hits = {} THEN NoBlock
                            ELSE c[CHOOSE i \in hits : \A j \in hits : i <= j]
  BY <1>0 DEF FirstBlock
<1>5. CASE hits = {}
  <2>1. good = {}
    BY <1>1, <1>3, <1>5
  <2> HIDE DEF hits
  <2> QED BY <1>4, <1>5, <2>1
<1>6. CASE hits # {}
  <2>1. hits \in SUBSET Nat
    BY <1>1, <1>3
  <2> HIDE DEF hits
  <2>2. \E i \in hits : \A j \in hits : i <= j
    BY <1>6, <2>1, LeastElement
  <2>3. PICK i : i = CHOOSE x \in hits : \A j \in hits : x <= j
    OBVIOUS
  <2>4. i \in hits /\ \A j \in hits : i <= j
    BY <2>2, <2>3
  <2>5. i \in 1..n /\ c[i] \in good /\ FirstBlock(h, good) = c[i]
    BY <1>3, <1>4, <1>6, <2>3, <2>4
  <2>6. ASSUME NEW d \in good PROVE c[i] <= d
    <3>1. PICK j \in 1..n : c[j] = d
      BY <1>1, <2>6
    <3>2. i <= j
      BY <1>3, <2>4, <2>6, <3>1
    <3> DEFINE T == {k \in i..n : c[i] <= c[k]}
    <3>3. i \in T
      BY <1>1, <1>2, <2>5
    <3>4. ASSUME NEW k \in i..(n - 1), k \in T PROVE k + 1 \in T
      <4>1. k + 1 \in 2..n /\ k \in 1..n /\ k + 1 \in 1..n /\ k + 1 \in i..n /\ (k + 1) - 1 = k
        BY <1>1, <2>5, <3>4
      <4>2. c[k] < c[k + 1]
        <5>1. c[(k + 1) - 1] < c[k + 1]
          BY <1>1, <4>1
        <5> QED BY <4>1, <5>1
      <4>3. c[i] <= c[k] /\ c[i] \in Nat /\ c[k] \in Nat /\ c[k + 1] \in Nat
        BY <1>1, <1>2, <2>5, <3>4, <4>1
      <4> QED BY <4>1, <4>2, <4>3
    <3>5. j \in T
      <4> HIDE DEF T
      <4>0. i \in Int /\ n \in Int
        BY <1>1, <2>5
      <4>1. \A k \in i..n : k \in T
        BY <3>3, <3>4, <4>0, IntervalInduction
      <4>2. j \in i..n
        BY <1>1, <2>5, <3>1, <3>2
      <4> QED BY <4>1, <4>2
    <3> QED BY <3>1, <3>5
  <2> QED BY <1>2, <2>5, <2>6
<1> QED BY <1>5, <1>6
-----------------------------------------------------------------------------
(* The first block of an empty list has a whole bin.                       *)
LEMMA HeadKeeps ==
  ASSUME NEW h, Good(h)
  PROVE  LET g == WithHead(h)
         IN  /\ Good(g) /\ Blocks(g) # {} /\ (Blocks(h) # {} => g = h)
             /\ UsedOnes(g) = UsedOnes(h) /\ \A d \in UsedOnes(h) : Size(g, d) = Size(h, d)
             /\ Even(h) => Even(g)
             /\ Apart(h) => Apart(g)
             /\ g.fault = h.fault
<1>0. /\ HeapType(h) /\ NoBlock \notin Blocks(h) /\ FreeOnes(h) \subseteq Blocks(h) /\ Headed(h)
      /\ Blocks(h) \in SUBSET Nat /\ h.brk \in Nat /\ NoBlock = 0 /\ h.brk % PageSize = 0
      /\ Start <= h.brk /\ Start \in Nat /\ HeaderSize = 4 /\ h.brk # NoBlock
  <2>1. Start > 0
    BY HeapAssumption DEF NoBlock
  <2> QED BY <2>1, GoodFields, HeapAssumption DEF Good, NoBlock, HeaderSize
<1>1. CASE h.head # NoBlock
  BY <1>0, <1>1 DEF WithHead, Headed
<1>2. CASE h.head = NoBlock
  <2>0. PICK b, k, g : b = h.brk /\ k = Extended(h, BinSize, NoBlock) /\ g = [k EXCEPT !.head = b]
    OBVIOUS
  <2>1. Blocks(h) = {} /\ FreeOnes(h) = {}
    BY <1>0, <1>2 DEF Headed
  <2>2. /\ BinSize \in Nat /\ BinSize > 4 /\ BinSize % PageSize = 0
        /\ PageSize \in Nat /\ PageSize > 0 /\ AlignSize \in Nat /\ AlignSize > 0
        /\ PageSize % AlignSize = 0 /\ ~(BinSize > SizeMax)
    BY HeapAssumption DEF HeaderSize, AlignSize
  <2>3. RoundUp(BinSize, BinSize) = BinSize
    <3>1. BinSize % BinSize = 0 /\ BinSize - 1 \in 0..(BinSize - 1) /\ BinSize > 0
      <4>1. BinSize = BinSize * 1 /\ BinSize > 0
        BY <2>2
      <4>2. BinSize % BinSize = 0
        BY <2>2, <4>1, Multiple
      <4> QED BY <2>2, <4>2
    <3>2. ((BinSize + (BinSize - 1)) \div BinSize) * BinSize = BinSize
      BY <2>2, <3>1, RoundedDown
    <3>3. BinSize + (BinSize - 1) = BinSize + BinSize - 1
      BY <2>2
    <3> QED BY <3>2, <3>3 DEF RoundUp
  <2>4. extend_mem(h, BinSize, NoBlock, NoBlock) = split_block(k, b, BinSize)
    BY <1>0, <2>0, <2>2, <2>3, ExtendIsSplit
  <2>5. /\ HeapType(k) /\ Blocks(k) = Plus(Blocks(h), b) /\ FreeOnes(k) = FreeOnes(h) \cup {b}
        /\ Size(k, b) = BinSize /\ NextOf(k, b) = NoBlock /\ PrevOf(k, b) = NoBlock
        /\ k.brk = b + BinSize /\ k.fault = (h.fault \/ BinSize > SizeMax)
    <3>1. h.brk \notin Blocks(h) /\ NoBlock \in Nat
      BY <1>0, <2>1
    <3> QED BY <1>0, <2>0, <2>2, <3>1, ExtendView
  <2>51. k.fault = h.fault
    BY <2>2, <2>5, GoodFields
  <2>6. split_block(k, b, BinSize) = k
    BY <2>2, <2>5 DEF split_block, Size, SizeIn, MinBlkSize, HeaderSize, AlignSize
  <2>7. WithHead(h) = g
    BY <1>2, <2>0, <2>4, <2>6 DEF WithHead
  <2>8. /\ g \in Heaps /\ g.hdr = k.hdr /\ g.head = b /\ g.brk = k.brk /\ g.fault = k.fault
    <3>1. k \in Heaps
      BY <2>5 DEF HeapType
    <3> QED BY <1>0, <2>0, <3>1 DEF Heaps
  <2>9. /\ Blocks(g) = {b} /\ FreeOnes(g) = {b} /\ HeapType(g)
        /\ Size(g, b) = BinSize /\ NextOf(g, b) = NoBlock /\ PrevOf(g, b) = NoBlock
    <3>1. Blocks(g) = Blocks(k) /\ FreeOnes(g) = FreeOnes(k)
      BY <2>8 DEF Blocks, FreeOnes
    <3>2. Size(g, b) = Size(k, b) /\ NextOf(g, b) = NextOf(k, b) /\ PrevOf(g, b) = PrevOf(k, b)
      BY <2>8 DEF Size, NextOf, PrevOf
    <3>3. HeapType(g)
      BY <2>5, <2>8, <3>1 DEF HeapType
    <3>4. Blocks(k) = {b} /\ FreeOnes(k) = {b}
      BY <2>1, <2>5 DEF Plus
    <3> QED BY <2>5, <3>1, <3>2, <3>3, <3>4
  <2>10. (b + BinSize) % PageSize = 0
    BY <1>0, <2>0, <2>2, SumMultiple
  <2>11. Good(g)
    <3>1. Above({b}, b, NoBlock) /\ Below({b}, b, NoBlock)
      BY <1>0, <2>0 DEF Above, Below
    <3>2. EndOf(g, b) = Limit(g, b) + HeaderSize /\ Limit(g, b) = b + BinSize
      BY <1>0, <2>0, <2>2, <2>5, <2>8, <2>9 DEF EndOf, Limit
    <3>3. Start <= b /\ b + HeaderSize <= g.brk /\ Size(g, b) >= 1
      BY <1>0, <2>0, <2>2, <2>5, <2>8, <2>9
    <3>4. Placed(g, b)
      BY <2>9, <2>10, <3>1, <3>2, <3>3 DEF Placed
    <3>5. IsFiniteSet({b})
      BY FS_Singleton
    <3>6. Start <= g.brk /\ g.brk % PageSize = 0
      BY <1>0, <2>0, <2>2, <2>5, <2>8, <2>10
    <3>7. Headed(g)
      BY <1>0, <2>0, <2>8, <2>9 DEF Headed
    <3>8. Fits(g)
      <4>1. EndOf(g, b) = g.brk + HeaderSize
        BY <1>0, <2>0, <2>2, <2>5, <2>8, <3>2
      <4>2. EndOf(g, b) <= b + HeaderSize + SizeMax
        BY <1>0, <2>0, <2>2, <3>2, HeapAssumption
      <4> QED BY <2>9, <4>1, <4>2 DEF Fits, FitsPair
    <3> QED BY <2>9, <3>4, <3>5, <3>6, <3>7, <3>8 DEF Good
  <2>12. Even(g)
    <3>1. b % AlignSize = 0 /\ BinSize % AlignSize = 0
      <4>1. b % AlignSize = 0
        BY <1>0, <2>0, <2>2, MultipleOfMultiple
      <4>2. BinSize % AlignSize = 0
        BY <2>2, MultipleOfMultiple
      <4> QED BY <4>1, <4>2
    <3> QED BY <2>9, <3>1 DEF Even
  <2>13. Apart(g)
    <3>1. b # NoBlock
      BY <1>0, <2>0
    <3> QED BY <2>9, <3>1 DEF Apart
  <2> QED BY <2>1, <2>51, <2>7, <2>8, <2>9, <2>11, <2>12, <2>13 DEF UsedOnes
<1> QED BY <1>1, <1>2

(***************************************************************************)
(* A block got for a caller.  If Apart(h), it is not merged into the block *)
(* before it when it is freed again; if it is new, it lies behind the rest.*)
(***************************************************************************)
Got(h, g, b, size) ==
  /\ Around(h, g, b)
  /\ b \in UsedOnes(g) /\ b \notin UsedOnes(h) /\ size <= Size(g, b)
  /\ Even(h) /\ size % AlignSize = 0 => Even(g)
  /\ ~g.fault /\ Apart(h) => Apart(g)
  /\ ~g.fault /\ b \in Blocks(h) /\ Apart(h) => LeftApart(g, b)
  /\ ~g.fault /\ b \notin Blocks(h) => Kept(h, g, b) /\ \A d \in Blocks(h) : d < b
  /\ h.fault => g.fault

(* The block found, or a new one, is got (kmalloc.c:181-257).              *)
LEMMA TakeBlockKeeps ==
  ASSUME NEW h, Good(h), Blocks(h) # {}, NEW size \in Nat, size >= 1
  PROVE  LET got == TakeBlock(h, Found(h, size), size)
         IN  Got(h, got.heap, got.block, size)
<1>0. PICK good, exact, last, b, got :
        /\ good = {d \in FreeOnes(h) : Size(h, d) = size}
        /\ exact = Exact(h, size) /\ last = Last(h) /\ b = Found(h, size)
        /\ got = TakeBlock(h, b, size)
  OBVIOUS
<1>1. /\ FreeOnes(h) \subseteq Blocks(h) /\ Blocks(h) \in SUBSET Nat /\ h.brk \in Nat
      /\ last \in Blocks(h) /\ \A d \in Blocks(h) : d + 4 <= h.brk
      /\ \A d \in Blocks(h) : Size(h, d) \in Nat
  BY <1>0, GoodFields, LastBlock DEF HeaderSize
<1>2. h.brk \notin Blocks(h)
  BY <1>1
<1>3. exact = NoBlock \/ exact \in good
  <2>1. good = {d \in DOMAIN h.hdr : h.hdr[d].free /\ h.hdr[d].size = size}
    <3>1. \A d : d \in good <=> d \in FreeOnes(h) /\ Size(h, d) = size
      BY <1>0
    <3>2. \A d : d \in FreeOnes(h) <=> d \in DOMAIN h.hdr /\ h.hdr[d].free
      BY Zenon DEF FreeOnes, FreeIn
    <3>3. \A d : Size(h, d) = h.hdr[d].size
      BY DEF Size, SizeIn
    <3> QED BY <3>1, <3>2, <3>3, Zenon
  <2>2. exact = FirstBlock(h, good)
    BY <1>0, <2>1, Zenon DEF Exact
  <2>3. good \in SUBSET Blocks(h)
    BY <1>0, <1>1
  <2> QED BY <2>2, <2>3, FirstOf
<1>4. \/ b \in FreeOnes(h) /\ size <= Size(h, b)
      \/ b = h.brk
  <2>1. CASE exact # NoBlock
    BY <1>0, <1>1, <1>3, <2>1 DEF Found
  <2>2. CASE exact = NoBlock /\ h.hdr[last].free /\ h.hdr[last].size > size
    <3>1. b = last
      BY <1>0, <2>2 DEF Found
    <3>2. last \in FreeOnes(h)
      BY <1>1, <2>2, Zenon DEF FreeOnes, FreeIn, Blocks
    <3>3. size <= Size(h, last)
      BY <1>1, <2>2 DEF Size, SizeIn
    <3> QED BY <3>1, <3>2, <3>3
  <2>3. CASE exact = NoBlock /\ ~(h.hdr[last].free /\ h.hdr[last].size > size)
    BY <1>0, <2>3, Zenon DEF Found
  <2> QED BY <2>1, <2>2, <2>3
<1>5. got.block = b
  BY <1>0 DEF TakeBlock
<1>6. got.heap = Take(IF b = h.brk THEN Appended(h, size) ELSE h, b, size)
  BY <1>0 DEF TakeBlock, Take, Used, Marked
<1>7. Taken(h, got.heap, b, size)
  <2>1. CASE b = h.brk
    BY <1>6, <2>1, TakeNewKeeps
  <2>2. CASE b # h.brk
    BY <1>4, <1>6, <2>2, TakeKeeps
  <2> QED BY <2>1, <2>2
<1>8. Apart(h) => ApartBut(h, {b}, {b}) /\ ApartBut(h, {b}, {})
  BY DEF Apart, ApartBut
<1>9. b \notin Blocks(h) => \A d \in Blocks(h) : d < b
  BY <1>1, <1>4
<1> QED BY <1>0, <1>5, <1>7, <1>8, <1>9 DEF Taken, Got

(* get_empty_mem() gets a block, also from an empty heap.                  *)
LEMMA EmptyMemKeeps ==
  ASSUME NEW h, Good(h), NEW size \in Nat, size >= 1
  PROVE  LET got == get_empty_mem(h, size)
         IN  Got(h, got.heap, got.block, size)
<1>0. PICK k, got : k = WithHead(h) /\ got = TakeBlock(k, Found(k, size), size)
  OBVIOUS
<1>1. got = get_empty_mem(h, size)
  BY <1>0 DEF get_empty_mem, EmptyMemIn
<1>2. /\ Good(k) /\ Blocks(k) # {} /\ (Blocks(h) # {} => k = h)
      /\ UsedOnes(k) = UsedOnes(h) /\ \A d \in UsedOnes(h) : Size(k, d) = Size(h, d)
      /\ Even(h) => Even(k)
      /\ Apart(h) => Apart(k)
      /\ k.fault = h.fault
  BY <1>0, HeadKeeps
<1>3. Got(k, got.heap, got.block, size)
  BY <1>0, <1>2, TakeBlockKeeps
<1>4. PICK g, b : g = got.heap /\ b = got.block
  OBVIOUS
<1>5. Got(k, g, b, size)
  BY <1>3, <1>4
<1>6. CASE Blocks(h) # {}
  BY <1>1, <1>2, <1>4, <1>5, <1>6
<1>7. CASE Blocks(h) = {}
  <2>1. b \notin Blocks(h) /\ Kept(h, g, b) /\ \A d \in Blocks(h) : d < b
    BY <1>7 DEF Kept
  <2>2. Around(h, g, b)
    BY <1>2, <1>5 DEF Got, Around
  <2>3. b \notin UsedOnes(h)
    BY <1>2, <1>5 DEF Got
  <2>4. Got(h, g, b, size)
    BY <1>2, <1>5, <2>1, <2>2, <2>3 DEF Got
  <2> QED BY <1>1, <1>4, <2>4
<1> QED BY <1>6, <1>7
-----------------------------------------------------------------------------
(* What kmalloc() returns, when it does not refuse, is the data of a block *)
(* got for the caller.                                                     *)
LEMMA KmallocKeeps ==
  ASSUME NEW h, Good(h), NEW size \in Nat, ~TooBig(size)
  PROVE  LET got == kmalloc(h, size)
             b == got.ptr - HeaderSize
         IN  /\ got.ptr = b + HeaderSize /\ got.ptr \in Nat /\ b \in Nat
             /\ Rounded(size) \in Nat /\ Rounded(size) % AlignSize = 0 /\ size <= Rounded(size)
             /\ Got(h, got.heap, b, Rounded(size))
<1>0. PICK n, total, e, g, c :
        /\ n = IF size < 1 THEN 1 ELSE size
        /\ total = Rounded(size) /\ e = get_empty_mem(h, total) /\ g = e.heap /\ c = e.block
  OBVIOUS
<1>1. n \in Nat /\ n >= 1 /\ size <= n /\ AlignSize \in Nat /\ AlignSize > 0
  BY <1>0 DEF AlignSize
<1>2. total = RoundUp(n, AlignSize)
  BY <1>0 DEF Rounded
<1>3. total \in Nat /\ total % AlignSize = 0 /\ n <= total
  BY <1>1, <1>2, RoundedUp
<1>4. total >= 1 /\ size <= total
  BY <1>0, <1>1, <1>3
<1>5. Got(h, g, c, total)
  BY <1>0, <1>3, <1>4, EmptyMemKeeps
<1>6. c \in Blocks(g) /\ c \in Nat /\ HeapType(g)
  BY <1>5, GoodFields DEF Got, Around, UsedOnes
<1>7. PtrIn(g.hdr, c) = c + HeaderSize
  BY <1>6 DEF HeapType
<1>8. kmalloc(h, size).heap = g /\ kmalloc(h, size).ptr = c + HeaderSize
  BY <1>0, <1>7 DEF kmalloc, WithPointer, PtrIn
<1>9. c = (c + HeaderSize) - HeaderSize /\ c + HeaderSize \in Nat
  BY <1>6 DEF HeaderSize
<1> QED BY <1>0, <1>3, <1>4, <1>5, <1>6, <1>8, <1>9

-----------------------------------------------------------------------------
(***************************************************************************)
(* A block given back: it is free, and merged with its free neighbours.    *)
(***************************************************************************)
Released(h, g, b) ==
  /\ Good(g)
  /\ UsedOnes(g) = UsedOnes(h) \ {b}
  /\ \A d \in UsedOnes(g) : Size(g, d) = Size(h, d)
  /\ Even(h) => Even(g)
  /\ Apart(h) => Apart(g)
  /\ LeftApart(h, b) => b \in Blocks(g)
  /\ g.fault = h.fault

Coalesce(h, b) ==
  LET right == merge_blocks(h, b, NextOf(h, b)) IN merge_blocks(right, PrevOf(h, b), b)

(* Merging a free block with the one behind it and the one before it.      *)
LEMMA CoalesceKeeps ==
  ASSUME NEW h, Good(h), NEW b \in FreeOnes(h)
  PROVE  LET g == Coalesce(h, b)
             p == PrevOf(h, b)
         IN  /\ Good(g)
             /\ Blocks(g) \subseteq Blocks(h) /\ FreeOnes(g) = FreeOnes(h) \cap Blocks(g)
             /\ Blocks(h) \ Blocks(g) \subseteq FreeOnes(h)
             /\ \A d \in UsedOnes(h) : Size(g, d) = Size(h, d)
             /\ Even(h) => Even(g)
             /\ ApartBut(h, {b, p}, {}) => Apart(g)
             /\ LeftApart(h, b) => b \in Blocks(g)
             /\ g.fault = h.fault
<1>0. PICK p, c, r, g : /\ p = PrevOf(h, b) /\ c = NextOf(h, b)
                        /\ r = merge_blocks(h, b, c) /\ g = merge_blocks(r, p, b)
  OBVIOUS
<1>1. /\ FreeOnes(h) \subseteq Blocks(h) /\ b \in Blocks(h) /\ Blocks(h) \in SUBSET Nat
      /\ NoBlock \notin Blocks(h) /\ NoBlock = 0 /\ p \in Nat /\ c \in Nat
  BY <1>0, GoodFields DEF NoBlock
<1>2. /\ MergedOrNot(h, r, b)
      /\ \A X, Y : c \notin X /\ ApartBut(h, X \cup {b}, Y) => ApartBut(r, X, Y)
  BY <1>0, <1>1, MergeNext
<1>3. /\ Good(r) /\ Blocks(r) \subseteq Blocks(h) /\ b \in Blocks(r)
      /\ (\A d \in Blocks(h) \ Blocks(r) : d = c /\ d \in FreeOnes(h))
      /\ FreeOnes(r) = FreeOnes(h) \cap Blocks(r)
      /\ (\A d \in Blocks(r) : d # b => Size(r, d) = Size(h, d))
      /\ (Even(h) => Even(r)) /\ r.fault = h.fault /\ PrevOf(r, b) = p
  BY <1>0, <1>2 DEF MergedOrNot
<1>4. p # NoBlock => p \in Blocks(r) /\ p < b /\ NextOf(r, p) = b /\ p \in Blocks(h) /\ NextOf(h, p) = b
  <2>1. p # NoBlock => p \in Blocks(r) /\ p < b /\ NextOf(r, p) = b
    BY <1>3, Neighbours
  <2>2. p # NoBlock => p \in Blocks(h) /\ NextOf(h, p) = b
    BY <1>0, <1>1, Neighbours
  <2> QED BY <2>1, <2>2
<1>5. c # NoBlock => b < c /\ c \in Blocks(h)
  BY <1>0, <1>1, Neighbours
<1>6. \A d \in UsedOnes(h) : d \in Blocks(r) /\ Size(r, d) = Size(h, d)
  BY <1>3 DEF UsedOnes
<1>7. CASE p = NoBlock
  <2>1. g = r
    BY <1>0, <1>7, MergeNull
  <2>2. ApartBut(h, {b, p}, {}) => Apart(r)
    <3>1. SUFFICES ASSUME ApartBut(h, {b, p}, {}) PROVE Apart(r)
      OBVIOUS
    <3>2. ApartBut(h, {} \cup {b}, {})
      BY <1>1, <1>7, <3>1 DEF ApartBut
    <3>3. ApartBut(r, {}, {})
      BY <1>2, <3>2
    <3> QED BY <3>3 DEF ApartBut, Apart
  <2> QED BY <1>0, <1>3, <1>6, <2>1, <2>2 DEF Coalesce
<1>8. CASE p # NoBlock
  <2>1. p \in Blocks(r) /\ p # b /\ NextOf(r, p) = b /\ p \in Blocks(h) /\ NextOf(h, p) = b /\ p # c
    BY <1>1, <1>4, <1>5, <1>8
  <2>2. g = merge_blocks(r, p, NextOf(r, p))
    BY <1>0, <2>1
  <2>3. /\ MergedOrNot(r, g, p)
        /\ \A X, Y : b \notin X /\ ApartBut(r, X \cup {p}, Y) => ApartBut(g, X, Y)
    BY <1>3, <2>1, <2>2, MergeNext
  <2>4. /\ Good(g) /\ Blocks(g) \subseteq Blocks(r)
        /\ (\A d \in Blocks(r) \ Blocks(g) : d = b /\ d \in FreeOnes(r) /\ p \in FreeOnes(r))
        /\ FreeOnes(g) = FreeOnes(r) \cap Blocks(g)
        /\ (\A d \in Blocks(g) : d # p => Size(g, d) = Size(r, d))
        /\ (~Touching(r, p, b) => g = r)
        /\ (Even(r) => Even(g)) /\ g.fault = r.fault
    BY <2>1, <2>3 DEF MergedOrNot
  <2>5. ApartBut(h, {b, p}, {}) => Apart(g)
    <3>1. SUFFICES ASSUME ApartBut(h, {b, p}, {}) PROVE Apart(g)
      OBVIOUS
    <3>2. ApartBut(h, {p} \cup {b}, {})
      BY <3>1 DEF ApartBut
    <3>3. ApartBut(r, {p}, {})
      BY <1>2, <2>1, <3>2
    <3>4. ApartBut(r, {} \cup {p}, {})
      BY <3>3 DEF ApartBut
    <3>5. ApartBut(g, {}, {})
      BY <2>3, <3>4
    <3> QED BY <3>5 DEF ApartBut, Apart
  <2>6. LeftApart(h, b) => b \in Blocks(g)
    <3>1. SUFFICES ASSUME LeftApart(h, b), b \notin Blocks(g) PROVE FALSE
      OBVIOUS
    <3>2. Touching(r, p, b) /\ p \in FreeOnes(h)
      BY <1>3, <2>4, <3>1
    <3>3. EndOf(h, p) = b
      BY <1>3, <2>1, <3>2 DEF Touching, EndOf
    <3> QED BY <2>1, <3>1, <3>2, <3>3 DEF LeftApart
  <2>7. \A d \in UsedOnes(h) : Size(g, d) = Size(h, d)
    <3>1. SUFFICES ASSUME NEW d \in UsedOnes(h) PROVE Size(g, d) = Size(h, d)
      OBVIOUS
    <3>2. CASE d # p
      BY <1>3, <1>6, <2>4, <3>1, <3>2 DEF UsedOnes
    <3>3. CASE d = p
      <4>1. p \notin FreeOnes(r)
        BY <1>3, <3>1, <3>3 DEF UsedOnes
      <4>2. g = r
        BY <2>4, <4>1 DEF Touching
      <4> QED BY <1>6, <3>1, <4>2
    <3> QED BY <3>2, <3>3
  <2>8. Blocks(g) \subseteq Blocks(h) /\ FreeOnes(g) = FreeOnes(h) \cap Blocks(g)
        /\ Blocks(h) \ Blocks(g) \subseteq FreeOnes(h)
    BY <1>3, <2>4
  <2> QED BY <1>0, <1>3, <2>4, <2>5, <2>6, <2>7, <2>8 DEF Coalesce
<1> QED BY <1>7, <1>8

(* kfree(): the block that is freed is the first that contains ptr.        *)
Containing(h, ptr) == {d \in Blocks(h) : d <= ptr /\ ptr < EndOf(h, d)}

(* kfree() refuses the pointer or releases that block (kmalloc.c:408-458). *)
LEMMA KfreeKeeps ==
  ASSUME NEW h, Good(h), NEW ptr \in Nat
  PROVE  LET g == kfree(h, ptr)
         IN  \/ g = h /\ (ptr = NoBlock \/ Refused(h, ptr) \/ Containing(h, ptr) = {})
             \/ \E b \in Containing(h, ptr) :
                  /\ \A d \in Containing(h, ptr) : b <= d
                  /\ Released(h, g, b)
<1>0. PICK good, b, f, g :
        /\ good = Containing(h, ptr) /\ b = FirstBlock(h, good)
        /\ f = Freed(h, b) /\ g = kfree(h, ptr)
  OBVIOUS
<1>1. good \in SUBSET Blocks(h) /\ NoBlock \notin Blocks(h)
  BY <1>0, GoodFields DEF Containing
<1>2. \A d \in Blocks(h) : End(h, d) = EndOf(h, d)
  BY GoodFields DEF End, EndOf, HeapType, PtrIn, Size, SizeIn
<1>3. good = {c \in DOMAIN h.hdr : c <= ptr /\ ptr < End(h, c)}
  BY <1>0, <1>2 DEF Containing, Blocks
<1>4. \/ good = {} /\ b = NoBlock
      \/ b \in good /\ b # NoBlock /\ \A d \in good : b <= d
  BY <1>0, <1>1, FirstOf
<1>5. g = IF ptr = NoBlock \/ Refused(h, ptr) \/ b = NoBlock THEN h
          ELSE merge_blocks(merge_blocks(f, b, h.hdr[b].next), h.hdr[b].prev, b)
  <2>1. b = FirstBlock(h, {c \in DOMAIN h.hdr : c <= ptr /\ ptr < End(h, c)})
    BY <1>0, <1>3
  <2>2. f = [h EXCEPT !.hdr[b].free = TRUE]
    BY <1>0 DEF Freed, Marked
  <2> QED BY <1>0, <2>1, <2>2, Zenon DEF kfree
<1>6. CASE ptr = NoBlock \/ Refused(h, ptr) \/ b = NoBlock
  BY <1>0, <1>4, <1>5, <1>6
<1>7. CASE ~(ptr = NoBlock \/ Refused(h, ptr) \/ b = NoBlock)
  <2>1. b \in good /\ (\A d \in good : b <= d) /\ b \in Blocks(h)
    BY <1>1, <1>4, <1>7
  <2>2. SameList(h, f) /\ FreeOnes(f) = FreeOnes(h) \cup {b}
    BY <1>0, <2>1, MarkedViews
  <2>3. /\ Good(f) /\ Blocks(f) = Blocks(h) /\ f.fault = h.fault
        /\ \A d \in Blocks(h) : /\ Size(f, d) = Size(h, d) /\ NextOf(f, d) = NextOf(h, d)
                                /\ PrevOf(f, d) = PrevOf(h, d)
    BY <2>2 DEF SameList
  <2>4. g = Coalesce(f, b)
    <3>1. NextOf(f, b) = h.hdr[b].next /\ PrevOf(f, b) = h.hdr[b].prev
      BY <2>1, <2>3 DEF NextOf, PrevOf, NextIn, PrevIn
    <3> QED BY <1>5, <1>7, <3>1 DEF Coalesce
  <2>5. PICK p : p = PrevOf(f, b)
    OBVIOUS
  <2>6. /\ Good(g)
        /\ Blocks(g) \subseteq Blocks(f) /\ FreeOnes(g) = FreeOnes(f) \cap Blocks(g)
        /\ Blocks(f) \ Blocks(g) \subseteq FreeOnes(f)
        /\ \A d \in UsedOnes(f) : Size(g, d) = Size(f, d)
        /\ Even(f) => Even(g)
        /\ ApartBut(f, {b, p}, {}) => Apart(g)
        /\ LeftApart(f, b) => b \in Blocks(g)
        /\ g.fault = f.fault
    <3>1. b \in FreeOnes(f)
      BY <2>2
    <3> QED BY <2>3, <2>4, <2>5, <3>1, CoalesceKeeps
  <2>7. UsedOnes(g) = UsedOnes(h) \ {b} /\ \A d \in UsedOnes(g) : Size(g, d) = Size(h, d)
    <3>1. UsedOnes(g) = UsedOnes(f)
      BY <2>6 DEF UsedOnes
    <3>2. UsedOnes(f) = UsedOnes(h) \ {b} /\ UsedOnes(f) \subseteq Blocks(h)
      BY <2>2, <2>3 DEF UsedOnes
    <3> QED BY <2>3, <2>6, <3>1, <3>2
  <2>8. Even(h) => Even(f)
    BY <2>3 DEF Even
  <2>9. Apart(h) => ApartBut(f, {b, p}, {})
    <3>1. ASSUME Apart(h), NEW d \in FreeOnes(f) \ {b, p}, NextOf(f, d) \in FreeOnes(f) \ {}
          PROVE  EndOf(f, d) # NextOf(f, d)
      <4>1. d \in FreeOnes(h) /\ d \in Blocks(h) /\ d # b /\ d # p
        BY <2>2, <3>1, GoodFields
      <4>2. NextOf(f, d) # b
        <5>1. d \in Blocks(f) /\ b \in Blocks(f)
          BY <2>1, <2>3, <4>1
        <5> QED BY <2>3, <2>5, <4>1, <5>1, Neighbours
      <4>3. NextOf(h, d) \in FreeOnes(h) /\ EndOf(f, d) = EndOf(h, d) /\ NextOf(f, d) = NextOf(h, d)
        BY <2>2, <2>3, <3>1, <4>1, <4>2 DEF EndOf
      <4> QED BY <3>1, <4>1, <4>3 DEF Apart
    <3> QED BY <3>1 DEF ApartBut
  <2>10. LeftApart(h, b) => LeftApart(f, b)
    <3>1. ASSUME LeftApart(h, b), NEW d \in FreeOnes(f), NextOf(f, d) = b PROVE EndOf(f, d) # b
      <4>1. d # b
        <5>1. b \in Blocks(f) /\ Blocks(f) \in SUBSET Nat /\ b # NoBlock
          BY <1>1, <2>1, <2>3, GoodFields
        <5>2. NextOf(f, b) # NoBlock => b < NextOf(f, b)
          BY <2>3, <5>1, Neighbours
        <5> QED BY <3>1, <5>1, <5>2
      <4>2. d \in FreeOnes(h) /\ d \in Blocks(h)
        BY <2>2, <3>1, <4>1, GoodFields
      <4> QED BY <2>3, <3>1, <4>2 DEF LeftApart, EndOf
    <3> QED BY <3>1 DEF LeftApart
  <2>11. Released(h, g, b)
    BY <2>3, <2>6, <2>7, <2>8, <2>9, <2>10 DEF Released
  <2> QED BY <1>0, <2>1, <2>11
<1> QED BY <1>6, <1>7
-----------------------------------------------------------------------------
(* A pointer to the data of a block is contained in that block first.      *)
LEMMA OwnFirst ==
  ASSUME NEW h, Good(h), NEW b \in Blocks(h)
  PROVE  LET ptr == b + HeaderSize
         IN  b \in Containing(h, ptr) /\ \A d \in Containing(h, ptr) : b <= d
<1>1. /\ Blocks(h) \in SUBSET Nat /\ b \in Nat /\ HeaderSize = 4 /\ NoBlock = 0
      /\ NoBlock \notin Blocks(h)
      /\ \A d \in Blocks(h) : Size(h, d) \in Nat /\ NextOf(h, d) \in Nat /\ Size(h, d) >= 1
  BY GoodFields DEF HeaderSize, NoBlock
<1>2. b \in Containing(h, b + HeaderSize)
  BY <1>1 DEF Containing, EndOf
<1>3. ASSUME NEW d \in Containing(h, b + HeaderSize) PROVE b <= d
  <2>1. SUFFICES ASSUME d < b PROVE FALSE
    BY <1>1, <1>3 DEF Containing
  <2>2. d \in Blocks(h) /\ b + 4 < EndOf(h, d) /\ d \in Nat /\ Placed(h, d)
    BY <1>1, <1>3 DEF Containing, Good
  <2>3. NextOf(h, d) # NoBlock /\ NextOf(h, d) <= b /\ NextOf(h, d) \in Nat
    BY <1>1, <2>1, <2>2 DEF Placed, Above
  <2>4. EndOf(h, d) <= NextOf(h, d) + 4
    BY <1>1, <2>2, <2>3 DEF Placed, Limit
  <2>5. EndOf(h, d) \in Nat
    BY <1>1, <2>2 DEF EndOf
  <2> QED BY <1>1, <2>2, <2>3, <2>4, <2>5
<1> QED BY <1>2, <1>3

(* kfree() of a pointer to the data of a block frees that block, or is      *)
(* refused.                                                                 *)
LEMMA FreeOwned ==
  ASSUME NEW h, Good(h), NEW b \in Blocks(h)
  PROVE  LET g == kfree(h, b + HeaderSize)
         IN  g = h \/ Released(h, g, b)
<1>0. PICK ptr, g : ptr = b + HeaderSize /\ g = kfree(h, ptr)
  OBVIOUS
<1>1. /\ Blocks(h) \in SUBSET Nat /\ b \in Nat /\ HeaderSize = 4 /\ NoBlock = 0 /\ ptr \in Nat
      /\ ptr # NoBlock /\ h.brk \in Nat /\ h.head \in Nat /\ h.brk % PageSize = 0 /\ ptr <= h.brk
      /\ MinBlkSize = 6 /\ PageSize \in Nat /\ PageSize >= 6
  <2>1. PageSize \in Nat /\ PageSize > 4 /\ PageSize % 2 = 0
    BY HeapAssumption DEF HeaderSize, AlignSize
  <2> QED BY <1>0, <2>1, GoodFields DEF HeaderSize, NoBlock, MinBlkSize, AlignSize
<1>2. b \in Containing(h, ptr) /\ \A d \in Containing(h, ptr) : b <= d
  BY <1>0, OwnFirst
<1>3. CASE \E c \in Containing(h, ptr) :
             /\ \A d \in Containing(h, ptr) : c <= d
             /\ Released(h, g, c)
  <2>1. PICK c \in Containing(h, ptr) :
          (\A d \in Containing(h, ptr) : c <= d) /\ Released(h, g, c)
    BY <1>3
  <2>2. c = b
    <3>1. c \in Nat /\ c <= b /\ b <= c
      BY <1>1, <1>2, <2>1 DEF Containing
    <3> QED BY <1>1, <3>1
  <2> QED BY <1>0, <2>1, <2>2
<1>4. CASE g = h /\ (ptr = NoBlock \/ Refused(h, ptr) \/ Containing(h, ptr) = {})
  BY <1>0, <1>4
<1>5. \/ g = h /\ (ptr = NoBlock \/ Refused(h, ptr) \/ Containing(h, ptr) = {})
      \/ \E c \in Containing(h, ptr) :
           /\ \A d \in Containing(h, ptr) : c <= d
           /\ Released(h, g, c)
  BY <1>0, <1>1, KfreeKeeps
<1> QED BY <1>3, <1>4, <1>5
-----------------------------------------------------------------------------
(* The block that holds pointer ptr when krealloc() looks for another one. *)
Holding(k, b) ==
  \E e \in Blocks(k) : e <= b /\ b + HeaderSize < EndOf(k, e)

(* krealloc() gives the block back, with the memory behind it.              *)
LEMMA GivenUp ==
  ASSUME NEW h, Good(h), Apart(h), NEW b \in UsedOnes(h)
  PROVE  LET f     == Freed(h, b)
             right == merge_blocks(f, b, NextOf(h, b))
             inUse == Used(right, b)
             both  == merge_blocks(right, PrevOf(right, b), b)
             kept  == IF b \in Blocks(both) THEN inUse ELSE both
         IN  /\ Good(inUse) /\ Apart(inUse) /\ b \in UsedOnes(inUse)
             /\ Size(right, b) = Size(inUse, b)
             /\ Good(kept) /\ Apart(kept) /\ Holding(kept, b)
<1>0. PICK f, c, right, inUse, p, both, kept :
        /\ f = Freed(h, b) /\ c = NextOf(h, b) /\ right = merge_blocks(f, b, c)
        /\ inUse = Used(right, b) /\ p = PrevOf(right, b) /\ both = merge_blocks(right, p, b)
        /\ kept = IF b \in Blocks(both) THEN inUse ELSE both
  OBVIOUS
<1>1. b \in Blocks(h) /\ b \notin FreeOnes(h) /\ FreeOnes(h) \subseteq Blocks(h)
  BY GoodFields DEF UsedOnes
<1>2. SameList(h, f) /\ FreeOnes(f) = FreeOnes(h) \cup {b}
  BY <1>0, <1>1, MarkedViews
<1>3. /\ Good(f) /\ Blocks(f) = Blocks(h)
      /\ \A d \in Blocks(h) : /\ Size(f, d) = Size(h, d) /\ NextOf(f, d) = NextOf(h, d)
                              /\ PrevOf(f, d) = PrevOf(h, d)
  BY <1>2 DEF SameList
<1>4. /\ b \in Blocks(f) /\ c = NextOf(f, b) /\ right = merge_blocks(f, b, NextOf(f, b))
      /\ Blocks(f) \in SUBSET Nat /\ b \in Nat /\ NoBlock = 0 /\ NoBlock \notin Blocks(f)
      /\ HeaderSize = 4
  BY <1>0, <1>1, <1>3, GoodFields DEF NoBlock, HeaderSize
<1>5. /\ MergedOrNot(f, right, b)
      /\ \A X, Y : c \notin X /\ ApartBut(f, X \cup {b}, Y) => ApartBut(right, X, Y)
  BY <1>3, <1>4, MergeNext
<1>6. /\ Good(right) /\ b \in Blocks(right) /\ PrevOf(f, b) = p
      /\ FreeOnes(right) = FreeOnes(f) \cap Blocks(right)
      /\ Size(f, b) <= Size(right, b)
  BY <1>0, <1>5 DEF MergedOrNot
<1>7. /\ SameList(right, inUse) /\ FreeOnes(inUse) = FreeOnes(right) \ {b}
  BY <1>0, <1>6, MarkedViews
<1>8. /\ Good(inUse) /\ Blocks(inUse) = Blocks(right) /\ b \in UsedOnes(inUse)
      /\ \A d \in Blocks(right) : Size(inUse, d) = Size(right, d) /\ NextOf(inUse, d) = NextOf(right, d)
  BY <1>6, <1>7 DEF SameList, UsedOnes
<1>9. p # NoBlock => p \in Blocks(right) /\ p < b /\ NextOf(right, p) = b /\ p \in Nat
  <2>1. Blocks(right) \in SUBSET Nat
    BY <1>6, GoodFields
  <2> QED BY <1>0, <1>6, <2>1, Neighbours
<1>10. c # NoBlock => b < c
  BY <1>3, <1>4, Neighbours
<1>11. p # NoBlock => p # c
  BY <1>4, <1>9, <1>10

(* Only the block before b can touch b.                                     *)
<1>12. ApartBut(f, {b, p}, {})
  <2>1. ASSUME NEW d \in FreeOnes(f) \ {b, p}, NextOf(f, d) \in FreeOnes(f) \ {}
        PROVE  EndOf(f, d) # NextOf(f, d)
    <3>1. d \in FreeOnes(h) /\ d \in Blocks(h) /\ d \in Blocks(f)
      BY <1>1, <1>2, <1>3, <2>1
    <3>2. NextOf(f, d) # b
      BY <1>3, <1>4, <1>6, <2>1, <3>1, Neighbours
    <3>3. NextOf(h, d) \in FreeOnes(h) /\ EndOf(f, d) = EndOf(h, d) /\ NextOf(f, d) = NextOf(h, d)
      BY <1>2, <1>3, <2>1, <3>1, <3>2 DEF EndOf
    <3> QED BY <3>1, <3>3 DEF Apart
  <2> QED BY <2>1 DEF ApartBut
<1>13. ApartBut(right, {p}, {})
  <2>1. CASE p = NoBlock
    <3>1. ApartBut(f, {} \cup {b}, {})
      <4>1. p \notin FreeOnes(f)
        BY <1>3, <1>4, <2>1, GoodFields
      <4> QED BY <1>12, <4>1 DEF ApartBut
    <3>2. ApartBut(right, {}, {})
      BY <1>5, <3>1
    <3> QED BY <3>2 DEF ApartBut
  <2>2. CASE p # NoBlock
    <3>1. ApartBut(f, {p} \cup {b}, {}) /\ c \notin {p}
      <4>1. ApartBut(f, {p} \cup {b}, {})
        BY <1>12 DEF ApartBut
      <4> QED BY <1>11, <2>2, <4>1
    <3> QED BY <1>5, <3>1
  <2> QED BY <2>1, <2>2
<1>14. Apart(inUse)
  <2>1. ASSUME NEW d \in FreeOnes(inUse), NextOf(inUse, d) \in FreeOnes(inUse)
        PROVE  EndOf(inUse, d) # NextOf(inUse, d)
    <3>1. d \in FreeOnes(right) /\ d \in Blocks(right) /\ NextOf(right, d) # b
          /\ NextOf(right, d) \in FreeOnes(right) /\ NextOf(inUse, d) = NextOf(right, d)
          /\ EndOf(inUse, d) = EndOf(right, d)
      BY <1>6, <1>7, <1>8, <2>1 DEF EndOf
    <3>2. d # p
      <4>1. d # NoBlock
        BY <1>6, <3>1, GoodFields
      <4> QED BY <1>9, <3>1, <4>1
    <3> QED BY <1>13, <3>1, <3>2 DEF ApartBut
  <2> QED BY <2>1 DEF Apart
<1>15. Holding(inUse, b)
  <2>1. Size(inUse, b) \in Nat /\ Size(inUse, b) >= 1 /\ b \in Blocks(inUse)
    BY <1>6, <1>8, GoodFields
  <2>2. b <= b /\ b + HeaderSize < EndOf(inUse, b)
    BY <1>4, <2>1 DEF EndOf
  <2> QED BY <2>1, <2>2 DEF Holding
<1>16. CASE b \in Blocks(both)
  <2>1. kept = inUse
    BY <1>0, <1>16
  <2> QED BY <1>0, <1>6, <1>8, <1>14, <1>15, <2>1
<1>17. CASE b \notin Blocks(both)
  <2>0. kept = both
    BY <1>0, <1>17
  <2>1. p # NoBlock
    <3>1. SUFFICES ASSUME p = NoBlock PROVE FALSE
      OBVIOUS
    <3>2. both = right
      BY <1>0, <3>1, MergeNull
    <3> QED BY <1>6, <1>17, <3>2
  <2>2. both = merge_blocks(right, p, NextOf(right, p)) /\ p \in Blocks(right) /\ p # b
    BY <1>0, <1>4, <1>9, <2>1
  <2>3. /\ MergedOrNot(right, both, p)
        /\ \A X, Y : NextOf(right, p) \notin X /\ ApartBut(right, X \cup {p}, Y) => ApartBut(both, X, Y)
    BY <1>6, <2>2, MergeNext
  <2>4. Good(both) /\ p \in Blocks(both) /\ EndOf(both, p) = EndOf(right, b)
    BY <1>6, <1>17, <2>3 DEF MergedOrNot
  <2>5. Apart(both)
    <3>1. ApartBut(right, {} \cup {p}, {})
      BY <1>13 DEF ApartBut
    <3>2. ApartBut(both, {}, {})
      BY <2>3, <3>1
    <3> QED BY <3>2 DEF ApartBut, Apart
  <2>6. Holding(both, b)
    <3>1. Size(right, b) \in Nat /\ Size(right, b) >= 1
      BY <1>6, GoodFields
    <3>2. p <= b /\ b + HeaderSize < EndOf(right, b)
      BY <1>4, <1>9, <2>1, <3>1 DEF EndOf
    <3> QED BY <2>4, <3>2 DEF Holding
  <2> QED BY <1>0, <1>6, <1>8, <1>14, <2>0, <2>4, <2>5, <2>6
<1> QED BY <1>16, <1>17

(* The block kmalloc() returns to krealloc() still heads the list that      *)
(* kfree() of the old pointer leaves.                                       *)
LEMMA MovedStays ==
  ASSUME NEW k, Good(k), Apart(k), NEW b \in Nat, Holding(k, b),
         NEW moved, NEW m, NEW size, Got(k, moved, m, size), ~moved.fault
  PROVE  LET g == kfree(moved, b + HeaderSize)
         IN  Good(g) /\ Apart(g) /\ m \in Blocks(g)
<1>0. PICK ptr, g : ptr = b + HeaderSize /\ g = kfree(moved, ptr)
  OBVIOUS
<1>1. /\ Good(moved) /\ Apart(moved) /\ m \in UsedOnes(moved) /\ m \in Blocks(moved)
      /\ m \in Blocks(k) => LeftApart(moved, m)
      /\ m \notin Blocks(k) => Kept(k, moved, m) /\ \A d \in Blocks(k) : d < m
  BY DEF Got, Around, UsedOnes
<1>2. ptr \in Nat
  BY <1>0 DEF HeaderSize
<1>3. CASE g = moved
  BY <1>0, <1>1, <1>3
<1>4. CASE \E d0 \in Containing(moved, ptr) :
             /\ \A d \in Containing(moved, ptr) : d0 <= d
             /\ Released(moved, g, d0)
  <2>1. PICK d0 \in Containing(moved, ptr) :
          (\A d \in Containing(moved, ptr) : d0 <= d) /\ Released(moved, g, d0)
    BY <1>4
  <2>2. Good(g) /\ Apart(g)
    BY <1>1, <2>1 DEF Released
  <2>3. CASE d0 # m
    BY <1>0, <1>1, <2>1, <2>2, <2>3 DEF Released, UsedOnes
  <2>4. CASE d0 = m
    <3>1. m \in Blocks(k)
      <4>1. SUFFICES ASSUME m \notin Blocks(k) PROVE FALSE
        OBVIOUS
      <4>2. PICK e \in Blocks(k) : e <= b /\ ptr < EndOf(k, e)
        BY <1>0 DEF Holding
      <4>3. e < m /\ e \in Blocks(moved) /\ EndOf(moved, e) = EndOf(k, e) /\ e \in Nat /\ m \in Nat
        <5>1. e \in Nat /\ m \in Nat
          BY <1>1, GoodFields
        <5>2. e < m /\ e # m
          BY <1>1, <4>1, <5>1
        <5> QED BY <1>1, <4>1, <5>1, <5>2 DEF Kept, EndOf
      <4>4. e <= ptr
        BY <1>0, <4>2, <4>3 DEF HeaderSize
      <4>5. e \in Containing(moved, ptr)
        BY <4>2, <4>3, <4>4 DEF Containing
      <4>6. m <= e
        BY <2>1, <2>4, <4>5
      <4> QED BY <4>3, <4>6
    <3>2. LeftApart(moved, m)
      BY <1>1, <3>1
    <3> QED BY <1>0, <2>1, <2>2, <2>4, <3>2 DEF Released
  <2> QED BY <2>3, <2>4
<1> QED BY <1>0, <1>1, <1>2, <1>3, <1>4, KfreeKeeps
-----------------------------------------------------------------------------
(* What a call leaves behind that returned ptr, not NULL.                  *)
Returned(h, ptr) ==
  /\ Good(h) /\ ptr \in Nat /\ ptr # NoBlock
  /\ ~h.fault /\ ptr - HeaderSize \notin FreeOnes(h) => Apart(h)

(* A split leaves free blocks apart unless it returns a free one.          *)
LEMMA CutToSize ==
  ASSUME NEW h, Good(h), Apart(h), NEW b \in Blocks(h), NEW size \in Nat, size >= 1
  PROVE  Returned(split_block(h, b, size), b + HeaderSize)
<1>0. PICK g : g = split_block(h, b, size)
  OBVIOUS
<1>1. SplitDone(h, g, b, size)
  BY <1>0, SplitKeeps
<1>2. ApartBut(h, {b}, {})
  BY DEF Apart, ApartBut
<1>3. Good(g) /\ (~g.fault => ApartBut(g, {b}, {}))
  BY <1>1, <1>2 DEF SplitDone, Around
<1>4. ~g.fault /\ b \notin FreeOnes(g) => Apart(g)
  BY <1>3 DEF Apart, ApartBut
<1>5. (b + HeaderSize) - HeaderSize = b /\ b + HeaderSize \in Nat /\ b + HeaderSize # NoBlock
  <2>1. b \in Nat
    BY GoodFields
  <2> QED BY <2>1 DEF HeaderSize, NoBlock
<1> QED BY <1>0, <1>3, <1>4, <1>5 DEF Returned

(* A size rounded up is not rounded any further.                           *)
LEMMA RoundedFits ==
  ASSUME NEW size \in Nat, size # 0, ~TooBig(size)
  PROVE  ~TooBig(RoundUp(size, AlignSize))
<1>1. AlignSize = 2 /\ SizeMax \in Nat
  BY HeapAssumption DEF AlignSize
<1>2. PICK total : total = RoundUp(size, AlignSize)
  OBVIOUS
<1>3. total \in Nat /\ total % 2 = 0 /\ size <= total
  BY <1>1, <1>2, RoundedUp
<1>4. Rounded(size) = total /\ total <= SizeMax
  BY <1>1, <1>2, <1>3 DEF TooBig, Rounded
<1>5. Rounded(total) = ((total + 1) \div 2) * 2
  BY <1>1, <1>3 DEF Rounded, RoundUp
<1>6. ((total + 1) \div 2) * 2 = total
  BY <1>3
<1> QED BY <1>1, <1>2, <1>3, <1>4, <1>5, <1>6 DEF TooBig

(***************************************************************************)
(* krealloc() keeps the list good, and its blocks apart unless the block   *)
(* it returns is free (kmalloc.c:327-404).                                 *)
(***************************************************************************)
LEMMA KreallocKeeps ==
  ASSUME NEW h, Good(h), Apart(h), NEW b \in UsedOnes(h), NEW size \in Nat, size # 0,
         ~TooBig(size)
  PROVE  LET got == krealloc(h, b + HeaderSize, size)
         IN  Returned(got.heap, got.ptr)
<1>0. PICK ptr, total, f, right, inUse, both, kept, moved, got :
        /\ ptr = b + HeaderSize /\ total = RoundUp(size, AlignSize)
        /\ f = Freed(h, b) /\ right = merge_blocks(f, b, NextOf(h, b))
        /\ inUse = Used(right, b) /\ both = merge_blocks(right, PrevOf(right, b), b)
        /\ kept = IF b \in Blocks(both) THEN inUse ELSE both
        /\ moved = kmalloc(kept, total) /\ got = krealloc(h, ptr, size)
  OBVIOUS
<1>1. /\ b \in Blocks(h) /\ b \in Nat /\ ptr \in Nat /\ ptr - HeaderSize = b /\ HeapType(h)
  <2>1. b \in Blocks(h) /\ b \in Nat /\ HeapType(h)
    BY GoodFields DEF UsedOnes
  <2> QED BY <1>0, <2>1 DEF HeaderSize
<1>2. total \in Nat /\ size <= total /\ total >= 1 /\ size >= 1
  <2>1. AlignSize \in Nat /\ AlignSize > 0
    BY DEF AlignSize
  <2>2. total \in Nat /\ size <= total
    BY <1>0, <2>1, RoundedUp
  <2> QED BY <2>2
<1>3. /\ Good(inUse) /\ Apart(inUse) /\ b \in UsedOnes(inUse)
      /\ Size(right, b) = Size(inUse, b)
      /\ Good(kept) /\ Apart(kept) /\ Holding(kept, b)
  BY <1>0, GivenUp
<1>4. b \in Blocks(inUse) /\ inUse.hdr[b].ptr = ptr
  <2>1. b \in Blocks(inUse) /\ HeapType(inUse)
    BY <1>3, GoodFields DEF UsedOnes
  <2> QED BY <1>0, <2>1 DEF HeapType, PtrIn
<1>5. got = IF total < Size(h, b)
            THEN [heap |-> split_block(h, b, total), ptr |-> ptr]
            ELSE IF Size(right, b) >= total
            THEN [heap |-> split_block(inUse, b, size), ptr |-> ptr]
            ELSE IF moved.heap.fault THEN moved
            ELSE [heap |-> split_block(kfree(moved.heap, ptr), moved.ptr - HeaderSize, size),
                  ptr |-> moved.ptr]
  <2>1. right = merge_blocks([h EXCEPT !.hdr[b].free = TRUE], b, h.hdr[b].next)
    BY <1>0 DEF Freed, Marked, NextOf, NextIn
  <2>2. inUse = [right EXCEPT !.hdr[b].free = FALSE]
    BY <1>0 DEF Used, Marked
  <2>3. both = merge_blocks(right, right.hdr[b].prev, b)
    BY <1>0 DEF PrevOf, PrevIn
  <2>4. kept = IF b \in DOMAIN both.hdr THEN inUse ELSE both
    BY <1>0 DEF Blocks
  <2>5. Size(h, b) = h.hdr[b].size /\ Size(right, b) = right.hdr[b].size
    BY DEF Size, SizeIn
  <2>6. got = Resized(h, ptr, size)
    BY <1>0 DEF krealloc
  <2> QED BY <1>0, <1>1, <1>4, <2>1, <2>2, <2>3, <2>4, <2>5, <2>6, Zenon DEF Resized
<1>6. CASE total < Size(h, b)
  <2>1. Returned(split_block(h, b, total), ptr)
    BY <1>0, <1>1, <1>2, CutToSize
  <2> QED BY <1>0, <1>5, <1>6, <2>1
<1>7. CASE ~(total < Size(h, b)) /\ Size(right, b) >= total
  <2>1. Returned(split_block(inUse, b, size), ptr)
    BY <1>0, <1>2, <1>3, <1>4, CutToSize
  <2> QED BY <1>0, <1>5, <1>7, <2>1
<1>8. CASE ~(total < Size(h, b)) /\ ~(Size(right, b) >= total)
  <2>1. PICK k, m : k = moved.heap /\ m = moved.ptr - HeaderSize
    OBVIOUS
  <2>2. moved.ptr = m + HeaderSize /\ moved.ptr \in Nat /\ Got(kept, k, m, Rounded(total))
    <3>1. ~TooBig(total)
      BY <1>0, <1>2, RoundedFits
    <3> QED BY <1>0, <1>2, <1>3, <2>1, <3>1, KmallocKeeps
  <2>3. CASE k.fault
    <3>1. got = moved
      BY <1>5, <1>8, <2>1, <2>3
    <3>2. moved.ptr # NoBlock
      <4>1. PICK x : x = moved.ptr
        OBVIOUS
      <4>2. m \in Nat /\ x = m + HeaderSize
        BY <2>2, <4>1, GoodFields DEF Got, Around, UsedOnes
      <4> QED BY <4>1, <4>2 DEF HeaderSize, NoBlock
    <3> QED BY <1>0, <2>1, <2>2, <2>3, <3>1, <3>2 DEF Returned, Got, Around
  <2>4. CASE ~k.fault
    <3>1. PICK g : g = kfree(k, ptr)
      OBVIOUS
    <3>2. Good(g) /\ Apart(g) /\ m \in Blocks(g)
      BY <1>0, <1>1, <1>3, <2>2, <2>4, <3>1, MovedStays
    <3>3. Returned(split_block(g, m, size), moved.ptr)
      BY <1>2, <2>2, <3>2, CutToSize
    <3>4. got = [heap |-> split_block(g, m, size), ptr |-> moved.ptr]
      BY <1>5, <1>8, <2>1, <2>4, <3>1
    <3> QED BY <1>0, <3>3, <3>4
  <2> QED BY <2>3, <2>4
<1> QED BY <1>6, <1>7, <1>8
-----------------------------------------------------------------------------
(***************************************************************************)
(* The invariant of the callers.  The counter out is never below the       *)
(* number of pointers owned.  Until krealloc() is called, the owned blocks *)
(* are in use and large enough.                                            *)
(***************************************************************************)
OwnedType(o, n) ==
  /\ IsFiniteSet(DOMAIN o) /\ DOMAIN o \subseteq Nat
  /\ \A p \in DOMAIN o : o[p] \in Nat
  /\ n \in Nat /\ Cardinality(DOMAIN o) <= n

Theirs(h, o) ==
  /\ Even(h)
  /\ \A p \in DOMAIN o :
       p - HeaderSize \in UsedOnes(h) /\ Size(h, p - HeaderSize) >= o[p]

IInv ==
  /\ Good(heap) /\ OwnedType(owned, out) /\ resized \in BOOLEAN
  /\ ~heap.fault /\ NoneShared(heap) => Apart(heap)
  /\ ~resized => Theirs(heap, owned)

(* One pointer more is owned.                                              *)
LEMMA PutOwned ==
  ASSUME NEW o, NEW n, OwnedType(o, n), NEW ptr \in Nat, NEW size \in Nat
  PROVE  LET q == Put(o, ptr, size)
         IN  /\ OwnedType(q, n + 1) /\ DOMAIN q = DOMAIN o \cup {ptr}
             /\ q[ptr] = size /\ \A p \in DOMAIN o : p # ptr => q[p] = o[p]
<1>0. PICK q, D : q = Put(o, ptr, size) /\ D = DOMAIN o
  OBVIOUS
<1>1. /\ DOMAIN q = D \cup {ptr} /\ q[ptr] = size
      /\ \A p \in D : p # ptr => q[p] = o[p]
  BY <1>0 DEF Put
<1>2. IsFiniteSet(D) /\ Cardinality(D) <= n /\ n \in Nat /\ Cardinality(D) \in Nat
  BY <1>0, FS_CardinalityType DEF OwnedType
<1>3. IsFiniteSet(D \cup {ptr}) /\ Cardinality(D \cup {ptr}) <= n + 1
  <2>1. IsFiniteSet(D \cup {ptr})
        /\ (Cardinality(D \cup {ptr}) = IF ptr \in D THEN Cardinality(D) ELSE Cardinality(D) + 1)
    BY <1>2, FS_AddElement
  <2> QED BY <1>2, <2>1
<1> QED BY <1>0, <1>1, <1>2, <1>3 DEF OwnedType

(* One pointer less is owned.                                              *)
LEMMA DropOwned ==
  ASSUME NEW o, NEW n, OwnedType(o, n), NEW ptr \in DOMAIN o
  PROVE  LET q == Drop(o, ptr)
         IN  /\ OwnedType(q, n - 1) /\ DOMAIN q = DOMAIN o \ {ptr}
             /\ \A p \in DOMAIN q : q[p] = o[p]
<1>0. PICK q, D : q = Drop(o, ptr) /\ D = DOMAIN o
  OBVIOUS
<1>1. DOMAIN q = D \ {ptr} /\ \A p \in D \ {ptr} : q[p] = o[p]
  BY <1>0 DEF Drop
<1>2. IsFiniteSet(D) /\ Cardinality(D) <= n /\ n \in Nat /\ Cardinality(D) \in Nat
  BY <1>0, FS_CardinalityType DEF OwnedType
<1>3. IsFiniteSet(D \ {ptr}) /\ Cardinality(D \ {ptr}) = Cardinality(D) - 1
  BY <1>0, <1>2, FS_RemoveElement
<1>4. Cardinality(D \ {ptr}) \in Nat
  BY <1>3, FS_CardinalityType
<1>5. n - 1 \in Nat /\ Cardinality(D \ {ptr}) <= n - 1
  BY <1>2, <1>3, <1>4
<1> QED BY <1>0, <1>1, <1>3, <1>5 DEF OwnedType

(* The types of what callers own after a call that did not refuse.         *)
LEMMA GiveKeeps ==
  ASSUME NEW got, NEW size \in Nat, NEW rest, NEW left, OwnedType(rest, left),
         got.ptr \in Nat, got.ptr # NoBlock, Give(got, size, rest, left)
  PROVE  /\ OwnedType(owned', out') /\ heap' = got.heap
         /\ owned' = IF got.heap.fault THEN rest ELSE Put(rest, got.ptr, size)
         /\ out' = IF got.heap.fault THEN left ELSE left + 1
<1>0. /\ heap' = got.heap
      /\ owned' = IF got.heap.fault THEN rest ELSE Put(rest, got.ptr, size)
      /\ out' = IF got.heap.fault THEN left ELSE left + 1
  BY DEF Give
<1>1. CASE got.heap.fault
  BY <1>0, <1>1
<1>2. CASE ~got.heap.fault
  BY <1>0, <1>2, PutOwned
<1> QED BY <1>0, <1>1, <1>2

(* A call that refuses changes nothing.                                    *)
LEMMA RefusalKeeps ==
  ASSUME NEW size, NEW rest, NEW left, Give(NoMemory(heap), size, rest, left)
  PROVE  UNCHANGED <<heap, owned, out>>
BY DEF Give, NoMemory

(* A caller that got a block owns it, and the rest is as before.           *)
LEMMA GotTheirs ==
  ASSUME NEW h, NEW o, NEW n, Good(h), ~h.fault, OwnedType(o, n), Theirs(h, o),
         NEW g, NEW b \in Nat, NEW total \in Nat, total % AlignSize = 0, Got(h, g, b, total),
         NEW size \in Nat, size <= total,
         NEW q, q = IF g.fault THEN o ELSE Put(o, b + HeaderSize, size)
  PROVE  Theirs(g, q) /\ b + HeaderSize \notin DOMAIN o
<1>0. PICK ptr : ptr = b + HeaderSize
  OBVIOUS
<1>1. ptr \in Nat /\ ptr - HeaderSize = b
  BY <1>0 DEF HeaderSize
<1>2. /\ Even(g) /\ b \in UsedOnes(g) /\ b \notin UsedOnes(h) /\ total <= Size(g, b)
      /\ \A d : d # b => (d \in UsedOnes(g) <=> d \in UsedOnes(h))
      /\ \A d \in UsedOnes(g) : d # b => Size(g, d) = Size(h, d)
  BY DEF Got, Around, Theirs
<1>3. ptr \notin DOMAIN o
  BY <1>1, <1>2 DEF Theirs
<1>4. ASSUME NEW p \in DOMAIN o
      PROVE  p - HeaderSize \in UsedOnes(g) /\ Size(g, p - HeaderSize) >= o[p]
  <2>1. p - HeaderSize \in UsedOnes(h) /\ Size(h, p - HeaderSize) >= o[p]
    BY <1>4 DEF Theirs
  <2>2. p - HeaderSize # b
    BY <1>2, <2>1
  <2> QED BY <1>2, <2>1, <2>2
<1>5. CASE g.fault
  BY <1>0, <1>2, <1>3, <1>4, <1>5 DEF Theirs
<1>6. CASE ~g.fault
  <2>1. /\ DOMAIN q = DOMAIN o \cup {ptr} /\ q[ptr] = size
        /\ \A p \in DOMAIN o : p # ptr => q[p] = o[p]
    <3>1. q = Put(o, ptr, size)
      BY <1>0, <1>6
    <3> QED BY <3>1 DEF Put
  <2>2. Size(g, b) \in Nat
    BY <1>2, GoodFields DEF Got, Around, UsedOnes
  <2>3. Size(g, b) >= size
    BY <1>2, <2>2
  <2>4. \A p \in DOMAIN q : p - HeaderSize \in UsedOnes(g) /\ Size(g, p - HeaderSize) >= q[p]
    BY <1>1, <1>2, <1>3, <1>4, <2>1, <2>3
  <2> QED BY <1>0, <1>2, <1>3, <2>4 DEF Theirs
<1> QED BY <1>5, <1>6
-----------------------------------------------------------------------------
(* A caller that gave its block back, or was refused.                      *)
LEMMA FreedTheirs ==
  ASSUME NEW h, NEW o, NEW n, Good(h), ~h.fault, OwnedType(o, n), Theirs(h, o),
         NEW b \in UsedOnes(h), b + HeaderSize \in DOMAIN o,
         NEW g, g = kfree(h, b + HeaderSize)
  PROVE  Theirs(g, Drop(o, b + HeaderSize))
<1>0. PICK ptr, q : ptr = b + HeaderSize /\ q = Drop(o, ptr)
  OBVIOUS
<1>1. b \in Blocks(h) /\ b \in Nat /\ ptr \in DOMAIN o
  BY <1>0, GoodFields DEF UsedOnes
<1>2. DOMAIN q = DOMAIN o \ {ptr} /\ \A p \in DOMAIN q : q[p] = o[p]
  <2>1. PICK D : D = DOMAIN o
    OBVIOUS
  <2>2. DOMAIN q = D \ {ptr} /\ \A p \in D \ {ptr} : q[p] = o[p]
    BY <1>0, <2>1 DEF Drop
  <2> QED BY <2>1, <2>2
<1>3. g = h \/ Released(h, g, b)
  BY <1>0, <1>1, FreeOwned
<1>4. \A p \in DOMAIN q : /\ p - HeaderSize \in UsedOnes(h) /\ p - HeaderSize # b
                          /\ Size(h, p - HeaderSize) >= q[p]
  <2>1. \A p \in DOMAIN q : p \in Nat /\ p # ptr
    BY <1>2 DEF OwnedType
  <2>2. \A p \in DOMAIN q : p - HeaderSize # b
    BY <1>0, <1>1, <2>1 DEF HeaderSize
  <2> QED BY <1>2, <2>2 DEF Theirs
<1>6. CASE g = h
  BY <1>0, <1>4, <1>6 DEF Theirs
<1>7. CASE Released(h, g, b)
  <2>1. /\ Even(g) /\ UsedOnes(g) = UsedOnes(h) \ {b}
        /\ \A d \in UsedOnes(g) : Size(g, d) = Size(h, d)
    BY <1>7 DEF Released, Theirs
  <2> QED BY <1>0, <1>4, <2>1 DEF Theirs
<1> QED BY <1>3, <1>6, <1>7

-----------------------------------------------------------------------------
(* The invariant holds of the empty heap.                                  *)
LEMMA InitIInv == Init => IInv
<1>0. SUFFICES ASSUME Init PROVE IInv
  OBVIOUS
<1>1. PICK f : f = [b \in {} |-> Header0(b, 0, TRUE, NoBlock, NoBlock)]
  OBVIOUS
<1>2. f \in Headers({}) /\ DOMAIN f = {} /\ FreeIn(f) = {}
  BY <1>1 DEF Headers, FreeIn
<1>3. heap = [hdr |-> f, head |-> NoBlock, brk |-> Start, fault |-> FALSE]
  BY <1>0, <1>1 DEF Init, EmptyHeap
<1>4. Start \in Nat /\ Start % PageSize = 0 /\ NoBlock \in Nat
  BY HeapAssumption DEF NoBlock
<1>5. heap \in Heaps
  <2>1. f \in UNION {Headers(D) : D \in SUBSET Nat}
    BY <1>2
  <2> QED BY <1>3, <1>4, <2>1 DEF Heaps
<1>6. /\ Blocks(heap) = {} /\ FreeOnes(heap) = {} /\ heap.head = NoBlock /\ heap.brk = Start
      /\ UsedOnes(heap) = {}
  BY <1>2, <1>3 DEF Blocks, FreeOnes, UsedOnes
<1>7. Good(heap)
  <2>1. IsFiniteSet({})
    BY FS_EmptySet
  <2>2. Fits(heap)
    BY <1>6 DEF Fits
  <2> QED BY <1>4, <1>5, <1>6, <2>1, <2>2 DEF Good, HeapType, Headed
<1>8. DOMAIN owned = {} /\ out = 0
  <2>1. DOMAIN [p \in {} |-> 0] = {}
    OBVIOUS
  <2> QED BY <1>0, <2>1 DEF Init
<1>9. OwnedType(owned, out)
  BY <1>8, FS_EmptySet DEF OwnedType
<1>10. Apart(heap) /\ Theirs(heap, owned)
  BY <1>6, <1>8 DEF Apart, Theirs, Even
<1>11. resized \in BOOLEAN
  BY <1>0 DEF Init
<1> QED BY <1>7, <1>9, <1>10, <1>11 DEF IInv

(* The callers' blocks are in use, as NoneShared says it.                  *)
LEMMA SharedView ==
  ASSUME NEW h
  PROVE  NoneShared(h) <=> \A p \in DOMAIN owned : p - HeaderSize \in UsedOnes(h)
<1>1. \A b : b \in UsedOnes(h) <=> b \in DOMAIN h.hdr /\ ~h.hdr[b].free
  BY Zenon DEF UsedOnes, Blocks, FreeOnes, FreeIn
<1> QED BY <1>1, Zenon DEF NoneShared

(* The invariant is about these variables, and resized may be set.         *)
LEMMA StutterKeeps ==
  ASSUME IInv, UNCHANGED <<heap, owned, out>>, resized' \in BOOLEAN, resized => resized'
  PROVE  IInv'
<1>1. heap' = heap /\ owned' = owned /\ out' = out
  OBVIOUS
<1>2. NoneShared(heap)' <=> NoneShared(heap)
  BY <1>1 DEF NoneShared
<1>3. (~heap.fault /\ NoneShared(heap) => Apart(heap))'
  BY <1>1, <1>2 DEF IInv
<1>4. (~resized => Theirs(heap, owned))'
  BY <1>1 DEF IInv
<1>5. Good(heap)' /\ OwnedType(owned, out)'
  BY <1>1 DEF IInv
<1> QED BY <1>3, <1>4, <1>5 DEF IInv

(* A block got by Malloc or Calloc, or not.                                 *)
LEMMA AllocKeeps ==
  ASSUME IInv, Running, NEW asked \in Nat, NEW size \in Nat, size <= asked,
         Give(kmalloc(heap, asked), size, owned, out), UNCHANGED resized
  PROVE  IInv'
<1>0. PICK got, g, ptr, b, total : /\ got = kmalloc(heap, asked) /\ g = got.heap /\ ptr = got.ptr
                                   /\ b = ptr - HeaderSize /\ total = Rounded(asked)
  OBVIOUS
<1>1. /\ Good(heap) /\ OwnedType(owned, out) /\ resized \in BOOLEAN /\ ~heap.fault /\ Apart(heap)
      /\ ~resized => Theirs(heap, owned)
  BY DEF IInv, Running
<1>9. CASE TooBig(asked)
  <2>1. Give(NoMemory(heap), size, owned, out)
    BY <1>9 DEF kmalloc
  <2> QED BY <1>1, <2>1, RefusalKeeps, StutterKeeps
<1>10. CASE ~TooBig(asked)
  <2>1. /\ ptr = b + HeaderSize /\ ptr \in Nat /\ b \in Nat
        /\ total \in Nat /\ total % AlignSize = 0 /\ asked <= total
        /\ Got(heap, g, b, total)
    BY <1>0, <1>1, <1>10, KmallocKeeps
  <2>2. Give(got, size, owned, out) /\ got.ptr \in Nat /\ got.ptr # NoBlock
    BY <1>0, <2>1 DEF HeaderSize, NoBlock
  <2>3. /\ OwnedType(owned', out') /\ heap' = g
        /\ owned' = IF g.fault THEN owned ELSE Put(owned, ptr, size)
    BY <1>0, <1>1, <2>2, GiveKeeps
  <2>4. Good(g) /\ (~g.fault => Apart(g))
    BY <1>1, <2>1 DEF Got, Around
  <2>5. ASSUME ~resized PROVE Theirs(g, owned')
    <3>1. PICK q : q = owned'
      OBVIOUS
    <3>2. q = IF g.fault THEN owned ELSE Put(owned, b + HeaderSize, size)
      BY <2>1, <2>3, <3>1
    <3>3. size <= total
      BY <2>1
    <3>4. Theirs(g, q)
      BY <1>1, <2>1, <2>5, <3>2, <3>3, GotTheirs
    <3> QED BY <3>1, <3>4
  <2>6. (~resized => Theirs(heap, owned))'
    BY <2>3, <2>5
  <2>7. (~heap.fault /\ NoneShared(heap) => Apart(heap))'
    BY <2>3, <2>4
  <2> QED BY <1>1, <2>3, <2>4, <2>6, <2>7 DEF IInv
<1> QED BY <1>9, <1>10
-----------------------------------------------------------------------------
(* Malloc keeps the invariant.                                             *)
LEMMA MallocStep ==
  ASSUME IInv, NEW size \in Sizes, Malloc(size)
  PROVE  IInv'
<1>1. size \in Nat /\ size <= size
  BY SizesAssumption
<1> QED BY <1>1, AllocKeeps DEF Malloc

(* nmemb * size words are asked for, and as many rounded up allocated.     *)
LEMMA CallocSize ==
  ASSUME NEW k \in Counts, NEW n \in Sizes
  PROVE  /\ k * n \in Nat /\ RoundUp(k * n, AlignSize) \in Nat
         /\ k * n <= RoundUp(k * n, AlignSize)
<1>1. PICK x : x = k * n
  OBVIOUS
<1>2. x \in Nat
  BY <1>1, SizesAssumption
<1>3. RoundUp(x, AlignSize) \in Nat /\ x <= RoundUp(x, AlignSize)
  BY <1>2, RoundedUp DEF AlignSize
<1> QED BY <1>1, <1>2, <1>3

(* kcalloc() refuses, or is kmalloc().                                      *)
LEMMA CallocIsMalloc ==
  ASSUME NEW h, NEW k, NEW n
  PROVE  \/ kcalloc(h, k, n) = NoMemory(h)
         \/ kcalloc(h, k, n) = kmalloc(h, RoundUp(k * n, AlignSize))
BY DEF kcalloc

(* Calloc keeps the invariant.                                             *)
LEMMA CallocStep ==
  ASSUME IInv, NEW k \in Counts, NEW n \in Sizes, Calloc(k, n)
  PROVE  IInv'
<1>1. PICK x, asked : x = k * n /\ asked = RoundUp(x, AlignSize)
  OBVIOUS
<1>2. x \in Nat /\ asked \in Nat /\ x <= asked
  BY <1>1, CallocSize
<1>3. /\ Running /\ UNCHANGED resized
      /\ Give(kcalloc(heap, k, n), x, owned, out)
  BY <1>1 DEF Calloc
<1>4. CASE Give(NoMemory(heap), x, owned, out)
  BY <1>3, <1>4, RefusalKeeps, StutterKeeps DEF IInv
<1>5. CASE Give(kmalloc(heap, asked), x, owned, out)
  BY <1>2, <1>3, <1>5, AllocKeeps
<1> QED BY <1>1, <1>3, <1>4, <1>5, CallocIsMalloc

(* What the callers' actions start from.                                   *)
LEMMA OwnedBlock ==
  ASSUME IInv, Running, NEW ptr \in DOMAIN owned
  PROVE  /\ Good(heap) /\ ~heap.fault /\ Apart(heap) /\ OwnedType(owned, out)
         /\ OwnedType(Drop(owned, ptr), out - 1)
         /\ \E b \in UsedOnes(heap) : ptr = b + HeaderSize
<1>1. Good(heap) /\ ~heap.fault /\ Apart(heap) /\ OwnedType(owned, out)
  BY DEF IInv, Running
<1>2. ptr - HeaderSize \in UsedOnes(heap)
  BY SharedView DEF Running
<1>3. ptr \in Nat
  BY <1>1 DEF OwnedType
<1>4. ptr = (ptr - HeaderSize) + HeaderSize
  BY <1>3 DEF HeaderSize
<1> QED BY <1>1, <1>2, <1>4, DropOwned

(* Free keeps the invariant, refused or not.                               *)
LEMMA FreeStep ==
  ASSUME IInv, NEW ptr \in DOMAIN owned, Free(ptr)
  PROVE  IInv'
<1>0. Running /\ heap' = kfree(heap, ptr) /\ owned' = Drop(owned, ptr)
      /\ out' = out - 1 /\ resized' = resized
  BY DEF Free
<1>1. /\ Good(heap) /\ ~heap.fault /\ Apart(heap) /\ OwnedType(owned, out)
      /\ OwnedType(Drop(owned, ptr), out - 1)
  BY <1>0, OwnedBlock
<1>2. PICK b \in UsedOnes(heap) : ptr = b + HeaderSize
  BY <1>0, OwnedBlock
<1>3. b \in Blocks(heap)
  BY <1>2 DEF UsedOnes
<1>4. PICK g : g = kfree(heap, b + HeaderSize)
  OBVIOUS
<1>5. g = heap \/ Released(heap, g, b)
  BY <1>1, <1>3, <1>4, FreeOwned
<1>6. Good(g) /\ Apart(g)
  BY <1>1, <1>5 DEF Released
<1>7. ASSUME ~resized PROVE Theirs(g, Drop(owned, ptr))
  <2>1. Theirs(heap, owned)
    BY <1>7 DEF IInv
  <2>2. Theirs(g, Drop(owned, b + HeaderSize))
    BY <1>1, <1>2, <1>4, <2>1, FreedTheirs
  <2> QED BY <1>2, <2>2
<1>8. heap' = g
  BY <1>0, <1>2, <1>4
<1>9. (~resized => Theirs(heap, owned))'
  BY <1>0, <1>7, <1>8
<1>10. resized' \in BOOLEAN
  BY <1>0 DEF IInv
<1> QED BY <1>0, <1>1, <1>6, <1>8, <1>9, <1>10 DEF IInv

(* Realloc keeps the invariant: the list is good, resized or not.          *)
LEMMA ReallocStep ==
  ASSUME IInv, NEW ptr \in DOMAIN owned, NEW size \in ReSizes, Realloc(ptr, size)
  PROVE  IInv'
<1>0. PICK got, g, p : got = krealloc(heap, ptr, size) /\ g = got.heap /\ p = got.ptr
  OBVIOUS
<1>1. Running /\ size # 0 /\ Give(got, size, Drop(owned, ptr), out - 1) /\ resized' = TRUE
  BY <1>0 DEF Realloc
<1>2. /\ Good(heap) /\ Apart(heap) /\ OwnedType(Drop(owned, ptr), out - 1)
  BY <1>1, OwnedBlock
<1>3. PICK b \in UsedOnes(heap) : ptr = b + HeaderSize
  BY <1>1, OwnedBlock
<1>4. size \in Nat
  BY SizesAssumption
<1>5. CASE TooBig(size)
  <2>1. Give(NoMemory(heap), size, Drop(owned, ptr), out - 1)
    BY <1>0, <1>1, <1>5 DEF krealloc
  <2> QED BY <1>1, <2>1, RefusalKeeps, StutterKeeps
<1>6. CASE ~TooBig(size)
  <2>1. Returned(g, p)
    BY <1>0, <1>1, <1>2, <1>3, <1>4, <1>6, KreallocKeeps
  <2>2. Good(g) /\ got.ptr \in Nat /\ got.ptr # NoBlock
    BY <1>0, <2>1 DEF Returned
  <2>3. /\ OwnedType(owned', out') /\ heap' = g
        /\ owned' = IF g.fault THEN Drop(owned, ptr) ELSE Put(Drop(owned, ptr), p, size)
    BY <1>0, <1>1, <1>2, <1>4, <2>2, GiveKeeps
  <2>4. ASSUME ~g.fault, NoneShared(heap)' PROVE Apart(g)
    <3>1. p \in DOMAIN owned'
      BY <2>3, <2>4 DEF Put
    <3>2. \A q \in DOMAIN owned' : q - HeaderSize \in UsedOnes(g)
      <4>1. \A b1 : b1 \in UsedOnes(g) <=> b1 \in DOMAIN g.hdr /\ ~g.hdr[b1].free
        BY Zenon DEF UsedOnes, Blocks, FreeOnes, FreeIn
      <4> QED BY <2>3, <2>4, <4>1, Zenon DEF NoneShared
    <3>3. p - HeaderSize \notin FreeOnes(g)
      BY <3>1, <3>2 DEF UsedOnes
    <3> QED BY <2>1, <2>4, <3>3 DEF Returned
  <2>5. (~heap.fault /\ NoneShared(heap) => Apart(heap))'
    BY <2>3, <2>4
  <2>6. resized' \in BOOLEAN /\ (~resized => Theirs(heap, owned))'
    BY <1>1
  <2> QED BY <2>2, <2>3, <2>5, <2>6 DEF IInv
<1> QED BY <1>5, <1>6

(* Every step keeps the invariant.                                         *)
LEMMA StepIInv == IInv /\ [Next]_vars => IInv'
<1> SUFFICES ASSUME IInv, [Next]_vars PROVE IInv'
  OBVIOUS
<1>1. ASSUME NEW n \in Sizes, Malloc(n) PROVE IInv'
  BY <1>1, MallocStep
<1>2. ASSUME NEW k \in Counts, NEW n \in Sizes, Calloc(k, n) PROVE IInv'
  BY <1>2, CallocStep
<1>3. ASSUME NEW p \in DOMAIN owned, Free(p) PROVE IInv'
  BY <1>3, FreeStep
<1>4. ASSUME NEW p \in DOMAIN owned, NEW n \in ReSizes, Realloc(p, n) PROVE IInv'
  BY <1>4, ReallocStep
<1>5. ASSUME UNCHANGED vars PROVE IInv'
  BY <1>5, StutterKeeps DEF vars, IInv
<1> QED BY <1>1, <1>2, <1>3, <1>4, <1>5 DEF Next

(***************************************************************************)
(* The invariant holds in every behavior of the callers.                   *)
(***************************************************************************)
THEOREM HeapInvariant == Spec => []IInv
<1> QED BY InitIInv, StepIInv, PTL DEF Spec
-----------------------------------------------------------------------------
(* The invariant includes the types.                                       *)
LEMMA TypesFromIInv == IInv => TypeOK
<1> SUFFICES ASSUME IInv PROVE TypeOK
  OBVIOUS
<1>1. Good(heap) /\ OwnedType(owned, out) /\ resized \in BOOLEAN
  BY DEF IInv
<1>2. /\ Hdr(heap) \in Headers(Blocks(heap)) /\ Blocks(heap) \in SUBSET Nat
      /\ heap.head \in Nat /\ heap.brk \in Nat /\ heap.fault \in BOOLEAN
  BY <1>1, GoodFields, HeapFields
<1>3. \A b \in DOMAIN heap.hdr : b \in Nat /\ heap.hdr[b] \in Header
  BY <1>2 DEF Headers, Hdr, Blocks
<1> QED BY <1>1, <1>2, <1>3 DEF TypeOK, OwnedType

(* The invariant implies ListWhole: the walk visits the blocks upwards.    *)
LEMMA WholeList ==
  ASSUME IInv PROVE ListWhole
<1>1. Good(heap)
  BY DEF IInv
<1>2. PICK c, n : c = Chain(heap) /\ n = ListLength(heap)
  OBVIOUS
<1>3. /\ n \in Nat
      /\ \A i \in 1..n : c[i] \in Blocks(heap)
      /\ \A i \in 2..n : c[i] = NextOf(heap, c[i - 1]) /\ c[i - 1] < c[i]
      /\ n >= 1 => c[1] = heap.head
      /\ \A d \in Blocks(heap) : \E i \in 1..n : c[i] = d
  BY <1>1, <1>2, ChainVisits DEF Visits
<1>4. {c[i] : i \in 1..n} = Blocks(heap)
  BY <1>3, Zenon
<1>5. ASSUME NEW i \in 1..n
      PROVE  PrevOf(heap, c[i]) = IF i = 1 THEN NoBlock ELSE c[i - 1]
  <2>1. CASE i = 1
    <3>1. c[1] = heap.head /\ c[1] \in Blocks(heap) /\ Blocks(heap) \in SUBSET Nat
          /\ heap.head \in Nat
      BY <1>1, <1>3, <1>5, <2>1, GoodFields
    <3>2. \A d \in Blocks(heap) : heap.head <= d /\ d \in Nat
      BY <1>1, <3>1 DEF Good, Headed
    <3>3. PICK p : p = PrevOf(heap, c[1])
      OBVIOUS
    <3>4. p # NoBlock => p \in Blocks(heap) /\ p < c[1]
      BY <1>1, <3>1, <3>3, Neighbours
    <3>5. p = NoBlock
      BY <3>1, <3>2, <3>4
    <3> QED BY <2>1, <3>3, <3>5
  <2>2. CASE i # 1
    <3>1. i \in 2..n /\ i - 1 \in 1..n
      BY <1>3, <1>5, <2>2
    <3>2. NextOf(heap, c[i - 1]) = c[i] /\ c[i - 1] \in Blocks(heap) /\ c[i] \in Blocks(heap)
      BY <1>3, <1>5, <3>1
    <3>3. PICK x, y : x = c[i - 1] /\ y = c[i]
      OBVIOUS
    <3>4. x = PrevOf(heap, y)
      BY <1>1, <3>2, <3>3, Neighbours
    <3> QED BY <2>2, <3>3, <3>4
  <2> QED BY <2>1, <2>2
<1>6. \A i \in 1..n : heap.hdr[c[i]].prev = IF i = 1 THEN NoBlock ELSE c[i - 1]
  BY <1>5 DEF PrevOf, PrevIn
<1>7. TypeOK
  BY TypesFromIInv
<1> QED BY <1>2, <1>3, <1>4, <1>6, <1>7 DEF ListWhole, Blocks

(* The invariant implies BlocksTile: blocks end at their limits.           *)
LEMMA Tiled ==
  ASSUME IInv PROVE BlocksTile
<1>1. Good(heap)
  BY DEF IInv
<1>2. SUFFICES ASSUME NEW b \in Blocks(heap)
      PROVE  \/ End(heap, b) = Limit(heap, b)
             \/ /\ End(heap, b) = Limit(heap, b) + HeaderSize
                /\ (Limit(heap, b) - Start) % PageSize = 0
  BY DEF BlocksTile, Blocks, Limit, NextOf, NextIn
<1>3. End(heap, b) = EndOf(heap, b)
  BY <1>1, GoodFields DEF End, EndOf, HeapType, PtrIn, Size, SizeIn
<1>4. PICK l : l = Limit(heap, b)
  OBVIOUS
<1>5. l \in Nat /\ Start <= l
  <2>1. heap.brk \in Nat /\ Start <= heap.brk
    BY <1>1, GoodFields
  <2>2. NextOf(heap, b) # NoBlock => NextOf(heap, b) \in Blocks(heap)
    BY <1>1, <1>2, Neighbours
  <2>3. \A d \in Blocks(heap) : d \in Nat /\ Start <= d
    BY <1>1, GoodFields
  <2> QED BY <1>4, <2>1, <2>2, <2>3 DEF Limit
<1>6. l % PageSize = 0 => (l - Start) % PageSize = 0
  <2>1. PageSize \in Nat /\ PageSize > 0 /\ Start \in Nat /\ Start % PageSize = 0
    BY HeapAssumption DEF HeaderSize
  <2> QED BY <1>5, <2>1, SumMultiple
<1>7. EndOf(heap, b) = l \/ (EndOf(heap, b) = l + HeaderSize /\ l % PageSize = 0)
  BY <1>1, <1>2, <1>4 DEF Good, Placed
<1> QED BY <1>3, <1>4, <1>6, <1>7

(***************************************************************************)
(* A block that ends where another begins is followed by it: no header     *)
(* lies between, even where a block overlaps the header behind it.         *)
(***************************************************************************)
LEMMA TouchingIsNext ==
  ASSUME NEW h, Good(h), NEW b \in Blocks(h), NEW c \in Blocks(h), EndOf(h, b) = c
  PROVE  NextOf(h, b) = c
<1>1. /\ Blocks(h) \in SUBSET Nat /\ HeaderSize = 4 /\ NoBlock = 0 /\ NoBlock \notin Blocks(h)
      /\ b \in Nat /\ c \in Nat /\ h.brk \in Nat /\ c + 4 <= h.brk
      /\ \A d \in Blocks(h) : NextOf(h, d) \in Nat /\ Size(h, d) \in Nat /\ Size(h, d) >= 1
  BY GoodFields DEF HeaderSize, NoBlock
<1>2. PICK e, l : e = NextOf(h, b) /\ l = Limit(h, b)
  OBVIOUS
<1>3. l = (IF e = NoBlock THEN h.brk ELSE e) /\ (c = l \/ (c = l + 4 /\ l % PageSize = 0))
  BY <1>1, <1>2 DEF Good, Placed, Limit
<1>4. e # NoBlock
  BY <1>1, <1>3
<1>5. SUFFICES ASSUME c # e PROVE FALSE
  BY <1>2
<1>6. l = e /\ c = e + 4 /\ e % PageSize = 0 /\ e \in Blocks(h) /\ e \in Nat
  BY <1>1, <1>2, <1>3, <1>4, <1>5, Neighbours
<1>7. PICK n, m : n = NextOf(h, e) /\ m = Limit(h, e)
  OBVIOUS
<1>8. n # NoBlock /\ e < n /\ n <= c /\ n \in Nat
  BY <1>1, <1>6, <1>7 DEF Good, Placed, Above
<1>9. m = n /\ EndOf(h, e) > c
  BY <1>1, <1>6, <1>7, <1>8 DEF Limit, EndOf
<1>10. n % PageSize = 0
  <2>1. EndOf(h, e) = m \/ (EndOf(h, e) = m + HeaderSize /\ m % PageSize = 0)
    BY <1>6, <1>7 DEF Good, Placed
  <2>2. EndOf(h, e) \in Nat
    BY <1>1, <1>6 DEF EndOf
  <2> QED BY <1>1, <1>8, <1>9, <2>1, <2>2
<1>11. PageSize \in Nat /\ PageSize > 4
  BY HeapAssumption DEF HeaderSize
<1>12. PICK r : r = n - e
  OBVIOUS
<1>13. r \in 1..4 /\ r \in Nat /\ r \in 0..(PageSize - 1)
  BY <1>6, <1>8, <1>11, <1>12
<1>14. r % PageSize = 0
  <2>1. e <= n /\ PageSize > 0
    BY <1>6, <1>8, <1>11
  <2> QED BY <1>6, <1>8, <1>10, <1>11, <1>12, <2>1, SumMultiple
<1>15. r % PageSize = r
  <2>1. r = PageSize * 0 + r /\ PageSize > 0
    BY <1>11, <1>13
  <2> QED BY <1>11, <1>13, <2>1, Quotient
<1> QED BY <1>13, <1>14, <1>15

(* The invariant implies Coalesced.                                        *)
LEMMA NoFreePairs ==
  ASSUME IInv PROVE Coalesced
<1>1. Good(heap) /\ (~heap.fault /\ NoneShared(heap) => Apart(heap))
  BY DEF IInv
<1>2. SUFFICES ASSUME Apart(heap), NEW b \in Blocks(heap), NEW c \in Blocks(heap),
                      End(heap, b) = c, heap.hdr[b].free, heap.hdr[c].free
               PROVE  FALSE
  BY <1>1 DEF Coalesced, Blocks
<1>3. b \in FreeOnes(heap) /\ c \in FreeOnes(heap)
  BY <1>2, Zenon DEF FreeOnes, FreeIn, Blocks
<1>4. EndOf(heap, b) = c
  BY <1>1, <1>2, GoodFields DEF End, EndOf, HeapType, PtrIn, Size, SizeIn
<1>5. NextOf(heap, b) = c
  BY <1>1, <1>2, <1>4, TouchingIsNext
<1> QED BY <1>2, <1>3, <1>4, <1>5 DEF Apart

(* The invariant implies that sizes fit.                                   *)
LEMMA TouchingFit ==
  ASSUME IInv PROVE SizesFit
<1>1. Good(heap) /\ Fits(heap) /\ HeapType(heap)
  BY DEF IInv, Good
<1>2. /\ Blocks(heap) \in SUBSET Nat /\ HeaderSize = 4 /\ SizeMax \in Nat
      /\ \A d \in Blocks(heap) : Size(heap, d) \in Nat
  BY <1>1, GoodFields, HeapAssumption DEF HeaderSize
<1>3. \A d \in Blocks(heap) : /\ End(heap, d) = EndOf(heap, d) /\ heap.hdr[d].ptr = d + HeaderSize
                              /\ NextOf(heap, d) = heap.hdr[d].next
  BY <1>1 DEF HeapType, End, EndOf, Size, SizeIn, PtrIn, NextOf, NextIn
<1>4. SUFFICES ASSUME ~heap.fault, NEW b \in Blocks(heap), NEW c \in Blocks(heap), b <= c,
                      AllTouch(b, c)
               PROVE  End(heap, c) - heap.hdr[b].ptr <= SizeMax
  BY DEF SizesFit, Blocks
<1>5. FitsPair(heap, b, c)
  BY <1>1, <1>4 DEF Fits
<1>6. ~ \E d \in Over(heap) : b <= d /\ d < c
  BY <1>3, <1>4 DEF AllTouch, Over, Blocks
<1>7. EndOf(heap, c) <= b + HeaderSize + SizeMax
  BY <1>5, <1>6 DEF FitsPair
<1>8. EndOf(heap, c) \in Nat
  BY <1>2 DEF EndOf
<1> QED BY <1>2, <1>3, <1>7, <1>8

(* The invariant implies what is claimed of the pointers owned.            *)
LEMMA TheirsInUse ==
  ASSUME IInv PROVE OwnedInUse /\ PointersAligned
<1>1. \A b : b \in UsedOnes(heap) <=> b \in DOMAIN heap.hdr /\ ~heap.hdr[b].free
  BY Zenon DEF UsedOnes, Blocks, FreeOnes, FreeIn
<1>2. ASSUME ~resized PROVE Theirs(heap, owned) /\ OwnedType(owned, out)
  BY <1>2 DEF IInv
<1>3. OwnedInUse
  <2>1. SUFFICES ASSUME ~resized, NEW p \in DOMAIN owned PROVE BlockInUse(p)
    BY DEF OwnedInUse
  <2>2. p - HeaderSize \in UsedOnes(heap) /\ Size(heap, p - HeaderSize) >= owned[p]
    BY <1>2, <2>1 DEF Theirs
  <2> QED BY <1>1, <2>2 DEF BlockInUse, Size, SizeIn
<1>5. PointersAligned
  <2>1. SUFFICES ASSUME ~resized, NEW p \in DOMAIN owned PROVE p % AlignSize = 0
    BY DEF PointersAligned
  <2>2. p \in Nat /\ (p - HeaderSize) \in Blocks(heap) /\ (p - HeaderSize) % AlignSize = 0
    BY <1>2, <2>1 DEF Theirs, OwnedType, Even, UsedOnes
  <2> QED BY <2>2 DEF HeaderSize, AlignSize
<1> QED BY <1>3, <1>5
-----------------------------------------------------------------------------
(***************************************************************************)
(* The refinement: the intervals of Allocator are the data of the blocks   *)
(* that callers own.                                                       *)
(***************************************************************************)
Interval(h, p) == [start |-> p, size |-> Size(h, p - HeaderSize)]

HeldIn(h, o) == {Interval(h, p) : p \in DOMAIN o}

(* The intervals held, as the headers record them.                         *)
LEMMA HeldView ==
  ASSUME Theirs(heap, owned) PROVE Held = HeldIn(heap, owned)
<1>1. \A p \in DOMAIN owned : p - HeaderSize \in DOMAIN heap.hdr
  BY DEF Theirs, UsedOnes, Blocks
<1>2. \A p \in DOMAIN owned :
        [start |-> p, size |-> IF p - HeaderSize \in DOMAIN heap.hdr
                               THEN heap.hdr[p - HeaderSize].size ELSE 0] = Interval(heap, p)
  BY <1>1 DEF Interval, Size, SizeIn
<1> QED BY <1>2, Zenon DEF Held, HeldIn

(* The data of two blocks never overlap: a block can overlap the header of  *)
(* the next one, but not its data.                                          *)
LEMMA DataApart ==
  ASSUME NEW h, Good(h), NEW b \in Blocks(h), NEW d \in Blocks(h), b # d
  PROVE  \A x \in Nat : ~(b + 4 <= x /\ x < EndOf(h, b) /\ d + 4 <= x /\ x < EndOf(h, d))
<1>1. /\ Blocks(h) \in SUBSET Nat /\ HeaderSize = 4 /\ NoBlock = 0 /\ NoBlock \notin Blocks(h)
      /\ \A c \in Blocks(h) : NextOf(h, c) \in Nat /\ Size(h, c) \in Nat
  BY GoodFields DEF HeaderSize, NoBlock
<1>2. ASSUME NEW c \in Blocks(h), NEW e \in Blocks(h), c < e PROVE EndOf(h, c) <= e + 4
  <2>1. Placed(h, c)
    BY DEF Good
  <2>2. NextOf(h, c) # NoBlock /\ NextOf(h, c) <= e
    BY <1>1, <1>2, <2>1 DEF Placed, Above
  <2>3. EndOf(h, c) <= NextOf(h, c) + 4
    BY <1>1, <2>1, <2>2 DEF Placed, Limit
  <2>4. EndOf(h, c) \in Nat /\ NextOf(h, c) \in Nat /\ e \in Nat
    BY <1>1 DEF EndOf
  <2> QED BY <2>2, <2>3, <2>4
<1>3. b \in Nat /\ d \in Nat /\ EndOf(h, b) \in Nat /\ EndOf(h, d) \in Nat
  BY <1>1 DEF EndOf
<1>4. CASE b < d
  BY <1>2, <1>3, <1>4
<1>5. CASE d < b
  BY <1>2, <1>3, <1>5
<1> QED BY <1>3, <1>4, <1>5

(* The intervals of two blocks are disjoint.                               *)
LEMMA IntervalsDisjoint ==
  ASSUME NEW h, Good(h), NEW p \in Nat, NEW q \in Nat, p # q,
         p - HeaderSize \in Blocks(h), q - HeaderSize \in Blocks(h)
  PROVE  Abstract!Disjoint(Interval(h, p), Interval(h, q))
<1>1. PICK b, d : b = p - HeaderSize /\ d = q - HeaderSize
  OBVIOUS
<1>2. /\ b \in Blocks(h) /\ d \in Blocks(h) /\ b # d /\ p = b + 4 /\ q = d + 4
      /\ Size(h, b) \in Nat /\ Size(h, d) \in Nat
      /\ EndOf(h, b) = p + Size(h, b) /\ EndOf(h, d) = q + Size(h, d)
  <2>1. b \in Blocks(h) /\ d \in Blocks(h) /\ b # d /\ p = b + 4 /\ q = d + 4
    BY <1>1 DEF HeaderSize
  <2>2. Size(h, b) \in Nat /\ Size(h, d) \in Nat
    BY <2>1, GoodFields
  <2> QED BY <2>1, <2>2 DEF EndOf, HeaderSize
<1>3. \A x \in Nat : ~(b + 4 <= x /\ x < EndOf(h, b) /\ d + 4 <= x /\ x < EndOf(h, d))
  BY <1>2, DataApart
<1>4. \A x \in p .. (p + Size(h, b) - 1) : x \notin q .. (q + Size(h, d) - 1)
  BY <1>2, <1>3
<1> QED BY <1>1, <1>4 DEF Abstract!Disjoint, Abstract!Words, Interval
-----------------------------------------------------------------------------
(* A call that returns a block hands out an interval of its own; one that   *)
(* faults hands out none.                                                   *)
LEMMA AllocRefines ==
  ASSUME IInv, IInv', Running, ~resized, resized' = resized,
         NEW asked \in Nat, NEW size \in Requests, size \in Nat, size <= asked,
         ~TooBig(asked), Give(kmalloc(heap, asked), size, owned, out)
  PROVE  [Abstract!ANext]_(Abstract!avars)
<1>0. PICK h, g, ptr, b, total, o, q, n :
        /\ g = kmalloc(heap, asked).heap /\ ptr = kmalloc(heap, asked).ptr
        /\ b = ptr - HeaderSize /\ total = Rounded(asked)
        /\ h = heap /\ o = owned /\ q = owned' /\ n = out
  OBVIOUS
<1>1. Good(h) /\ OwnedType(o, n) /\ ~h.fault /\ Theirs(h, o)
  BY <1>0 DEF IInv, Running
<1>2. /\ ptr = b + HeaderSize /\ ptr \in Nat /\ b \in Nat
      /\ total \in Nat /\ total % AlignSize = 0 /\ asked <= total
      /\ Got(h, g, b, total)
  BY <1>0, <1>1, KmallocKeeps
<1>3. /\ heap' = g /\ q = IF g.fault THEN o ELSE Put(o, ptr, size)
      /\ out' = IF g.fault THEN out ELSE out + 1
  <2>1. PICK got : got = kmalloc(heap, asked)
    OBVIOUS
  <2>2. /\ Give(got, size, owned, out) /\ got.ptr \in Nat /\ got.ptr # NoBlock /\ size \in Nat
        /\ g = got.heap /\ ptr = got.ptr /\ OwnedType(owned, out)
    <3>1. ptr \in Nat /\ ptr # NoBlock
      BY <1>2 DEF HeaderSize, NoBlock
    <3>2. g = got.heap /\ ptr = got.ptr /\ OwnedType(owned, out)
      BY <1>0, <1>1, <2>1
    <3> QED BY <2>1, <3>1, <3>2
  <2>3. /\ heap' = got.heap
        /\ owned' = IF got.heap.fault THEN owned ELSE Put(owned, got.ptr, size)
        /\ out' = IF got.heap.fault THEN out ELSE out + 1
    BY <2>2, GiveKeeps
  <2> QED BY <1>0, <2>2, <2>3
<1>4. Theirs(g, q) /\ Good(g)
  BY <1>0, <1>3 DEF IInv
<1>5. Held = HeldIn(h, o)
  BY <1>0, <1>1, HeldView
<1>6. Held' = HeldIn(g, q)
  <2>1. (Theirs(heap, owned))' => (Held = HeldIn(heap, owned))'
    BY HeldView, PTL
  <2>2. (Theirs(heap, owned))'
    BY <1>0, <1>3, <1>4
  <2> QED BY <1>0, <1>3, <2>1, <2>2
<1>7. /\ b \in UsedOnes(g) /\ b \notin UsedOnes(h) /\ total <= Size(g, b)
      /\ \A d : d # b => (d \in UsedOnes(g) <=> d \in UsedOnes(h))
      /\ \A d \in UsedOnes(g) : d # b => Size(g, d) = Size(h, d)
  BY <1>2 DEF Got, Around
<1>8. \A p \in DOMAIN o : /\ p \in Nat /\ p # ptr /\ Interval(g, p) = Interval(h, p)
                          /\ p - HeaderSize \in Blocks(g)
  <2>1. SUFFICES ASSUME NEW p \in DOMAIN o
                 PROVE  /\ p \in Nat /\ p # ptr /\ Interval(g, p) = Interval(h, p)
                        /\ p - HeaderSize \in Blocks(g)
    OBVIOUS
  <2>2. p - HeaderSize \in UsedOnes(h) /\ p \in Nat
    BY <1>1 DEF Theirs, OwnedType
  <2>3. p - HeaderSize # b
    BY <1>7, <2>2
  <2>4. p - HeaderSize \in UsedOnes(g) /\ Size(g, p - HeaderSize) = Size(h, p - HeaderSize)
    BY <1>7, <2>2, <2>3
  <2> QED BY <1>0, <2>2, <2>3, <2>4 DEF UsedOnes, Interval
<1>9. CASE g.fault
  <2>1. HeldIn(g, o) = HeldIn(h, o)
    BY <1>8 DEF HeldIn
  <2>2. Held' = Held /\ out' = out
    BY <1>3, <1>5, <1>6, <1>9, <2>1
  <2> QED BY <2>2 DEF Abstract!avars
<1>10. CASE ~g.fault
  <2>1. q = Put(o, ptr, size) /\ DOMAIN q = DOMAIN o \cup {ptr} /\ out' = out + 1
    BY <1>3, <1>10 DEF Put
  <2>2. PICK i : i = Interval(g, ptr)
    OBVIOUS
  <2>3. HeldIn(g, q) = HeldIn(h, o) \cup {i}
    <3>1. HeldIn(g, q) = {Interval(g, p) : p \in DOMAIN o} \cup {i}
      BY <2>1, <2>2 DEF HeldIn
    <3>2. {Interval(g, p) : p \in DOMAIN o} = HeldIn(h, o)
      BY <1>8 DEF HeldIn
    <3> QED BY <3>1, <3>2
  <2>4. i \notin HeldIn(h, o)
    <3>1. \A p \in DOMAIN o : Interval(h, p) # i
      <4>1. \A p : Interval(h, p).start = p
        BY DEF Interval
      <4>2. i.start = ptr
        BY <2>2 DEF Interval
      <4> QED BY <1>8, <4>1, <4>2
    <3> QED BY <3>1 DEF HeldIn
  <2>5. \A j \in HeldIn(h, o) : Abstract!Disjoint(i, j)
    <3>1. SUFFICES ASSUME NEW p \in DOMAIN o PROVE Abstract!Disjoint(i, Interval(h, p))
      BY DEF HeldIn
    <3>2. p \in Nat /\ p # ptr /\ Interval(g, p) = Interval(h, p) /\ p - HeaderSize \in Blocks(g)
      BY <1>8
    <3>3. ptr - HeaderSize \in Blocks(g)
      BY <1>0, <1>7 DEF UsedOnes
    <3>4. Abstract!Disjoint(Interval(g, ptr), Interval(g, p))
      BY <1>2, <1>4, <3>2, <3>3, IntervalsDisjoint
    <3> QED BY <2>2, <3>2, <3>4
  <2>6. i.size >= size
    <3>1. i.size = Size(g, b)
      BY <1>0, <2>2 DEF Interval
    <3>2. Size(g, b) \in Nat
      BY <1>4, <1>7, GoodFields DEF UsedOnes
    <3> QED BY <1>2, <1>7, <3>1, <3>2
  <2>7. Abstract!Alloc(i)
    BY <1>5, <1>6, <2>1, <2>3, <2>5, <2>6 DEF Abstract!Alloc
  <2>8. i \in Held' \ Held
    BY <1>5, <1>6, <2>3, <2>4
  <2> QED BY <2>7, <2>8 DEF Abstract!ANext
<1> QED BY <1>9, <1>10

(* A call that refuses leaves the intervals alone.                          *)
LEMMA RefusalRefines ==
  ASSUME NEW size, Give(NoMemory(heap), size, owned, out)
  PROVE  [Abstract!ANext]_(Abstract!avars)
<1>1. UNCHANGED <<heap, owned, out>>
  BY RefusalKeeps
<1>2. Held' = Held /\ out' = out
  BY <1>1 DEF Held
<1> QED BY <1>2 DEF Abstract!avars

(* Free takes back one interval, also when kfree() refuses.                *)
LEMMA FreeRefines ==
  ASSUME IInv, IInv', NEW ptr \in DOMAIN owned, Free(ptr), ~resized
  PROVE  Abstract!Free(Interval(heap, ptr)) /\ Interval(heap, ptr) \in Held \ Held'
<1>0. PICK h, g, o, q : h = heap /\ g = heap' /\ o = owned /\ q = owned'
  OBVIOUS
<1>1. /\ Running /\ g = kfree(h, ptr) /\ q = Drop(o, ptr) /\ out' = out - 1 /\ resized' = resized
  BY <1>0 DEF Free
<1>2. Good(h) /\ OwnedType(o, out) /\ Theirs(h, o) /\ Theirs(g, q)
  BY <1>0, <1>1 DEF IInv
<1>3. PICK b \in UsedOnes(h) : ptr = b + HeaderSize
  BY <1>0, <1>1, OwnedBlock
<1>4. g = h \/ Released(h, g, b)
  <2>1. b \in Blocks(h)
    BY <1>3 DEF UsedOnes
  <2> QED BY <1>1, <1>2, <1>3, <2>1, FreeOwned
<1>5. DOMAIN q = DOMAIN o \ {ptr}
  BY <1>1 DEF Drop
<1>6. Held = HeldIn(h, o)
  BY <1>0, <1>2, HeldView
<1>7. Held' = HeldIn(g, q)
  <2>1. (Theirs(heap, owned))' => (Held = HeldIn(heap, owned))'
    BY HeldView, PTL
  <2>2. (Theirs(heap, owned))'
    BY <1>0, <1>2
  <2> QED BY <1>0, <2>1, <2>2
<1>8. \A p \in DOMAIN q : Interval(g, p) = Interval(h, p)
  <2>1. SUFFICES ASSUME NEW p \in DOMAIN q PROVE Size(g, p - HeaderSize) = Size(h, p - HeaderSize)
    BY DEF Interval
  <2>2. p - HeaderSize \in UsedOnes(g)
    BY <1>2 DEF Theirs
  <2> QED BY <1>4, <2>2 DEF Released
<1>9. \A p : Interval(h, p).start = p
  BY DEF Interval
<1>10. Held' = Held \ {Interval(h, ptr)} /\ Interval(h, ptr) \in Held
  <2>1. HeldIn(g, q) = {Interval(h, p) : p \in DOMAIN o \ {ptr}}
    BY <1>5, <1>8 DEF HeldIn
  <2>2. HeldIn(h, o) = {Interval(h, p) : p \in DOMAIN o} /\ ptr \in DOMAIN o
    BY <1>0 DEF HeldIn
  <2>3. \A p \in DOMAIN o \ {ptr} : Interval(h, p) # Interval(h, ptr)
    BY <1>9
  <2>4. HeldIn(g, q) = HeldIn(h, o) \ {Interval(h, ptr)} /\ Interval(h, ptr) \in HeldIn(h, o)
    BY <2>1, <2>2, <2>3
  <2> QED BY <1>6, <1>7, <2>4
<1> QED BY <1>0, <1>1, <1>10 DEF Abstract!Free
-----------------------------------------------------------------------------
(* No interval is held at first.                                           *)
LEMMA InitRefines == Init => Abstract!AInit
<1> SUFFICES ASSUME Init PROVE Abstract!AInit
  OBVIOUS
<1>1. DOMAIN owned = {} /\ out = 0
  <2>1. DOMAIN [p \in {} |-> 0] = {}
    OBVIOUS
  <2> QED BY <2>1 DEF Init
<1>2. Held = {}
  BY <1>1 DEF Held
<1> QED BY <1>1, <1>2 DEF Abstract!AInit

(* Every step implements a step of Allocator, or none.                     *)
LEMMA StepRefines ==
  ASSUME IInv, IInv', [Next]_vars
  PROVE  [resized' \/ Abstract!ANext]_(Abstract!avars)
<1>1. ASSUME NEW n \in Sizes, Malloc(n) PROVE [resized' \/ Abstract!ANext]_(Abstract!avars)
  <2>1. n \in Nat /\ n \in Requests /\ n <= n
    BY SizesAssumption DEF Requests
  <2>2. CASE ~resized
    <3>1. CASE TooBig(n)
      <4>1. Give(NoMemory(heap), n, owned, out)
        BY <1>1, <3>1 DEF Malloc, kmalloc
      <4>2. [Abstract!ANext]_(Abstract!avars)
        BY <4>1, RefusalRefines
      <4> QED BY <4>2
    <3>2. CASE ~TooBig(n)
      <4>1. [Abstract!ANext]_(Abstract!avars)
        BY <1>1, <2>1, <2>2, <3>2, AllocRefines DEF Malloc
      <4> QED BY <4>1
    <3> QED BY <3>1, <3>2
  <2>3. CASE resized
    BY <1>1, <2>3 DEF Malloc
  <2> QED BY <2>2, <2>3
<1>2. ASSUME NEW k \in Counts, NEW n \in Sizes, Calloc(k, n)
      PROVE  [resized' \/ Abstract!ANext]_(Abstract!avars)
  <2>1. PICK x, asked : x = k * n /\ asked = RoundUp(x, AlignSize)
    OBVIOUS
  <2>2. x \in Nat /\ asked \in Nat /\ x <= asked
    BY <2>1, CallocSize
  <2>3. x \in Requests
    BY <2>1 DEF Requests
  <2>4. /\ Running /\ resized' = resized
        /\ Give(kcalloc(heap, k, n), x, owned, out)
    BY <1>2, <2>1 DEF Calloc
  <2>5. CASE ~resized
    <3>1. CASE Give(NoMemory(heap), x, owned, out)
      <4>1. [Abstract!ANext]_(Abstract!avars)
        BY <3>1, RefusalRefines
      <4> QED BY <4>1
    <3>2. CASE Give(kmalloc(heap, asked), x, owned, out)
      <4>1. CASE TooBig(asked)
        <5>1. Give(NoMemory(heap), x, owned, out)
          BY <3>2, <4>1 DEF kmalloc
        <5>2. [Abstract!ANext]_(Abstract!avars)
          BY <5>1, RefusalRefines
        <5> QED BY <5>2
      <4>2. CASE ~TooBig(asked)
        <5>1. [Abstract!ANext]_(Abstract!avars)
          BY <2>2, <2>3, <2>4, <2>5, <3>2, <4>2, AllocRefines
        <5> QED BY <5>1
      <4> QED BY <4>1, <4>2
    <3> QED BY <2>1, <2>4, <3>1, <3>2, CallocIsMalloc
  <2>6. CASE resized
    BY <2>4, <2>6
  <2> QED BY <2>5, <2>6
<1>3. ASSUME NEW p \in DOMAIN owned, Free(p)
      PROVE  [resized' \/ Abstract!ANext]_(Abstract!avars)
  <2>1. CASE ~resized
    <3>1. Abstract!Free(Interval(heap, p)) /\ Interval(heap, p) \in Held \ Held'
      BY <1>3, <2>1, FreeRefines
    <3> QED BY <3>1 DEF Abstract!ANext
  <2>2. CASE resized
    BY <1>3, <2>2 DEF Free
  <2> QED BY <2>1, <2>2
<1>4. ASSUME NEW p \in DOMAIN owned, NEW n \in ReSizes, Realloc(p, n)
      PROVE  [resized' \/ Abstract!ANext]_(Abstract!avars)
  BY <1>4 DEF Realloc
<1>5. ASSUME UNCHANGED vars PROVE [resized' \/ Abstract!ANext]_(Abstract!avars)
  <2>1. Held' = Held /\ out' = out
    BY <1>5 DEF Held, vars
  <2> QED BY <2>1 DEF Abstract!avars
<1> QED BY <1>1, <1>2, <1>3, <1>4, <1>5 DEF Next

-----------------------------------------------------------------------------
(***************************************************************************)
(* The list is whole in every state, also after krealloc(): from the head, *)
(* next visits every block once, upwards, and prev is its inverse          *)
(* (kmalloc.c:73-140, 295-404).                                            *)
(***************************************************************************)
THEOREM ListAlwaysWhole == Spec => []ListWhole
<1> QED BY HeapInvariant, WholeList, PTL

(***************************************************************************)
(* No word of the heap is lost, and no two blocks hold the same data       *)
(* (kmalloc.c:107-179, mmu_driver.c:945-959).                              *)
(***************************************************************************)
THEOREM BlocksAlwaysTile == Spec => []BlocksTile
<1> QED BY HeapInvariant, Tiled, PTL

(***************************************************************************)
(* Free memory is coalesced as long as the callers' blocks are in use      *)
(* (kmalloc.c:117-130, 448-452).                                           *)
(***************************************************************************)
THEOREM AlwaysCoalesced == Spec => []Coalesced
<1> QED BY HeapInvariant, NoFreePairs, PTL

(***************************************************************************)
(* No size of a header overflows its 32 bits: blocks that touch, merged or *)
(* not, never hold more than SizeMax words, whatever sizes are asked for   *)
(* (kmalloc.h:31, kmalloc.c:90, 142-179, 269-275).                         *)
(***************************************************************************)
THEOREM SizesAlwaysFit == Spec => []SizesFit
<1>1. IInv => SizesFit
  BY TouchingFit
<1> QED BY <1>1, HeapInvariant, PTL

(***************************************************************************)
(* Until krealloc() is called, every pointer handed out and not yet freed  *)
(* leads to a block in use that is large enough (kmalloc.c:259-293).       *)
(***************************************************************************)
THEOREM OwnedAlwaysInUse == Spec => []OwnedInUse
<1>1. IInv => OwnedInUse
  BY TheirsInUse
<1> QED BY <1>1, HeapInvariant, PTL

(***************************************************************************)
(* Until then, pointers are aligned to ALIGN_SIZE bytes (kmalloc.h:45,     *)
(* kmalloc.c:107-140, 259-268).                                            *)
(***************************************************************************)
THEOREM PointersAlwaysAligned == Spec => []PointersAligned
<1>1. IInv => PointersAligned
  BY TheirsInUse
<1> QED BY <1>1, HeapInvariant, PTL

(***************************************************************************)
(* kmalloc(), kcalloc() and kfree() implement Allocator until krealloc()   *)
(* is called: every step hands out an interval disjoint from those held,   *)
(* takes one back, or leaves them alone (kmalloc.c:73-293, 408-458).       *)
(***************************************************************************)
THEOREM HeapImplementsAllocator == Spec => ImplementsAllocator
<1>1. IInv /\ IInv' /\ [Next]_vars => [resized' \/ Abstract!ANext]_(Abstract!avars)
  BY StepRefines
<1> QED BY <1>1, InitRefines, HeapInvariant, PTL DEF Spec, ImplementsAllocator
=============================================================================
