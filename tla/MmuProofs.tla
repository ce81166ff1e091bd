----------------------------- MODULE MmuProofs ------------------------------
(***************************************************************************)
(* Theorems about the memory manager and its users (Mmu), for every memory *)
(* map and whatever the boot loader leaves: the map is found, every frame  *)
(* has one use, none is lost, mappings are stable.                         *)
(***************************************************************************)
EXTENDS Mmu, Induction

-----------------------------------------------------------------------------
(* The tags: each starts at the first multiple of 8 behind the one before. *)
Above(a) == ((a + 7) \div 8) * 8

(* The next multiple of 8 is the only one among eight consecutive numbers. *)
LEMMA RoundedUp ==
  ASSUME NEW x \in Nat
  PROVE  /\ Above(x) \in x..(x + 7) /\ Above(x) % 8 = 0
         /\ \A a \in x..(x + 7) : a % 8 = 0 => a = Above(x)
  BY DEF Above

(* Rounding up a sum whose first part is a multiple of 8 rounds the        *)
(* second.                                                                 *)
LEMMA RoundedSum ==
  ASSUME NEW x \in Nat, NEW y \in Nat, x % 8 = 0
  PROVE  Above(x + y) = x + Above(y)
<1>1. PICK q \in Nat : q = x \div 8
  OBVIOUS
<1>2. x = 8 * q
  BY <1>1
<1>3. (x + y + 7) \div 8 = q + ((y + 7) \div 8)
  BY <1>2
<1> QED BY <1>2, <1>3 DEF Above

(* A tag has a type and a size, a memory map its entries. *)
LEMMA TagFields ==
  ASSUME NEW t \in Tag
  PROVE  /\ t.type \in Nat /\ t.size \in Nat
         /\ t.type = MULTIBOOT_TAG_TYPE_MMAP => t.entries \in MemoryMaps
<1>1. CASE t \in [type : Nat \ {MULTIBOOT_TAG_TYPE_MMAP}, size : Nat]
  BY <1>1
<1>2. CASE t \in [type : {MULTIBOOT_TAG_TYPE_MMAP}, size : Nat, entries : MemoryMaps]
  BY <1>2 DEF MULTIBOOT_TAG_TYPE_MMAP
<1> QED BY <1>1, <1>2 DEF Tag

(* Where the boot loader puts the tags (multiboot2.c:88-139). *)
LEMMA TagStarts ==
  ASSUME NEW tags, WellFormed(tags), NEW base \in Nat, base % 8 = 0,
         NEW start, start = StartOfTag(tags, base)
  PROVE  /\ start \in [1..(Len(tags) + 1) -> Nat]
         /\ start[1] = base + TagSize
         /\ \A i \in 1..Len(tags) : start[i + 1] = start[i] + Above(tags[i].size)
<1> DEFINE n == Len(tags)
           Ceiling(x) == CHOOSE a \in x..(x + 7) : a % 8 = 0
           Starts(f) == [i \in 1..(n + 1) |->
             IF i = 1 THEN base + TagSize ELSE Ceiling(f[i - 1] + tags[i - 1].size)]
           S == {a \in Nat : a % 8 = 0}
           Step == [k \in 2..(n + 1) |-> [x \in S |-> Ceiling(x + tags[k - 1].size)]]
<1>1. start = CHOOSE f : f = Starts(f)
  BY DEF StartOfTag
<1>2. ASSUME NEW x \in Nat PROVE Ceiling(x) = Above(x)
  <2>1. \E a \in x..(x + 7) : a % 8 = 0
    BY RoundedUp
  <2>2. Ceiling(x) \in x..(x + 7) /\ Ceiling(x) % 8 = 0
    BY <2>1
  <2> HIDE DEF Ceiling
  <2> QED BY <2>2, RoundedUp
<1>0. n \in Nat /\ \A i \in 1..n : tags[i] \in Tag
  BY DEF WellFormed
<1>3. \A i \in 1..n : tags[i].size \in Nat
  BY <1>0, TagFields
<1> HIDE DEF Ceiling
<1>4. ASSUME NEW k \in 2..(n + 1), NEW x \in S
      PROVE  Step[k][x] = Above(x + tags[k - 1].size) /\ Step[k][x] \in S
  <2>1. k - 1 \in 1..n
    OBVIOUS
  <2>2. x + tags[k - 1].size \in Nat
    BY <1>3, <2>1
  <2>3. Step[k][x] = Ceiling(x + tags[k - 1].size)
    OBVIOUS
  <2>4. Step[k][x] = Above(x + tags[k - 1].size)
    BY <1>2, <2>2, <2>3
  <2>5. Above(x + tags[k - 1].size) \in S
    <3>1. PICK y \in Nat : y = x + tags[k - 1].size
      BY <2>2
    <3>2. Above(y) \in y..(y + 7) /\ Above(y) % 8 = 0
      BY RoundedUp
    <3>3. Above(y) \in S
      BY <3>2
    <3> QED BY <3>1, <3>3
  <2> HIDE DEF Step, S
  <2> QED BY <2>4, <2>5
<1>5. Stepwise(Step, 1, n + 1, S)
  <2>1. (1 + 1)..(n + 1) = 2..(n + 1)
    OBVIOUS
  <2> HIDE DEF S, Step
  <2> QED BY <1>4, <2>1 DEF Stepwise
<1>6. base + TagSize \in S
  BY DEF TagSize
<1>7. PICK f : Follows(f, 1, n + 1, S, base + TagSize, Step)
  <2>1. 1 \in Int /\ n + 1 \in Int /\ 1 <= n + 1
    OBVIOUS
  <2> HIDE DEF S, Step, n
  <2> QED BY <1>5, <1>6, <2>1, PrimitiveRecursion
<1>8. f = Starts(f)
  <2>1. ASSUME NEW i \in 1..(n + 1), i # 1 PROVE f[i] = Ceiling(f[i - 1] + tags[i - 1].size)
    <3>1. i \in 2..(n + 1) /\ i \in (1 + 1)..(n + 1) /\ i - 1 \in 1..(n + 1)
      BY <2>1
    <3>2. f[i] = Step[i][f[i - 1]] /\ f[i - 1] \in S
      BY <1>7, <3>1 DEF Follows
    <3> QED BY <3>1, <3>2
  <2> HIDE DEF Step, S
  <2> QED BY <1>7, <2>1 DEF Follows
<1>9. start = Starts(start)
  BY <1>1, <1>8
<1> DEFINE T == {i \in 1..(n + 1) : start[i] \in S}
<1>10. \A i \in 1..(n + 1) : i \in T
  <2>1. 1 \in T
    BY <1>6, <1>9
  <2>2. ASSUME NEW i \in 1..((n + 1) - 1), i \in T PROVE i + 1 \in T
    <3>1. i + 1 \in 2..(n + 1) /\ (i + 1) - 1 = i /\ i + 1 \in 1..(n + 1) /\ i + 1 # 1
      OBVIOUS
    <3>2. start[i + 1] = Ceiling(start[i] + tags[i].size)
      BY <1>9, <3>1
    <3>3. Step[i + 1][start[i]] = start[i + 1]
      BY <2>2, <3>1, <3>2
    <3> QED BY <1>4, <2>2, <3>1, <3>3
  <2>3. 1 \in Int /\ n + 1 \in Int
    BY <1>0
  <2> HIDE DEF T, n
  <2> QED BY <2>1, <2>2, <2>3, IntervalInduction
<1>11. ASSUME NEW i \in 1..n PROVE start[i + 1] = start[i] + Above(tags[i].size)
  <2>1. i + 1 \in 1..(n + 1) /\ (i + 1) - 1 = i /\ i + 1 # 1 /\ i \in 1..(n + 1)
    OBVIOUS
  <2>2. start[i] \in S /\ tags[i].size \in Nat
    BY <1>3, <1>10, <2>1
  <2>3. start[i + 1] = Above(start[i] + tags[i].size)
    <3>1. start[i + 1] = Ceiling(start[i] + tags[i].size)
      BY <1>9, <2>1
    <3>2. start[i] + tags[i].size \in Nat
      BY <2>2
    <3> QED BY <1>2, <3>1, <3>2
  <2>4. Above(start[i] + tags[i].size) = start[i] + Above(tags[i].size)
    BY <2>2, RoundedSum
  <2> QED BY <2>3, <2>4
<1>12. start \in [1..(n + 1) -> Nat] /\ start[1] = base + TagSize
  BY <1>9, <1>10
<1> QED BY <1>11, <1>12

(* Where the objects of tag i are.                                         *)
LEMMA TagsApart ==
  ASSUME NEW tags, WellFormed(tags), NEW base \in Nat, base % 8 = 0,
         NEW start, start = StartOfTag(tags, base)
  PROVE  \A i \in 1..Len(tags) : \A j \in (i + 1)..(Len(tags) + 1) :
           start[i] + tags[i].size <= start[j]
<1>0. PICK n \in Nat : n = Len(tags)
  BY DEF WellFormed
<1>1. \A i \in 1..n : tags[i].size \in Nat
  BY <1>0, TagFields DEF WellFormed
<1>2. /\ \A i \in 1..(n + 1) : start[i] \in Nat
      /\ \A i \in 1..n : start[i + 1] = start[i] + Above(tags[i].size)
  <2>1. /\ start \in [1..(Len(tags) + 1) -> Nat]
        /\ \A i \in 1..Len(tags) : start[i + 1] = start[i] + Above(tags[i].size)
    BY TagStarts
  <2> QED BY <1>0, <2>1
<1>3. ASSUME NEW i \in 1..n PROVE start[i] + tags[i].size <= start[i + 1]
  <2>1. Above(tags[i].size) \in tags[i].size..(tags[i].size + 7)
    BY <1>1, RoundedUp
  <2> QED BY <1>1, <1>2, <2>1
<1>4. ASSUME NEW i \in 1..n PROVE \A j \in (i + 1)..(n + 1) : start[i] + tags[i].size <= start[j]
  <2> DEFINE T == {j \in (i + 1)..(n + 1) : start[i] + tags[i].size <= start[j]}
  <2>1. i + 1 <= n + 1 => i + 1 \in T
    BY <1>3
  <2>2. ASSUME NEW j \in (i + 1)..((n + 1) - 1), j \in T PROVE j + 1 \in T
    <3>1. j \in 1..n /\ j + 1 \in (i + 1)..(n + 1) /\ i \in 1..(n + 1)
          /\ j \in 1..(n + 1) /\ j + 1 \in 1..(n + 1)
      OBVIOUS
    <3>2. start[j] + tags[j].size <= start[j + 1]
      BY <1>3, <3>1
    <3>3. start[i] + tags[i].size <= start[j]
      BY <2>2
    <3>4. start[i] \in Nat /\ start[j] \in Nat /\ start[j + 1] \in Nat
          /\ tags[i].size \in Nat /\ tags[j].size \in Nat
      BY <1>1, <1>2, <3>1
    <3>5. start[i] + tags[i].size <= start[j + 1]
      BY <3>2, <3>3, <3>4
    <3> QED BY <3>1, <3>5
  <2>0. i + 1 \in Int /\ n + 1 \in Int
    OBVIOUS
  <2> HIDE DEF T
  <2>3. \A j \in (i + 1)..(n + 1) : j \in T
    BY <2>0, <2>1, <2>2, IntervalInduction
  <2> QED BY <2>3 DEF T
<1> QED BY <1>0, <1>4

(* What is where: a cell is an address and the object there.               *)
HeaderCell(tags, start, i) == <<start[i], Header(tags[i])>>
SizeCell(start, i) == <<start[i] + TagSize, EntrySize>>
EntryCell(tags, start, i, k) ==
  <<start[i] + MmapTagSize + (k - 1) * EntrySize, tags[i].entries[k]>>

IsCell(c, tags, start, i) ==
  \/ c = HeaderCell(tags, start, i)
  \/ /\ tags[i].type = MULTIBOOT_TAG_TYPE_MMAP
     /\ \/ c = SizeCell(start, i)
        \/ \E k \in DOMAIN tags[i].entries : c = EntryCell(tags, start, i, k)

(* A field lies within its tag, and no two fields have one address. *)
LEMMA CellsApart ==
  ASSUME NEW tags, WellFormed(tags), NEW base \in Nat, base % 8 = 0,
         NEW start, start = StartOfTag(tags, base)
  PROVE  /\ \A i \in DOMAIN tags : \A c :
              IsCell(c, tags, start, i) =>
                c[1] \in Nat /\ start[i] <= c[1] /\ c[1] < start[i] + tags[i].size
         /\ \A i, j \in DOMAIN tags : \A c, d :
              /\ IsCell(c, tags, start, i) /\ IsCell(d, tags, start, j)
              /\ c[1] = d[1]
              => c = d
<1>0. PICK n \in Nat : n = Len(tags) /\ DOMAIN tags = 1..n
  BY DEF WellFormed
<1>1. ASSUME NEW i \in 1..n
      PROVE  /\ start[i] \in Nat /\ tags[i].size \in Nat /\ tags[i].size >= TagSize
             /\ tags[i].type = MULTIBOOT_TAG_TYPE_MMAP =>
                  /\ tags[i].size = MmapTagSize + Len(tags[i].entries) * EntrySize
                  /\ Len(tags[i].entries) \in Nat
                  /\ DOMAIN tags[i].entries = 1..Len(tags[i].entries)
  <2>1. start[i] \in Nat
    <3>1. start \in [1..(Len(tags) + 1) -> Nat]
      BY TagStarts
    <3>2. i \in 1..(Len(tags) + 1)
      BY <1>0
    <3> QED BY <3>1, <3>2
  <2>2. tags[i] \in Tag /\ tags[i].size >= TagSize
        /\ (tags[i].type = MULTIBOOT_TAG_TYPE_MMAP =>
             tags[i].size = MmapTagSize + Len(tags[i].entries) * EntrySize)
    BY <1>0 DEF WellFormed
  <2>3. tags[i].size \in Nat
        /\ (tags[i].type = MULTIBOOT_TAG_TYPE_MMAP => tags[i].entries \in MemoryMaps)
    BY <2>2, TagFields
  <2> QED BY <2>1, <2>2, <2>3 DEF MemoryMaps
<1>2. ASSUME NEW i \in 1..n, NEW c, IsCell(c, tags, start, i)
      PROVE  c[1] \in Nat /\ start[i] <= c[1] /\ c[1] < start[i] + tags[i].size
  <2>1. CASE c = HeaderCell(tags, start, i)
    <3>1. c[1] = start[i]
      BY <2>1 DEF HeaderCell
    <3>2. start[i] \in Nat /\ tags[i].size \in Nat /\ tags[i].size >= 8
      BY <1>1 DEF TagSize
    <3> QED BY <3>1, <3>2
  <2>2. CASE tags[i].type = MULTIBOOT_TAG_TYPE_MMAP /\ c = SizeCell(start, i)
    <3>1. c[1] = start[i] + 8
      BY <2>2 DEF SizeCell, TagSize
    <3>2. PICK l \in Nat : l = Len(tags[i].entries)
      BY <1>1, <2>2
    <3>3. start[i] \in Nat /\ tags[i].size = 16 + l * 24
      BY <1>1, <2>2, <3>2 DEF MmapTagSize, EntrySize
    <3>4. tags[i].size >= 16
      BY <3>3
    <3> QED BY <1>1, <3>1, <3>3, <3>4
  <2>3. ASSUME tags[i].type = MULTIBOOT_TAG_TYPE_MMAP,
               NEW k \in DOMAIN tags[i].entries, c = EntryCell(tags, start, i, k)
        PROVE  c[1] \in Nat /\ start[i] <= c[1] /\ c[1] < start[i] + tags[i].size
    <3>1. PICK l \in Nat : l = Len(tags[i].entries) /\ k \in 1..l
      BY <1>1, <2>3
    <3>2. c[1] = start[i] + 16 + (k - 1) * 24 /\ tags[i].size = 16 + l * 24
          /\ start[i] \in Nat
      BY <1>1, <2>3, <3>1 DEF EntryCell, MmapTagSize, EntrySize
    <3>3. PICK s \in Nat : s = start[i]
      BY <3>2
    <3>4. s + 16 + (k - 1) * 24 \in Nat /\ s <= s + 16 + (k - 1) * 24
          /\ s + 16 + (k - 1) * 24 < s + (16 + l * 24)
      BY <3>1
    <3> QED BY <3>2, <3>3, <3>4
  <2> QED BY <1>2, <2>1, <2>2, <2>3 DEF IsCell
<1>3. ASSUME NEW i \in 1..n, NEW c, NEW d, IsCell(c, tags, start, i),
             IsCell(d, tags, start, i), c[1] = d[1]
      PROVE  c = d
  <2>1. start[i] \in Nat
    BY <1>1
  <2>2. ASSUME NEW e, IsCell(e, tags, start, i)
        PROVE  \/ e = HeaderCell(tags, start, i) /\ e[1] = start[i]
               \/ e = SizeCell(start, i) /\ e[1] = start[i] + 8
               \/ \E k \in Nat : e = EntryCell(tags, start, i, k) /\ k >= 1
                                 /\ e[1] = start[i] + 16 + (k - 1) * 24
    <3>1. CASE e = HeaderCell(tags, start, i)
      BY <3>1 DEF HeaderCell
    <3>2. CASE e = SizeCell(start, i)
      BY <3>2 DEF SizeCell, TagSize
    <3>3. ASSUME tags[i].type = MULTIBOOT_TAG_TYPE_MMAP,
                 NEW k \in DOMAIN tags[i].entries, e = EntryCell(tags, start, i, k)
          PROVE  /\ k \in Nat /\ k >= 1
                 /\ e[1] = start[i] + 16 + (k - 1) * 24
      BY <1>1, <3>3 DEF EntryCell, MmapTagSize, EntrySize
    <3> QED BY <2>2, <3>1, <3>2, <3>3 DEF IsCell
  <2>3. ASSUME NEW k \in Nat, NEW l \in Nat, k >= 1, l >= 1
        PROVE  /\ start[i] + 16 + (k - 1) * 24 = start[i] + 16 + (l - 1) * 24 => k = l
               /\ start[i] + 16 + (k - 1) * 24 > start[i] + 8
    BY <2>1, <2>3
  <2> QED BY <1>3, <2>1, <2>2, <2>3
<1>4. ASSUME NEW i \in 1..n, NEW j \in 1..n, NEW c, NEW d, IsCell(c, tags, start, i),
             IsCell(d, tags, start, j), c[1] = d[1]
      PROVE  i = j
  <2>1. \A p, q \in 1..n : p < q => start[p] + tags[p].size <= start[q]
    <3>1. \A p, q \in 1..n : p < q => q \in (p + 1)..(n + 1)
      OBVIOUS
    <3> QED BY <1>0, <3>1, TagsApart
  <2>2. /\ c[1] \in Nat /\ start[i] <= c[1] /\ c[1] < start[i] + tags[i].size
        /\ start[j] <= c[1] /\ c[1] < start[j] + tags[j].size
    BY <1>2, <1>4
  <2>3. /\ start[i] \in Nat /\ start[j] \in Nat
        /\ tags[i].size \in Nat /\ tags[j].size \in Nat
    BY <1>1
  <2>4. ~(i < j) /\ ~(j < i)
    BY <2>1, <2>2, <2>3
  <2> QED BY <2>4
<1> QED BY <1>0, <1>2, <1>3, <1>4

(* The memory the boot loader fills holds the fields of the tags and       *)
(* nothing else.                                                           *)
LEMMA MemoryHolds ==
  ASSUME NEW tags, WellFormed(tags), NEW base \in Nat, base % 8 = 0,
         NEW start, start = StartOfTag(tags, base),
         NEW memory, memory = Loaded(tags, base)
  PROVE  /\ \A i \in DOMAIN tags : \A c :
              IsCell(c, tags, start, i) => c[1] \in DOMAIN memory /\ memory[c[1]] = c[2]
         /\ \A a \in DOMAIN memory : \E i \in DOMAIN tags : \E c :
              IsCell(c, tags, start, i) /\ a = c[1]
<1> DEFINE maps == {i \in DOMAIN tags : tags[i].type = MULTIBOOT_TAG_TYPE_MMAP}
           headers == {<<start[i], Header(tags[i])>> : i \in DOMAIN tags}
           sizes == {<<start[i] + TagSize, EntrySize>> : i \in maps}
           entries == UNION {{<<start[i] + MmapTagSize + (k - 1) * EntrySize,
                                tags[i].entries[k]>> : k \in DOMAIN tags[i].entries} :
                               i \in maps}
           all == headers \cup sizes \cup entries
<1>1. memory = [a \in {c[1] : c \in all} |-> (CHOOSE c \in all : c[1] = a)[2]]
  BY DEF Loaded, LoadedFrom
<1>2. \A c : c \in all <=> \E i \in DOMAIN tags : IsCell(c, tags, start, i)
  <2>1. \A c : c \in headers <=> \E i \in DOMAIN tags : c = HeaderCell(tags, start, i)
    BY DEF HeaderCell
  <2>2. \A c : c \in sizes <=> \E i \in DOMAIN tags :
                 tags[i].type = MULTIBOOT_TAG_TYPE_MMAP /\ c = SizeCell(start, i)
    BY DEF SizeCell
  <2>3. \A c : c \in entries <=> \E i \in DOMAIN tags :
                 /\ tags[i].type = MULTIBOOT_TAG_TYPE_MMAP
                 /\ \E k \in DOMAIN tags[i].entries : c = EntryCell(tags, start, i, k)
    BY DEF EntryCell
  <2> HIDE DEF headers, sizes, entries
  <2> QED BY <2>1, <2>2, <2>3 DEF IsCell
<1> HIDE DEF all
<1>3. \A c, d \in all : c[1] = d[1] => c = d
  BY <1>2, CellsApart
<1>4. ASSUME NEW c \in all PROVE c[1] \in DOMAIN memory /\ memory[c[1]] = c[2]
  <2> DEFINE there == CHOOSE d \in all : d[1] = c[1]
  <2>1. there \in all /\ there[1] = c[1]
    OBVIOUS
  <2>2. there = c
    BY <1>3, <2>1
  <2>3. c[1] \in DOMAIN memory /\ memory[c[1]] = there[2]
    BY <1>1
  <2> QED BY <2>2, <2>3
<1>5. \A a \in DOMAIN memory : \E c \in all : a = c[1]
  BY <1>1
<1> QED BY <1>2, <1>4, <1>5

(***************************************************************************)
(* The walk from tag to tag finds the first memory map, whatever tags of   *)
(* whatever sizes are before and behind it (multiboot2.c:276-306).         *)
(***************************************************************************)
LEMMA WalkFindsMap ==
  ASSUME NEW tags, WellFormed(tags), NEW base \in Nat, base % 8 = 0,
         NEW m \in DOMAIN tags, NEW mmap, Describes(tags, m, mmap),
         NEW memory, memory = Loaded(tags, base),
         NEW start, start = StartOfTag(tags, base)
  PROVE  find_multiboot2_tag(memory, base, MULTIBOOT_TAG_TYPE_MMAP) = start[m]
<1> DEFINE Next1(a) == NextTag(memory, a)
           Type(a) == At(memory, a).type
           Tags(f) == [i \in Nat |-> IF i = 0 THEN base + TagSize ELSE Next1(f[i - 1])]
           tag == CHOOSE f : f = Tags(f)
           Froms(f) == [i \in Nat |->
             IF Type(tag[i]) = MULTIBOOT_TAG_TYPE_END THEN NoTag
             ELSE IF Type(tag[i]) = MULTIBOOT_TAG_TYPE_MMAP THEN tag[i] ELSE f[i + 1]]
           from == CHOOSE f : f = Froms(f)
<1>0. PICK n \in Nat : n = Len(tags) /\ DOMAIN tags = 1..n
  BY DEF WellFormed
<1>1. find_multiboot2_tag(memory, base, MULTIBOOT_TAG_TYPE_MMAP) = from[0]
  BY DEF find_multiboot2_tag
<1>2. \A j \in 1..n : At(memory, start[j]) = Header(tags[j])
  <2>1. ASSUME NEW j \in 1..n PROVE At(memory, start[j]) = Header(tags[j])
    <3>1. IsCell(HeaderCell(tags, start, j), tags, start, j)
      BY DEF IsCell
    <3>2. HeaderCell(tags, start, j)[1] = start[j]
          /\ HeaderCell(tags, start, j)[2] = Header(tags[j])
      BY DEF HeaderCell
    <3>3. \A i \in DOMAIN tags : \A c :
            IsCell(c, tags, start, i) => c[1] \in DOMAIN memory /\ memory[c[1]] = c[2]
      BY MemoryHolds
    <3>4. start[j] \in DOMAIN memory /\ memory[start[j]] = Header(tags[j])
      BY <1>0, <3>1, <3>2, <3>3
    <3> QED BY <3>4 DEF At
  <2> QED BY <2>1
<1>3. At(memory, start[n + 1]) = Nothing
  <2>1. ASSUME start[n + 1] \in DOMAIN memory PROVE FALSE
    <3>0. PICK i \in 1..n : \E c : IsCell(c, tags, start, i) /\ start[n + 1] = c[1]
      BY <1>0, <2>1, MemoryHolds
    <3>1. PICK c : IsCell(c, tags, start, i) /\ start[n + 1] = c[1]
      BY <3>0
    <3>2. c[1] \in Nat /\ c[1] < start[i] + tags[i].size
      BY <1>0, <3>1, CellsApart
    <3>3. start[i] + tags[i].size <= start[n + 1]
      <4>1. n + 1 \in (i + 1)..(n + 1)
        OBVIOUS
      <4> QED BY <1>0, <4>1, TagsApart
    <3>4. start[i] \in Nat /\ tags[i].size \in Nat
      <4>1. start \in [1..(Len(tags) + 1) -> Nat] /\ i \in 1..(Len(tags) + 1)
        BY <1>0, TagStarts
      <4>2. tags[i] \in Tag
        BY <1>0 DEF WellFormed
      <4> QED BY <4>1, <4>2, TagFields
    <3> QED BY <3>1, <3>2, <3>3, <3>4
  <2> QED BY <2>1 DEF At
<1>4. /\ start[1] = base + TagSize
      /\ \A j \in 1..(n + 1) : start[j] \in Nat
      /\ \A j \in 1..n : Next1(start[j]) = start[j + 1]
  <2>1. /\ start \in [1..(n + 1) -> Nat] /\ start[1] = base + TagSize
        /\ \A j \in 1..n : start[j + 1] = start[j] + Above(tags[j].size)
    BY <1>0, TagStarts
  <2>2. ASSUME NEW j \in 1..n PROVE Next1(start[j]) = start[j + 1]
    <3>1. At(memory, start[j]).size = tags[j].size
      <4>1. At(memory, start[j]) = Header(tags[j])
        BY <1>2
      <4> QED BY <4>1 DEF Header
    <3> QED BY <2>1, <3>1 DEF NextTag, Above
  <2> QED BY <2>1, <2>2
<1>5. Next1(start[n + 1]) = start[n + 1]
  <2>1. start[n + 1] \in Nat
    BY <1>4
  <2>2. ((0 + 7) \div 8) * 8 = 0
    OBVIOUS
  <2> QED BY <1>3, <2>1, <2>2 DEF NextTag, Nothing
<1> DEFINE S == {start[j] : j \in 1..(n + 1)}
           Step == [a \in S |-> Next1(a)]
<1> HIDE DEF Next1
<1>6. \A a \in S : Step[a] \in S
  <2>1. ASSUME NEW j \in 1..(n + 1) PROVE Next1(start[j]) \in S
    <3>1. CASE j = n + 1
      BY <1>5, <3>1
    <3>2. CASE j # n + 1
      <4>1. j \in 1..n /\ j + 1 \in 1..(n + 1)
        BY <3>2
      <4> QED BY <1>4, <4>1
    <3> QED BY <3>1, <3>2
  <2> QED BY <2>1
<1>7. tag = Tags(tag)
  <2>1. base + TagSize \in S
    <3>1. 1 \in 1..(n + 1)
      OBVIOUS
    <3> QED BY <1>4, <3>1
  <2>2. PICK f \in [Nat -> S] : f[0] = base + TagSize /\ \A k \in Nat \ {0} : f[k] = Step[f[k - 1]]
    <3> DEFINE s == base + TagSize
    <3>1. s \in S
      BY <2>1
    <3> HIDE DEF S, Step, s
    <3>2. \E f \in [Nat -> S] : f[0] = s /\ \A k \in Nat \ {0} : f[k] = Step[f[k - 1]]
      BY <1>6, <3>1, NaturalRecursion
    <3> QED BY <3>2 DEF s
  <2>3. \A k \in Nat \ {0} : k - 1 \in Nat
    OBVIOUS
  <2>4. f = Tags(f)
    BY <2>2, <2>3
  <2> QED BY <2>4
<1> HIDE DEF tag
<1>8. \A i \in 1..m : tag[i - 1] = start[i]
  <2> DEFINE T == {i \in 1..m : tag[i - 1] = start[i]}
  <2>1. 1 \in T
    <3>1. 1 \in 1..m /\ 1 - 1 = 0
      BY <1>0
    <3>2. tag[0] = start[1]
      BY <1>4, <1>7
    <3> QED BY <3>1, <3>2
  <2>2. ASSUME NEW i \in 1..(m - 1), i \in T PROVE i + 1 \in T
    <3>1. i \in 1..n /\ i \in Nat /\ i # 0 /\ i + 1 \in 1..m /\ (i + 1) - 1 = i
      BY <1>0
    <3>2. tag[i] = Next1(tag[i - 1])
      BY <1>7, <3>1
    <3> QED BY <1>4, <2>2, <3>1, <3>2
  <2>3. 1 \in Int /\ m \in Int
    BY <1>0
  <2> HIDE DEF T
  <2>4. \A i \in 1..m : i \in T
    BY <2>1, <2>2, <2>3, IntervalInduction
  <2> QED BY <2>4 DEF T
<1> DEFINE Stops(i) == Type(tag[i]) \in {MULTIBOOT_TAG_TYPE_END, MULTIBOOT_TAG_TYPE_MMAP}
           Value(i) == IF Type(tag[i]) = MULTIBOOT_TAG_TYPE_END THEN NoTag ELSE tag[i]
           Firsts(i) == {j \in Nat : j >= i /\ Stops(j) /\ \A k \in i..(j - 1) : ~Stops(k)}
           g == [i \in Nat |-> IF Firsts(i) = {} THEN NoTag
                               ELSE Value(CHOOSE j \in Firsts(i) : TRUE)]
<1> HIDE DEF Type
<1>9. from = Froms(from)
  <2>1. ASSUME NEW i \in Nat, Stops(i) PROVE g[i] = Value(i)
    <3>1. Firsts(i) = {i}
      BY <2>1
    <3> HIDE DEF Firsts, Value
    <3> QED BY <3>1
  <2>2. ASSUME NEW i \in Nat, ~Stops(i) PROVE g[i] = g[i + 1]
    <3>1. Firsts(i) = Firsts(i + 1)
      <4>1. ASSUME NEW j \in Firsts(i) PROVE j \in Firsts(i + 1)
        <5>1. j # i
          BY <2>2, <4>1
        <5>2. \A k \in (i + 1)..(j - 1) : k \in i..(j - 1)
          OBVIOUS
        <5> QED BY <4>1, <5>1, <5>2
      <4>2. ASSUME NEW j \in Firsts(i + 1) PROVE j \in Firsts(i)
        <5>1. \A k \in i..(j - 1) : k = i \/ k \in (i + 1)..(j - 1)
          OBVIOUS
        <5> QED BY <2>2, <4>2, <5>1
      <4> HIDE DEF Firsts
      <4> QED BY <4>1, <4>2
    <3> HIDE DEF Firsts, Value
    <3> QED BY <3>1
  <2> HIDE DEF g
  <2>3. g = Froms(g)
    <3>1. ASSUME NEW i \in Nat
          PROVE  g[i] = IF Type(tag[i]) = MULTIBOOT_TAG_TYPE_END THEN NoTag
                        ELSE IF Type(tag[i]) = MULTIBOOT_TAG_TYPE_MMAP THEN tag[i]
                        ELSE g[i + 1]
      BY <2>1, <2>2
    <3>2. g = [i \in Nat |-> g[i]]
      BY DEF g
    <3> QED BY <3>1, <3>2
  <2> QED BY <2>3
<1> HIDE DEF from
<1>10. \A j \in 1..n : Type(start[j]) = tags[j].type
  <2>1. ASSUME NEW j \in 1..n PROVE At(memory, start[j]).type = tags[j].type
    <3>1. At(memory, start[j]) = Header(tags[j])
      BY <1>2
    <3> QED BY <3>1 DEF Header
  <2> QED BY <2>1 DEF Type
<1>11. \A k \in 0..(m - 1) : from[(m - 1) - k] = start[m]
  <2> DEFINE T == {k \in 0..(m - 1) : from[(m - 1) - k] = start[m]}
  <2>1. 0 \in T
    <3>1. m \in 1..m /\ m - 1 \in Nat /\ 0 \in 0..(m - 1) /\ (m - 1) - 0 = m - 1
      BY <1>0
    <3>2. tag[m - 1] = start[m] /\ Type(start[m]) = MULTIBOOT_TAG_TYPE_MMAP
      BY <1>0, <1>8, <1>10, <3>1 DEF Describes
    <3>3. MULTIBOOT_TAG_TYPE_MMAP # MULTIBOOT_TAG_TYPE_END
      BY DEF MULTIBOOT_TAG_TYPE_MMAP, MULTIBOOT_TAG_TYPE_END
    <3>4. from[m - 1] = start[m]
      BY <1>9, <3>1, <3>2, <3>3
    <3> QED BY <3>1, <3>4
  <2>2. ASSUME NEW k \in 0..((m - 1) - 1), k \in T PROVE k + 1 \in T
    <3>1. PICK i \in 1..(m - 1) : i = (m - 1) - k
      BY <1>0
    <3>2. (m - 1) - (k + 1) = i - 1 /\ i - 1 \in Nat /\ (i - 1) + 1 = i
          /\ k + 1 \in 0..(m - 1) /\ i \in 1..m /\ i \in 1..n
      BY <1>0, <3>1
    <3>3. Type(tag[i - 1]) = tags[i].type
          /\ tags[i].type \notin {MULTIBOOT_TAG_TYPE_END, MULTIBOOT_TAG_TYPE_MMAP}
      BY <1>8, <1>10, <3>1, <3>2 DEF Describes
    <3>4. from[i - 1] = from[i]
      BY <1>9, <3>2, <3>3
    <3> QED BY <2>2, <3>1, <3>2, <3>4
  <2>3. 0 \in Int /\ m - 1 \in Int
    BY <1>0
  <2> HIDE DEF T
  <2>4. \A k \in 0..(m - 1) : k \in T
    BY <2>1, <2>2, <2>3, IntervalInduction
  <2> QED BY <2>4 DEF T
<1>12. m - 1 \in 0..(m - 1) /\ (m - 1) - (m - 1) = 0
  BY <1>0
<1> QED BY <1>1, <1>11, <1>12

(* So the memory map that is read is the machine's.                        *)
LEMMA MapIsRead ==
  ASSUME NEW tags \in BootInfos
  PROVE  get_multiboot2_mmap_info(Loaded(tags, InfoAddr), InfoAddr) = Mmap
<1>1. InfoAddr \in Nat /\ InfoAddr % 8 = 0 /\ WellFormed(tags)
  BY BootAssumption
<1>2. PICK m \in DOMAIN tags : Describes(tags, m, Mmap)
  BY BootAssumption
<1> DEFINE memory == Loaded(tags, InfoAddr)
           start == StartOfTag(tags, InfoAddr)
           tag == find_multiboot2_tag(memory, InfoAddr, MULTIBOOT_TAG_TYPE_MMAP)
           read == (memory[tag].size - MmapTagSize) \div memory[tag + TagSize]
<1>3. tag = start[m]
  BY <1>1, <1>2, WalkFindsMap
<1>4. /\ tags[m].type = MULTIBOOT_TAG_TYPE_MMAP /\ tags[m].entries = Mmap
      /\ tags[m].size = MmapTagSize + Len(Mmap) * EntrySize
      /\ Len(Mmap) \in Nat /\ DOMAIN Mmap = 1..Len(Mmap)
  BY <1>1, <1>2, MmapAssumption DEF WellFormed, Describes, MemoryMaps
<1>5. \A c : IsCell(c, tags, start, m) => memory[c[1]] = c[2]
  <2>1. \A i \in DOMAIN tags : \A c : IsCell(c, tags, start, i) => memory[c[1]] = c[2]
    BY <1>1, MemoryHolds
  <2> QED BY <1>2, <2>1
<1>6. memory[start[m]].size = tags[m].size
  <2>1. IsCell(HeaderCell(tags, start, m), tags, start, m)
    BY DEF IsCell
  <2>2. memory[start[m]] = Header(tags[m])
    BY <1>5, <2>1 DEF HeaderCell
  <2> QED BY <2>2 DEF Header
<1>7. memory[start[m] + TagSize] = EntrySize
  <2>1. IsCell(SizeCell(start, m), tags, start, m)
    BY <1>4 DEF IsCell
  <2> QED BY <1>5, <2>1 DEF SizeCell
<1>8. \A k \in 1..Len(Mmap) : memory[start[m] + MmapTagSize + (k - 1) * EntrySize] = Mmap[k]
  <2>1. \A k \in 1..Len(Mmap) : IsCell(EntryCell(tags, start, m, k), tags, start, m)
    BY <1>4 DEF IsCell
  <2>2. ASSUME NEW k \in 1..Len(Mmap)
        PROVE  memory[start[m] + MmapTagSize + (k - 1) * EntrySize] = Mmap[k]
    <3>1. /\ EntryCell(tags, start, m, k)[1] = start[m] + MmapTagSize + (k - 1) * EntrySize
          /\ EntryCell(tags, start, m, k)[2] = Mmap[k]
      BY <1>4 DEF EntryCell
    <3> HIDE DEF memory, start
    <3> QED BY <1>5, <2>1, <3>1
  <2> QED BY <2>2
<1>10. read = Len(Mmap)
  <2>1. PICK l \in Nat : l = Len(Mmap)
    BY <1>4
  <2>2. PICK x \in Int : x = 16 + l * 24
    OBVIOUS
  <2>3. memory[tag].size = x /\ memory[tag + TagSize] = 24 /\ MmapTagSize = 16
    <3> HIDE DEF memory, start, tag
    <3> QED BY <1>3, <1>4, <1>6, <1>7, <2>1, <2>2 DEF MmapTagSize, EntrySize
  <2>4. read = (x - 16) \div 24
    <3> HIDE DEF memory, tag
    <3> QED BY <2>3
  <2>5. (x - 16) \div 24 = l
    BY <2>2
  <2> QED BY <2>1, <2>4, <2>5
<1>11. get_multiboot2_mmap_info(memory, InfoAddr) =
         [k \in 1..read |-> memory[tag + MmapTagSize + (k - 1) * EntrySize]]
  BY DEF get_multiboot2_mmap_info
<1> HIDE DEF memory, start, tag, read
<1>12. get_multiboot2_mmap_info(memory, InfoAddr) = [k \in 1..Len(Mmap) |-> Mmap[k]]
  BY <1>3, <1>8, <1>10, <1>11
<1> QED BY <1>12, MmapAssumption DEF memory, MemoryMaps
-----------------------------------------------------------------------------
(***************************************************************************)
(* addr_map_init(): the ranges are pieces of available entries, apart from *)
(* each other and from the kernel (mmu_driver.c:546-675).                  *)
(***************************************************************************)
Range == [start : Nat, end : Nat, curr : Nat]

Apart(r, s) == r.end <= s.start \/ s.end <= r.start

(* A range that is part of an entry, starts at a page boundary and holds   *)
(* nothing of the kernel.                                                  *)
PieceOf(r, e) ==
  /\ r \in Range /\ r.curr = r.start /\ r.start < r.end /\ r.start % 2 = 0
  /\ Available(e) /\ e.addr <= r.start /\ r.end <= EndOf(e)
  /\ r.end <= KernelStart \/ KernelEnd <= r.start

(* align_address() rounds up to a multiple of a page. *)
LEMMA AlignUp ==
  ASSUME NEW a \in Nat
  PROVE  Align(a) \in Nat /\ Align(a) >= a /\ Align(a) % 2 = 0
  BY DEF Align, PageSize

(* The fields of an entry of the memory map. *)
LEMMA EntryFields ==
  ASSUME NEW k \in DOMAIN Mmap
  PROVE  /\ Mmap[k].addr \in Nat /\ Mmap[k].len \in Nat /\ Mmap[k].len > 0
         /\ EndOf(Mmap[k]) \in Nat /\ Mmap[k].addr < EndOf(Mmap[k])
         /\ Mmap[k].type \in Nat
<1>1. Mmap \in MemoryMaps
  BY MmapAssumption
<1> DEFINE Entries == [addr : Nat, len : Nat \ {0}, type : Nat]
<1>2. Mmap \in Seq(Entries)
  BY <1>1 DEF MemoryMaps
<1>3. Mmap[k] \in Entries
  <2> HIDE DEF Entries
  <2> QED BY <1>2
<1> QED BY <1>3 DEF EndOf

(* The kernel ends at or behind its start. *)
LEMMA KernelPlace ==
  /\ KernelStart \in Nat /\ KernelEnd \in Nat /\ KernelStart < KernelEnd
  /\ KernelStart > 4
  /\ Align(KernelEnd) \in Nat /\ Align(KernelEnd) >= KernelEnd
<1>1. KernelStart \in Nat /\ KernelEnd \in Nat /\ KernelStart < KernelEnd
  BY PagingAssumption
<1>2. KernelStart > 4
  BY MmapAssumption DEF PageSize
<1> QED BY <1>1, <1>2, AlignUp

(* The ends of an entry, and the kernel's end in it, are numbers. *)
LEMMA EntryNumbers ==
  Len(Mmap) \in Nat /\ DOMAIN Mmap = 1..Len(Mmap) /\ 1 \in DOMAIN Mmap
<1>1. Mmap \in MemoryMaps /\ Mmap # <<>>
  BY MmapAssumption
<1> QED BY <1>1 DEF MemoryMaps

(* The ranges taken from an entry are disjoint parts of it                 *)
(* (mmu_driver.c:590-660).                                                 *)
LEMMA EntryRanges ==
  ASSUME NEW k \in DOMAIN Mmap, NEW s, s = RangesOf(Mmap[k])
  PROVE  /\ s \in Seq(Range)
         /\ \A i \in DOMAIN s : PieceOf(s[i], Mmap[k])
         /\ \A i, j \in DOMAIN s : i < j => Apart(s[i], s[j])
         /\ k = 1 => s # <<>> /\ s[1].start = 0 /\ s[1].end > 4
<1> DEFINE e == Mmap[k]
           after == RangeOf(Align(KernelEnd), EndOf(e))
           before == RangeOf(e.addr, KernelStart)
           whole == RangeOf(e.addr, EndOf(e))
<1>1. /\ e.addr \in Nat /\ EndOf(e) \in Nat /\ e.addr < EndOf(e)
      /\ KernelStart \in Nat /\ KernelEnd \in Nat /\ KernelStart < KernelEnd
      /\ KernelStart > 4
      /\ Align(KernelEnd) \in Nat /\ Align(KernelEnd) >= KernelEnd
  BY EntryFields, KernelPlace
<1>2. Available(e) => \/ HoldsKernel(e) /\ Align(KernelEnd) < EndOf(e)
                      \/ EndOf(e) <= KernelStart \/ KernelEnd <= e.addr
  BY MmapAssumption
<1>3. k = 1 => Available(e) /\ e.addr = 0 /\ EndOf(e) > 4
  BY MmapAssumption DEF PageSize
<1>10. (Available(e) => e.addr % 2 = 0) /\ Align(KernelEnd) % 2 = 0
  BY MmapAssumption, PagingAssumption, AlignUp DEF Aligned, PageSize
<1> DEFINE goal ==
             /\ s \in Seq(Range)
             /\ \A i \in DOMAIN s : PieceOf(s[i], e)
             /\ \A i, j \in DOMAIN s : i < j => Apart(s[i], s[j])
             /\ k = 1 => s # <<>> /\ s[1].start = 0 /\ s[1].end > 4
<1>4. CASE ~Available(e)
  <2>1. s = <<>>
    BY <1>4 DEF RangesOf, Available
  <2> QED BY <1>3, <1>4, <2>1
<1>5. ASSUME NEW r, s = <<r>>, PieceOf(r, e), k = 1 => r.start = 0 /\ r.end > 4
      PROVE  goal
  <2>1. s \in Seq(Range) /\ DOMAIN s = {1} /\ s[1] = r /\ s # <<>>
    BY <1>5 DEF PieceOf
  <2> QED BY <1>5, <2>1
<1>6. CASE Available(e) /\ ~HoldsKernel(e)
  <2>1. s = <<whole>>
    BY <1>6 DEF RangesOf, Available, HoldsKernel, EndOf
  <2>2. PieceOf(whole, e) /\ (k = 1 => whole.start = 0 /\ whole.end > 4)
    BY <1>1, <1>2, <1>3, <1>6, <1>10 DEF PieceOf, RangeOf, Range
  <2> HIDE DEF whole, goal
  <2>3. goal
    BY <1>5, <2>1, <2>2
  <2> QED BY <2>3 DEF goal
<1>7. ASSUME Available(e), HoldsKernel(e)
      PROVE  /\ Align(KernelEnd) < EndOf(e) /\ e.addr <= KernelStart
             /\ PieceOf(after, e)
  BY <1>1, <1>2, <1>7, <1>10 DEF PieceOf, RangeOf, Range, HoldsKernel
<1>8. CASE Available(e) /\ HoldsKernel(e) /\ KernelStart = e.addr
  <2>1. s = <<after>>
    BY <1>8 DEF RangesOf, Available, HoldsKernel, EndOf
  <2>2. k # 1
    BY <1>1, <1>3, <1>8
  <2> HIDE DEF after, goal
  <2>3. goal
    BY <1>5, <1>7, <1>8, <2>1, <2>2
  <2> QED BY <2>3 DEF goal
<1>9. CASE Available(e) /\ HoldsKernel(e) /\ KernelStart # e.addr
  <2>1. s = <<before, after>>
    BY <1>9 DEF RangesOf, Available, HoldsKernel, EndOf
  <2>2. PieceOf(before, e) /\ Apart(before, after)
        /\ (k = 1 => before.start = 0 /\ before.end > 4)
    BY <1>1, <1>3, <1>7, <1>9, <1>10 DEF PieceOf, RangeOf, Range, Apart
  <2> HIDE DEF before, after
  <2>3. before \in Range /\ after \in Range
    BY <1>7, <1>9, <2>2 DEF PieceOf
  <2>4. s \in Seq(Range) /\ DOMAIN s = 1..2 /\ s[1] = before /\ s[2] = after /\ s # <<>>
    BY <2>1, <2>3
  <2> QED BY <1>7, <1>9, <2>2, <2>4
<1> QED BY <1>4, <1>6, <1>8, <1>9

Pieces(s, k) ==
  /\ s \in Seq(Range)
  /\ \A i \in DOMAIN s : \E l \in 1..k : PieceOf(s[i], Mmap[l])
  /\ \A i, j \in DOMAIN s : i < j => Apart(s[i], s[j])
  /\ k # 0 => s # <<>> /\ s[1].start = 0 /\ s[1].end > 4

(* Appending the ranges of one more entry keeps the ranges in order and    *)
(* apart.                                                                  *)
LEMMA MorePieces ==
  ASSUME NEW k \in 1..Len(Mmap), NEW s, Pieces(s, k - 1)
  PROVE  Pieces(s \o RangesOf(Mmap[k]), k)
<1>0. PICK t : t = RangesOf(Mmap[k])
  OBVIOUS
<1>1. k \in DOMAIN Mmap /\ k \in Nat
  BY EntryNumbers
<1>2. /\ t \in Seq(Range)
      /\ \A i \in DOMAIN t : PieceOf(t[i], Mmap[k])
      /\ \A i, j \in DOMAIN t : i < j => Apart(t[i], t[j])
      /\ k = 1 => t # <<>> /\ t[1].start = 0 /\ t[1].end > 4
  BY <1>0, <1>1, EntryRanges
<1> DEFINE both == s \o t
<1>3. /\ both \in Seq(Range) /\ Len(both) = Len(s) + Len(t)
      /\ s \in Seq(Range) /\ Len(s) \in Nat /\ Len(t) \in Nat
      /\ DOMAIN both = 1..(Len(s) + Len(t)) /\ DOMAIN s = 1..Len(s) /\ DOMAIN t = 1..Len(t)
  BY <1>2 DEF Pieces
<1>4. /\ \A i \in DOMAIN s : i \in DOMAIN both /\ both[i] = s[i]
      /\ \A i \in DOMAIN t : both[Len(s) + i] = t[i]
  BY <1>2, <1>3
<1>5. ASSUME NEW i \in DOMAIN both
      PROVE  \/ i \in DOMAIN s /\ both[i] = s[i]
             \/ i > Len(s) /\ i - Len(s) \in DOMAIN t /\ both[i] = t[i - Len(s)]
  <2>1. i \in Nat /\ i >= 1 /\ i <= Len(s) + Len(t)
    BY <1>3
  <2>2. CASE i <= Len(s)
    BY <1>3, <1>4, <2>1, <2>2
  <2>3. CASE i > Len(s)
    <3>1. i - Len(s) \in DOMAIN t /\ Len(s) + (i - Len(s)) = i
      BY <1>3, <2>1, <2>3
    <3> QED BY <1>4, <2>3, <3>1
  <2> QED BY <1>3, <2>1, <2>2, <2>3
<1> HIDE DEF both
<1>6. \A l \in 1..(k - 1) : l \in 1..k /\ l \in DOMAIN Mmap /\ l < k
  BY EntryNumbers
<1>7. ASSUME NEW i \in DOMAIN both PROVE \E l \in 1..k : PieceOf(both[i], Mmap[l])
  <2>1. CASE i \in DOMAIN s /\ both[i] = s[i]
    <3>1. PICK l \in 1..(k - 1) : PieceOf(s[i], Mmap[l])
      BY <2>1 DEF Pieces
    <3> QED BY <1>6, <2>1, <3>1
  <2>2. CASE i - Len(s) \in DOMAIN t /\ both[i] = t[i - Len(s)]
    BY <1>1, <1>2, <2>2
  <2> QED BY <1>5, <2>1, <2>2
<1>8. ASSUME NEW i \in DOMAIN s, NEW j \in DOMAIN t PROVE Apart(s[i], t[j])
  <2>1. PICK l \in 1..(k - 1) : PieceOf(s[i], Mmap[l])
    BY DEF Pieces
  <2>2. EndOf(Mmap[l]) <= Mmap[k].addr \/ EndOf(Mmap[k]) <= Mmap[l].addr
    BY <1>1, <1>6, MmapAssumption
  <2>3. PieceOf(t[j], Mmap[k])
    BY <1>2
  <2>4. /\ Mmap[l].addr \in Nat /\ EndOf(Mmap[l]) \in Nat
        /\ Mmap[k].addr \in Nat /\ EndOf(Mmap[k]) \in Nat
    BY <1>1, <1>6, EntryFields
  <2>5. /\ s[i].start \in Nat /\ s[i].end \in Nat
        /\ Mmap[l].addr <= s[i].start /\ s[i].end <= EndOf(Mmap[l])
    BY <2>1 DEF PieceOf, Range
  <2>6. /\ t[j].start \in Nat /\ t[j].end \in Nat
        /\ Mmap[k].addr <= t[j].start /\ t[j].end <= EndOf(Mmap[k])
    BY <2>3 DEF PieceOf, Range
  <2>7. s[i].end <= t[j].start \/ t[j].end <= s[i].start
    <3>1. CASE EndOf(Mmap[l]) <= Mmap[k].addr
      BY <2>4, <2>5, <2>6, <3>1
    <3>2. CASE EndOf(Mmap[k]) <= Mmap[l].addr
      BY <2>4, <2>5, <2>6, <3>2
    <3> QED BY <2>2, <3>1, <3>2
  <2> QED BY <2>7 DEF Apart
<1>9. ASSUME NEW i \in DOMAIN both, NEW j \in DOMAIN both, i < j
      PROVE  Apart(both[i], both[j])
  <2>1. i \in Nat /\ j \in Nat
    BY <1>3
  <2>2. CASE j \in DOMAIN s /\ both[j] = s[j]
    <3>1. i \in DOMAIN s /\ both[i] = s[i]
      BY <1>3, <1>4, <1>9, <2>1, <2>2
    <3> QED BY <1>9, <2>2, <3>1 DEF Pieces
  <2>3. CASE j > Len(s) /\ j - Len(s) \in DOMAIN t /\ both[j] = t[j - Len(s)]
    <3>1. CASE i \in DOMAIN s /\ both[i] = s[i]
      BY <1>8, <2>3, <3>1
    <3>2. CASE i - Len(s) \in DOMAIN t /\ both[i] = t[i - Len(s)]
      <4>1. i - Len(s) < j - Len(s)
        BY <1>3, <1>9, <2>1
      <4> QED BY <1>2, <2>3, <3>2, <4>1
    <3> QED BY <1>5, <3>1, <3>2
  <2> QED BY <1>5, <2>2, <2>3
<1>10. both # <<>> /\ both[1].start = 0 /\ both[1].end > 4
  <2>1. CASE k = 1
    <3>1. CASE s = <<>>
      <4>1. both = t
        BY <1>2, <3>1 DEF both
      <4> QED BY <1>2, <2>1, <4>1
    <3>2. CASE s # <<>>
      <4>1. 1 \in DOMAIN s
        BY <1>3, <3>2
      <4>2. PICK l \in 1..(k - 1) : PieceOf(s[1], Mmap[l])
        BY <4>1 DEF Pieces
      <4> QED BY <2>1, <4>2
    <3> QED BY <3>1, <3>2
  <2>2. CASE k # 1
    <3>1. s # <<>> /\ s[1].start = 0 /\ s[1].end > 4
      BY <1>1, <2>2 DEF Pieces
    <3>2. 1 \in DOMAIN s
      BY <1>3, <3>1
    <3>3. both[1] = s[1] /\ both # <<>>
      BY <1>3, <1>4, <3>2
    <3> QED BY <3>1, <3>3
  <2> QED BY <2>1, <2>2
<1>11. Pieces(both, k)
  BY <1>3, <1>7, <1>9, <1>10 DEF Pieces
<1> QED BY <1>0, <1>11 DEF both

(* The ranges taken from the memory map are in order and apart. *)
LEMMA RangesArePieces == Pieces(AddrRanges(Mmap), Len(Mmap))
<1> DEFINE n == Len(Mmap)
           Upto(f) == [i \in 0..n |-> IF i = 0 THEN <<>> ELSE f[i - 1] \o RangesOf(Mmap[i])]
           upTo == CHOOSE f : f = Upto(f)
           S == Seq(Range)
           Step == [k \in 0..n |-> [s \in S |-> s \o RangesOf(Mmap[k])]]
<1>1. AddrRanges(Mmap) = upTo[n]
  BY DEF AddrRanges
<1>2. n \in Nat /\ DOMAIN Mmap = 1..n
  BY EntryNumbers
<1>3. upTo = Upto(upTo)
  <2>1. \A k \in 1..n : RangesOf(Mmap[k]) \in S
    BY <1>2, EntryRanges
  <2>2. Stepwise(Step, 0, n, S)
    <3>1. ASSUME NEW k \in (0 + 1)..n, NEW x \in S PROVE Step[k][x] \in S
      <4>1. k \in 0..n /\ k \in 1..n
        OBVIOUS
      <4>2. Step[k][x] = x \o RangesOf(Mmap[k])
        BY <4>1
      <4> HIDE DEF Step
      <4> QED BY <2>1, <4>1, <4>2
    <3> HIDE DEF Step, S
    <3> QED BY <3>1 DEF Stepwise
  <2>3. <<>> \in S
    OBVIOUS
  <2>4. PICK f : Follows(f, 0, n, S, <<>>, Step)
    <3>1. 0 \in Int /\ n \in Int /\ 0 <= n
      BY <1>2
    <3> HIDE DEF S, Step, n
    <3> QED BY <2>2, <2>3, <3>1, PrimitiveRecursion
  <2>5. ASSUME NEW i \in 0..n, i # 0 PROVE f[i] = f[i - 1] \o RangesOf(Mmap[i])
    <3>1. i \in (0 + 1)..n /\ i - 1 \in 0..n
      BY <1>2, <2>5
    <3>2. f[i] = Step[i][f[i - 1]] /\ f[i - 1] \in S
      BY <2>4, <3>1 DEF Follows
    <3> HIDE DEF S
    <3> QED BY <3>2
  <2>6. f = Upto(f)
    <3> HIDE DEF S, Step
    <3> QED BY <2>4, <2>5 DEF Follows
  <2> QED BY <2>6
<1> HIDE DEF upTo
<1> DEFINE T == {i \in 0..n : Pieces(upTo[i], i)}
<1>4. 0 \in T
  <2>1. upTo[0] = <<>> /\ 0 \in 0..n
    BY <1>2, <1>3
  <2>2. Pieces(<<>>, 0)
    BY DEF Pieces
  <2> QED BY <2>1, <2>2
<1>5. ASSUME NEW i \in 0..(n - 1), i \in T PROVE i + 1 \in T
  <2>1. i + 1 \in 1..n /\ i + 1 \in 0..n /\ (i + 1) - 1 = i /\ i + 1 # 0
    BY <1>2
  <2>2. upTo[i + 1] = upTo[i] \o RangesOf(Mmap[i + 1])
    BY <1>3, <2>1
  <2>3. Pieces(upTo[i], (i + 1) - 1)
    BY <1>5, <2>1
  <2>4. Pieces(upTo[i + 1], i + 1)
    BY <2>1, <2>2, <2>3, MorePieces
  <2> QED BY <2>1, <2>4
<1>6. \A i \in 0..n : i \in T
  <2>1. 0 \in Int /\ n \in Int
    BY <1>2
  <2> HIDE DEF T, n
  <2> QED BY <1>4, <1>5, <2>1, IntervalInduction
<1>7. n \in T
  BY <1>2, <1>6
<1> QED BY <1>1, <1>7
-----------------------------------------------------------------------------
(***************************************************************************)
(* The states of the memory manager.                                       *)
(***************************************************************************)
TableNames == {Table(level, v) : level \in 1..3, v \in Nat}
EntryType == [present : BOOLEAN, alloc : BOOLEAN, frame : Nat]
Partial(D, S) == UNION {[E -> S] : E \in SUBSET D}

Mem ==
  [ranges : Seq(Range), cur : Nat, mmap : {Mmap}, free : Seq(Nat),
   tables : Partial(TableNames, Nat), pml4 : Nat, pte : Partial(Nat, EntryType),
   bank : [Regions -> Nat], loaded : BOOLEAN, halted : BOOLEAN]

(* Where the frames of a range begin, and where it ends. *)
Pool == AddrRanges(Mmap)
First(i) == IF i = 1 THEN 4 ELSE Pool[i].start
Limit(i) == Pool[i].end

RangesInv(m) ==
  /\ DOMAIN m.ranges = DOMAIN Pool
  /\ m.cur \in DOMAIN Pool
  /\ \A i \in DOMAIN Pool :
       /\ m.ranges[i].start = Pool[i].start /\ m.ranges[i].end = Limit(i)
       /\ First(i) <= m.ranges[i].curr /\ m.ranges[i].curr < Limit(i) + 2
       /\ (m.ranges[i].curr - First(i)) % 2 = 0
       /\ i > m.cur => m.ranges[i].curr = First(i)
  /\ m.halted = FALSE => m.ranges[m.cur].curr < Limit(m.cur)

(* The frames alloc_new_pf() has handed out. *)
HandedOut(m) ==
  {a \in Nat : \E i \in DOMAIN Pool :
                 First(i) <= a /\ a < m.ranges[i].curr /\ (a - First(i)) % 2 = 0}

(* The frames of tables, of pages, and those on the free list. *)
TableFrames(m) == {m.tables[t] : t \in DOMAIN m.tables}
PagesWithFrame(m) == {v \in DOMAIN m.pte : v > MapInit /\ m.pte[v].present = TRUE}
PageFrames(m) == {m.pte[v].frame : v \in PagesWithFrame(m)}
FreeFrames(m) == {m.free[i] : i \in DOMAIN m.free}

(* The frames with a use, those in X used elsewhere. *)
InUse(m, X) == TableFrames(m) \cup PageFrames(m) \cup FreeFrames(m) \cup X

Disjoint(A, B, C, D) ==
  \A f :
    /\ f \in A => f \notin B /\ f \notin C /\ f \notin D
    /\ f \in B => f \notin C /\ f \notin D
    /\ f \in C => f \notin D

UsedOnce(m, X) ==
  /\ \A s, t \in DOMAIN m.tables : m.tables[s] = m.tables[t] => s = t
  /\ \A v, w \in PagesWithFrame(m) : m.pte[v].frame = m.pte[w].frame => v = w
  /\ \A i, j \in DOMAIN m.free : m.free[i] = m.free[j] => i = j
  /\ Disjoint(TableFrames(m), PageFrames(m), FreeFrames(m), X)

(* Every frame that was handed out has one use; in a system that halted,   *)
(* at most one.                                                            *)
Accounted(m, X) ==
  /\ UsedOnce(m, X)
  /\ InUse(m, X) \subseteq HandedOut(m)
  /\ m.halted = FALSE => HandedOut(m) \subseteq InUse(m, X)

(* Entries belong to pages of a region, below its break, or to the pages   *)
(* that are mapped one to one.                                             *)
Allotted(m, v) == \E r \in Regions : RegionStart[r] <= v /\ v < m.bank[r]

EntriesInv(m) ==
  /\ \A v \in DOMAIN m.pte :
       /\ v <= MapInit \/ Allotted(m, v)
       /\ m.pte[v].present = TRUE \/ m.pte[v].frame = Null
  /\ \A r \in Regions : RegionStart[r] <= m.bank[r] /\ m.bank[r] <= RegionStart[r] + MaxPages

Good(m, X) == m \in Mem /\ RangesInv(m) /\ EntriesInv(m) /\ Accounted(m, X)

(* What getting a frame or a table leaves alone; no table is given back. *)
SamePages(m, n) ==
  /\ DOMAIN m.tables \subseteq DOMAIN n.tables
  /\ n.pte = m.pte /\ n.bank = m.bank /\ n.loaded = m.loaded /\ n.pml4 = m.pml4
  /\ m.halted = TRUE => n.halted = TRUE

(* The ranges MMU_init() starts with: types, bounds, and disjoint frames. *)
LEMMA PoolFacts ==
  /\ Pool \in Seq(Range) /\ DOMAIN Pool = 1..Len(Pool) /\ Len(Pool) \in Nat
  /\ 1 \in DOMAIN Pool
  /\ \A i \in DOMAIN Pool :
       /\ i \in Nat /\ Pool[i] \in Range /\ Pool[i].curr = Pool[i].start
       /\ First(i) \in Nat /\ Limit(i) \in Nat /\ 0 < First(i) /\ First(i) < Limit(i)
       /\ Pool[i].start <= First(i)
  /\ \A i, j \in DOMAIN Pool :
       i # j => Limit(i) <= First(j) \/ Limit(j) <= First(i)
<1>1. /\ Pool \in Seq(Range) /\ Pool # <<>>
      /\ \A i \in DOMAIN Pool : \E l \in 1..Len(Mmap) : PieceOf(Pool[i], Mmap[l])
      /\ \A i, j \in DOMAIN Pool : i < j => Apart(Pool[i], Pool[j])
      /\ Pool[1].start = 0 /\ Pool[1].end > 4
  <2>1. Len(Mmap) # 0
    BY EntryNumbers
  <2> QED BY <2>1, RangesArePieces DEF Pool, Pieces
<1> HIDE DEF Pool
<1>2. Len(Pool) \in Nat /\ DOMAIN Pool = 1..Len(Pool) /\ 1 \in DOMAIN Pool
  BY <1>1
<1>3. ASSUME NEW i \in DOMAIN Pool
      PROVE  /\ i \in Nat /\ Pool[i] \in Range /\ Pool[i].curr = Pool[i].start
             /\ Pool[i].start \in Nat /\ Pool[i].end \in Nat /\ Pool[i].start < Pool[i].end
  <2>1. PICK l \in 1..Len(Mmap) : PieceOf(Pool[i], Mmap[l])
    BY <1>1
  <2> QED BY <1>2, <2>1 DEF PieceOf, Range
<1>4. \A i, j \in DOMAIN Pool : i # j => Apart(Pool[i], Pool[j])
  <2>1. \A i, j \in DOMAIN Pool : i # j => i < j \/ j < i
    BY <1>3
  <2> QED BY <1>1, <2>1 DEF Apart
<1>5. ASSUME NEW i \in DOMAIN Pool, i # 1 PROVE 0 < Pool[i].start
  <2>1. Apart(Pool[1], Pool[i])
    BY <1>2, <1>4, <1>5
  <2> QED BY <1>1, <1>2, <1>3, <2>1 DEF Apart
<1>6. ASSUME NEW i \in DOMAIN Pool
      PROVE  /\ First(i) \in Nat /\ Limit(i) \in Nat /\ 0 < First(i) /\ First(i) < Limit(i)
             /\ Pool[i].start <= First(i)
  BY <1>1, <1>3, <1>5 DEF First, Limit
<1>7. ASSUME NEW i \in DOMAIN Pool, NEW j \in DOMAIN Pool, i # j
      PROVE  Limit(i) <= First(j) \/ Limit(j) <= First(i)
  <2>1. Apart(Pool[i], Pool[j])
    BY <1>4, <1>7
  <2>2. /\ Pool[i].start <= First(i) /\ Pool[j].start <= First(j)
        /\ Pool[i].start \in Nat /\ Pool[j].start \in Nat
        /\ First(i) \in Nat /\ First(j) \in Nat /\ Pool[i].end \in Nat /\ Pool[j].end \in Nat
    BY <1>3, <1>6
  <2> QED BY <2>1, <2>2 DEF Apart, Limit
<1> QED BY <1>1, <1>2, <1>3, <1>6, <1>7

(* The fields of the memory manager's state have their types. *)
LEMMA MemFields ==
  ASSUME NEW m \in Mem
  PROVE  /\ m.ranges \in Seq(Range) /\ m.cur \in Nat /\ m.mmap = Mmap
         /\ m.free \in Seq(Nat)
         /\ m.tables \in Partial(TableNames, Nat) /\ m.pml4 \in Nat
         /\ m.pte \in Partial(Nat, EntryType) /\ m.bank \in [Regions -> Nat]
         /\ m.loaded \in BOOLEAN /\ m.halted \in BOOLEAN
  BY DEF Mem

(* The fields of a range have their types. *)
LEMMA RangeFields ==
  ASSUME NEW m \in Mem, RangesInv(m), NEW i \in DOMAIN Pool
  PROVE  m.ranges[i] \in Range /\ m.ranges[i].curr \in Nat /\ i \in 1..Len(m.ranges)
<1>1. m.ranges \in Seq(Range) /\ i \in DOMAIN m.ranges
  BY MemFields DEF RangesInv
<1>2. m.ranges[i] \in Range /\ i \in 1..Len(m.ranges)
  BY <1>1
<1> QED BY <1>2 DEF Range

(* The frames in X, and one more. *)
With(X, f) == X \cup {f}

(* Halting loses nothing that is still asked for.                          *)
LEMMA HaltKeeps ==
  ASSUME NEW m, NEW X, NEW Y, Good(m, X), Y \subseteq X
  PROVE  /\ Good(Halt(m), Y) /\ SamePages(m, Halt(m)) /\ Halt(m).halted = TRUE
         /\ m.halted = TRUE => Good(m, Y)
<1>1. m \in Mem /\ RangesInv(m) /\ EntriesInv(m) /\ Accounted(m, X)
  BY DEF Good
<1> DEFINE n == Halt(m)
<1>2. /\ n \in Mem /\ n.ranges = m.ranges /\ n.cur = m.cur /\ n.free = m.free
      /\ n.tables = m.tables /\ n.pte = m.pte /\ n.bank = m.bank /\ n.halted = TRUE
      /\ n.loaded = m.loaded /\ n.pml4 = m.pml4
  BY <1>1 DEF Halt, Mem
<1> HIDE DEF n
<1>3. RangesInv(n) /\ EntriesInv(n)
  BY <1>1, <1>2 DEF RangesInv, EntriesInv, Allotted
<1>4. ASSUME NEW k, k.halted = TRUE, k.tables = m.tables, k.pte = m.pte, k.free = m.free,
             k.ranges = m.ranges
      PROVE  Accounted(k, Y)
  <2>1. /\ TableFrames(k) = TableFrames(m) /\ PageFrames(k) = PageFrames(m)
        /\ PagesWithFrame(k) = PagesWithFrame(m)
        /\ FreeFrames(k) = FreeFrames(m) /\ HandedOut(k) = HandedOut(m)
    BY <1>4 DEF TableFrames, PageFrames, PagesWithFrame, FreeFrames, HandedOut
  <2>2. UsedOnce(k, Y)
    BY <1>1, <1>4, <2>1 DEF Accounted, UsedOnce, Disjoint
  <2>3. InUse(k, Y) \subseteq HandedOut(k)
    BY <1>1, <2>1 DEF Accounted, InUse
  <2> QED BY <1>4, <2>2, <2>3 DEF Accounted
<1>5. Good(n, Y)
  BY <1>2, <1>3, <1>4 DEF Good
<1>6. m.halted = TRUE => Good(m, Y)
  BY <1>1, <1>4 DEF Good
<1> QED BY <1>2, <1>5, <1>6 DEF SamePages, n

(* Halting a good state leaves a good one. *)
LEMMA HaltStays ==
  ASSUME NEW m, NEW X, Good(m, X)
  PROVE  Good(Halt(m), X) /\ SamePages(m, Halt(m)) /\ Halt(m).halted = TRUE
  BY HaltKeeps

(* A halt with a frame dropped is good too: nothing is said of the frames  *)
(* then.                                                                   *)
LEMMA HaltDrops ==
  \A m, X, f : Good(m, With(X, f)) =>
    /\ Good(Halt(m), X) /\ SamePages(m, Halt(m)) /\ Halt(m).halted = TRUE
    /\ m.halted = TRUE => Good(m, X)
<1> TAKE m, X, f
<1> HAVE Good(m, With(X, f))
<1>1. X \subseteq With(X, f)
  BY DEF With
<1> QED BY <1>1, HaltKeeps

(* A state in which the frame f has been handed out to X.                  *)
LEMMA OneMore ==
  ASSUME NEW m, NEW X, NEW f, Good(m, X), f \notin InUse(m, X),
         NEW n \in Mem, RangesInv(n), SamePages(m, n), n.tables = m.tables,
         \/ HandedOut(n) = HandedOut(m) \cup {f} /\ n.free = m.free
         \/ /\ HandedOut(n) = HandedOut(m) /\ f \in HandedOut(m)
            /\ n.halted = TRUE /\ n.free = m.free
  PROVE  Good(n, With(X, f))
<1>1. m \in Mem /\ EntriesInv(m) /\ Accounted(m, X)
  BY DEF Good
<1>2. /\ TableFrames(n) = TableFrames(m) /\ PageFrames(n) = PageFrames(m)
      /\ PagesWithFrame(n) = PagesWithFrame(m) /\ FreeFrames(n) = FreeFrames(m)
      /\ n.pte = m.pte /\ n.tables = m.tables /\ n.free = m.free
  BY DEF TableFrames, PageFrames, PagesWithFrame, FreeFrames, SamePages
<1>3. EntriesInv(n)
  BY <1>1 DEF EntriesInv, Allotted, SamePages
<1>4. UsedOnce(n, With(X, f))
  BY <1>1, <1>2 DEF Accounted, UsedOnce, Disjoint, InUse, With
<1>5. InUse(n, With(X, f)) = InUse(m, X) \cup {f}
  BY <1>2 DEF InUse, With
<1>6. n.halted = FALSE => m.halted = FALSE
  BY <1>1, MemFields DEF SamePages
<1>7. Accounted(n, With(X, f))
  BY <1>1, <1>4, <1>5, <1>6 DEF Accounted
<1> QED BY <1>3, <1>7 DEF Good

(* Two numbers of one parity are not one apart.                            *)
LEMMA Parity ==
  ASSUME NEW a \in Nat, NEW b \in Nat, NEW c \in Nat,
         (a - c) % 2 = 0, (b - c) % 2 = 0, a < b
  PROVE  a + 2 <= b
<1>1. PICK p \in Int : p = (a - c) \div 2
  OBVIOUS
<1>2. PICK q \in Int : q = (b - c) \div 2
  OBVIOUS
<1>3. a - c = 2 * p /\ b - c = 2 * q
  BY <1>1, <1>2
<1> QED BY <1>3

(* The frames handed out from range i end where its next frame is.         *)
FrameOfRange(m, i, a) ==
  First(i) <= a /\ a < m.ranges[i].curr /\ (a - First(i)) % 2 = 0

(* The last range has no frame after its next one.                         *)
LastTaken(m) ==
  /\ m.cur = Len(m.ranges)
  /\ ~(m.ranges[m.cur].curr + PageSize < m.ranges[m.cur].end)

(***************************************************************************)
(* alloc_new_pf(): the frame was never handed out, and the system halts    *)
(* only when it is the last of the last range (mmu_driver.c:181-211).      *)
(***************************************************************************)
LEMMA NewFrame ==
  ASSUME NEW m, NEW X, Good(m, X), m.halted = FALSE,
         NEW got, got = alloc_new_pf(m)
  PROVE  /\ Good(got.mem, With(X, got.pf)) /\ got.pf \in Nat \ {Null}
         /\ got.pf \notin InUse(m, X) /\ got.pf = m.ranges[m.cur].curr
         /\ SamePages(m, got.mem) /\ got.mem.tables = m.tables
         /\ got.mem.halted => LastTaken(m)
<1> DEFINE c == m.cur
           f == m.ranges[c].curr
           used == [m EXCEPT !.ranges[c].curr = @ + PageSize]
<1>1. m \in Mem /\ RangesInv(m) /\ EntriesInv(m) /\ Accounted(m, X)
  BY DEF Good
<1>2. c \in DOMAIN Pool /\ m.ranges[c] \in Range /\ f \in Nat /\ c \in DOMAIN m.ranges
      /\ m.ranges \in Seq(Range) /\ c \in Nat
  BY <1>1, RangeFields, MemFields DEF RangesInv
<1>3. /\ First(c) \in Nat /\ Limit(c) \in Nat /\ 0 < First(c) /\ First(c) <= f /\ f < Limit(c)
      /\ (f - First(c)) % 2 = 0
  BY <1>1, <1>2, PoolFacts DEF RangesInv
<1>4. f # Null
  BY <1>3 DEF Null
<1>5. f \notin HandedOut(m)
  <2>1. ASSUME NEW i \in DOMAIN Pool, First(i) <= f, f < m.ranges[i].curr,
               (f - First(i)) % 2 = 0
        PROVE  FALSE
    <3>1. i # c
      BY <2>1, <1>2
    <3>2. PICK h \in Nat : h = m.ranges[i].curr
      BY <1>1, RangeFields
    <3>3. h < Limit(i) + 2 /\ First(i) \in Nat /\ Limit(i) \in Nat
          /\ (h - First(i)) % 2 = 0
      BY <1>1, <3>2, PoolFacts DEF RangesInv
    <3>4. f + 2 <= h
      <4> HIDE DEF f
      <4> QED BY <1>2, <2>1, <3>2, <3>3, Parity
    <3>5. Limit(i) <= First(c) \/ Limit(c) <= First(i)
      BY <1>2, <3>1, PoolFacts
    <3>6. PICK p \in Nat, q \in Nat, x \in Nat, y \in Nat :
            p = First(i) /\ q = Limit(i) /\ x = First(c) /\ y = Limit(c)
      BY <1>3, <3>3
    <3> HIDE DEF f, c
    <3>7. p <= f /\ x <= f /\ f < y
      BY <1>3, <2>1, <3>6
    <3>9. h \in Nat /\ f + 2 <= h /\ h < q + 2
      BY <3>2, <3>3, <3>4, <3>6
    <3>8. q <= x \/ y <= p
      BY <3>5, <3>6
    <3> QED BY <1>2, <3>7, <3>8, <3>9
  <2> QED BY <2>1 DEF HandedOut
<1>6. f \notin InUse(m, X)
  BY <1>1, <1>5 DEF Accounted
<1>7. /\ used \in Mem /\ used.ranges = [m.ranges EXCEPT ![c].curr = f + 2]
      /\ used.cur = m.cur /\ used.free = m.free /\ used.tables = m.tables
      /\ used.pte = m.pte /\ used.bank = m.bank /\ used.loaded = m.loaded
      /\ used.pml4 = m.pml4 /\ used.halted = FALSE
  <2>1. PICK g \in Nat : g = f + 2
    BY <1>2
  <2>2. PICK r \in Range : r = m.ranges[c]
    BY <1>2
  <2>3. [r EXCEPT !.curr = g] \in Range
    BY DEF Range
  <2>4. [m.ranges EXCEPT ![c] = [r EXCEPT !.curr = g]] \in Seq(Range)
    <3> HIDE DEF c
    <3> QED BY <1>2, <2>3
  <2>5. [m.ranges EXCEPT ![c].curr = f + 2] \in Seq(Range)
    BY <2>1, <2>2, <2>4
  <2>6. used = [m EXCEPT !.ranges = [m.ranges EXCEPT ![c].curr = f + 2]]
    BY <1>1, <1>2 DEF PageSize, Mem
  <2> HIDE DEF used, f, c
  <2> QED BY <1>1, <2>5, <2>6 DEF Mem, c
<1> DEFINE Advanced(n) ==
             /\ n.ranges = [m.ranges EXCEPT ![c].curr = f + 2]
             /\ n.cur \in DOMAIN Pool /\ n.cur \in {c, c + 1}
             /\ n.halted = FALSE => n.cur = c + 1 \/ f + 2 < Limit(c)
<1>8. ASSUME NEW n, Advanced(n)
      PROVE  RangesInv(n) /\ HandedOut(n) = HandedOut(m) \cup {f}
  <2>1. ASSUME NEW i \in DOMAIN Pool
        PROVE  /\ i # c => n.ranges[i] = m.ranges[i]
               /\ i = c => n.ranges[i].curr = f + 2
               /\ n.ranges[i].start = m.ranges[i].start /\ n.ranges[i].end = m.ranges[i].end
    <3>1. i \in DOMAIN m.ranges
      BY <1>1 DEF RangesInv
    <3>2. CASE i # c
      BY <1>8, <3>1, <3>2
    <3>3. CASE i = c
      <4>1. n.ranges[i] = [m.ranges[i] EXCEPT !.curr = f + 2]
        BY <1>8, <3>1, <3>3
      <4>2. m.ranges[i] \in Range
        BY <1>2, <3>3
      <4> HIDE DEF f, Advanced
      <4> QED BY <3>3, <4>1, <4>2 DEF Range
    <3> QED BY <3>2, <3>3
  <2>2. DOMAIN n.ranges = DOMAIN Pool
    BY <1>1, <1>8 DEF RangesInv
  <2>3. c + 1 \in DOMAIN Pool => First(c + 1) < Limit(c + 1) /\ m.ranges[c + 1].curr = First(c + 1)
    <3>1. c + 1 \in DOMAIN Pool => m.ranges[c + 1].curr = First(c + 1)
      BY <1>1, <1>2 DEF RangesInv
    <3> QED BY <3>1, PoolFacts
  <2>4. (f + 2 - First(c)) % 2 = 0
    <3>1. PICK a \in Nat, b \in Nat : a = f /\ b = First(c)
      BY <1>2, <1>3
    <3>2. (a - b) % 2 = 0
      BY <1>3, <3>1
    <3>3. (a + 2 - b) % 2 = 0
      BY <3>2
    <3> QED BY <3>1, <3>3
  <2>5. ASSUME NEW i \in DOMAIN Pool
        PROVE  /\ n.ranges[i].start = Pool[i].start /\ n.ranges[i].end = Limit(i)
               /\ First(i) <= n.ranges[i].curr /\ n.ranges[i].curr < Limit(i) + 2
               /\ (n.ranges[i].curr - First(i)) % 2 = 0
               /\ i > n.cur => n.ranges[i].curr = First(i)
    <3>1. n.ranges[i].start = Pool[i].start /\ n.ranges[i].end = Limit(i)
      BY <1>1, <2>1 DEF RangesInv
    <3>2. CASE i = c
      <4>1. n.ranges[i].curr = f + 2
        BY <2>1, <3>2
      <4>2. ~(i > n.cur)
        BY <1>2, <1>8, <3>2
      <4> HIDE DEF f, c
      <4> QED BY <1>2, <1>3, <2>4, <3>1, <3>2, <4>1, <4>2
    <3>3. CASE i # c
      <4>1. n.ranges[i] = m.ranges[i]
        BY <2>1, <3>3
      <4>2. i \in Nat /\ (i > n.cur => i > c)
        <5>1. i \in Nat /\ (n.cur = c \/ n.cur = c + 1)
          BY <1>8, PoolFacts
        <5> HIDE DEF c
        <5> QED BY <1>2, <5>1
      <4>3. /\ First(i) <= m.ranges[i].curr /\ m.ranges[i].curr < Limit(i) + 2
            /\ (m.ranges[i].curr - First(i)) % 2 = 0
            /\ i > m.cur => m.ranges[i].curr = First(i)
        BY <1>1 DEF RangesInv
      <4> QED BY <3>1, <4>1, <4>2, <4>3
    <3> QED BY <3>2, <3>3
  <2>6. n.halted = FALSE => n.ranges[n.cur].curr < Limit(n.cur)
    <3>1. CASE n.cur = c + 1
      <4>1. n.cur # c /\ n.ranges[n.cur] = m.ranges[n.cur]
        BY <1>2, <1>8, <2>1, <3>1
      <4> QED BY <1>8, <2>3, <3>1, <4>1
    <3>2. CASE n.cur = c /\ n.cur # c + 1
      BY <1>2, <1>8, <2>1, <3>2
    <3> QED BY <1>8, <3>1, <3>2
  <2>7. RangesInv(n)
    BY <1>8, <2>2, <2>5, <2>6 DEF RangesInv
  <2>8. ASSUME NEW a \in Nat, NEW i \in DOMAIN Pool, i # c
        PROVE  FrameOfRange(n, i, a) <=> FrameOfRange(m, i, a)
    BY <2>1, <2>8 DEF FrameOfRange
  <2>9. ASSUME NEW a \in Nat
        PROVE  FrameOfRange(n, c, a) <=> FrameOfRange(m, c, a) \/ a = f
    <3>1. n.ranges[c].curr = f + 2
      BY <1>2, <2>1
    <3> HIDE DEF f
    <3>2. ASSUME (a - First(c)) % 2 = 0, a < f + 2 PROVE a <= f
      <4>1. ~(f < a)
        BY <1>2, <1>3, <3>2, Parity
      <4> QED BY <1>2, <4>1
    <3> QED BY <1>2, <1>3, <3>1, <3>2 DEF FrameOfRange, f
  <2>10. \A a : a \in HandedOut(n) <=> a \in HandedOut(m) \/ a = f
    <3>1. \A a : a \in HandedOut(n) <=> a \in Nat /\ \E i \in DOMAIN Pool : FrameOfRange(n, i, a)
      BY DEF HandedOut, FrameOfRange
    <3>2. \A a : a \in HandedOut(m) <=> a \in Nat /\ \E i \in DOMAIN Pool : FrameOfRange(m, i, a)
      BY DEF HandedOut, FrameOfRange
    <3> HIDE DEF f, c, Advanced
    <3> QED BY <1>2, <2>8, <2>9, <3>1, <3>2
  <2> QED BY <2>7, <2>10
<1>9. /\ got.pf = f /\ got.mem \in Mem /\ Advanced(got.mem) /\ SamePages(m, got.mem)
      /\ got.mem.tables = m.tables /\ got.mem.free = m.free
      /\ got.mem.halted => c = Len(m.ranges) /\ ~(f + 2 < m.ranges[c].end)
  <2>1. m.ranges[c].end = Limit(c)
    BY <1>1, <1>2 DEF RangesInv
  <2>2. Len(m.ranges) = Len(Pool)
    BY <1>1, <1>2, PoolFacts DEF RangesInv
  <2> HIDE DEF f, used, Advanced
  <2>3. CASE f + 2 < Limit(c)
    <3>1. got = [pf |-> f, mem |-> used]
      BY <1>4, <2>1, <2>3 DEF alloc_new_pf, f, used, PageSize
    <3> QED BY <1>1, <1>2, <1>7, <2>3, <3>1, MemFields DEF SamePages, Advanced, RangesInv
  <2>4. CASE ~(f + 2 < Limit(c)) /\ c = Len(Pool)
    <3>1. got = [pf |-> f, mem |-> Halt(used)]
      BY <1>4, <2>1, <2>2, <2>4 DEF alloc_new_pf, f, used, PageSize
    <3>2. PICK h : h = Halt(used)
      OBVIOUS
    <3>3. h \in Mem /\ h.ranges = used.ranges /\ h.cur = c /\ h.free = m.free
          /\ h.tables = m.tables /\ h.pte = m.pte /\ h.bank = m.bank
          /\ h.loaded = m.loaded /\ h.pml4 = m.pml4 /\ h.halted = TRUE
      BY <1>7, <3>2 DEF Halt, Mem
    <3> QED BY <1>2, <1>7, <2>1, <2>2, <2>4, <3>1, <3>2, <3>3 DEF SamePages, Advanced
  <2>5. CASE ~(f + 2 < Limit(c)) /\ c # Len(Pool)
    <3>1. got = [pf |-> f, mem |-> [used EXCEPT !.cur = @ + 1]]
      BY <1>4, <2>1, <2>2, <2>5 DEF alloc_new_pf, f, used, PageSize
    <3>2. PICK h : h = [used EXCEPT !.cur = @ + 1]
      OBVIOUS
    <3>3. PICK d \in Nat : d = c + 1
      BY <1>2
    <3>4. h = [used EXCEPT !.cur = d]
      BY <1>7, <3>2, <3>3
    <3>5. h \in Mem /\ h.ranges = used.ranges /\ h.cur = d /\ h.free = m.free
          /\ h.tables = m.tables /\ h.pte = m.pte /\ h.bank = m.bank
          /\ h.loaded = m.loaded /\ h.pml4 = m.pml4 /\ h.halted = FALSE
      <4> HIDE DEF c
      <4> QED BY <1>7, <3>4 DEF Mem
    <3>6. d \in DOMAIN Pool
      BY <1>2, <2>5, <3>3, PoolFacts
    <3>7. Advanced(h)
      BY <1>7, <3>3, <3>5, <3>6 DEF Advanced
    <3>8. SamePages(m, h)
      BY <3>5 DEF SamePages
    <3>9. got.pf = f /\ got.mem = h
      BY <3>1, <3>2
    <3> QED BY <3>5, <3>7, <3>8, <3>9
  <2> QED BY <2>3, <2>4, <2>5
<1> HIDE DEF f, Advanced
<1>10. Good(got.mem, With(X, f))
  <2>1. RangesInv(got.mem) /\ HandedOut(got.mem) = HandedOut(m) \cup {f}
    BY <1>8, <1>9
  <2> QED BY <1>6, <1>9, <2>1, OneMore
<1>11. got.pf = m.ranges[m.cur].curr /\ (got.mem.halted => LastTaken(m))
  BY <1>9 DEF LastTaken, f, PageSize
<1> QED BY <1>2, <1>4, <1>6, <1>9, <1>10, <1>11

(* MMU_pf_alloc() gives a frame that was in nobody's use                   *)
(* (mmu_driver.c:829-845).                                                 *)
LEMMA FrameAllocated ==
  ASSUME NEW m, NEW X, Good(m, X), m.halted = FALSE,
         NEW got, got = MMU_pf_alloc(m)
  PROVE  /\ Good(got.mem, With(X, got.pf)) /\ got.pf \in Nat \ {Null}
         /\ got.pf \notin X
         /\ SamePages(m, got.mem) /\ got.mem.tables = m.tables
         /\ got.mem.halted => m.free = <<>> /\ LastTaken(m)
<1>1. m \in Mem /\ RangesInv(m) /\ EntriesInv(m) /\ Accounted(m, X)
  BY DEF Good
<1>2. CASE m.free = <<>>
  <2>1. got = alloc_new_pf(m)
    BY <1>2 DEF MMU_pf_alloc
  <2>2. got.pf \notin InUse(m, X)
    BY <2>1, NewFrame
  <2> QED BY <1>2, <2>1, <2>2, NewFrame DEF InUse
<1>3. CASE m.free # <<>>
  <2> DEFINE f == Head(m.free)
             n == [m EXCEPT !.free = Tail(m.free)]
  <2>1. got = [pf |-> f, mem |-> n]
    BY <1>3 DEF MMU_pf_alloc
  <2>2. PICK l \in Nat : m.free \in Seq(Nat) /\ Len(m.free) = l + 1 /\ DOMAIN m.free = 1..(l + 1)
    <3>1. m.free \in Seq(Nat) /\ Len(m.free) \in Nat /\ Len(m.free) # 0
          /\ DOMAIN m.free = 1..Len(m.free)
      BY <1>1, <1>3, MemFields
    <3>2. Len(m.free) - 1 \in Nat /\ (Len(m.free) - 1) + 1 = Len(m.free)
      BY <3>1
    <3> QED BY <3>1, <3>2
  <2>3. /\ Tail(m.free) \in Seq(Nat) /\ DOMAIN Tail(m.free) = 1..l
        /\ \A i \in 1..l : Tail(m.free)[i] = m.free[i + 1]
        /\ f = m.free[1] /\ f \in Nat
    BY <1>3, <2>2
  <2>4. /\ n \in Mem /\ n.ranges = m.ranges /\ n.cur = m.cur /\ n.free = Tail(m.free)
        /\ n.tables = m.tables /\ n.pte = m.pte /\ n.bank = m.bank
        /\ n.loaded = m.loaded /\ n.pml4 = m.pml4 /\ n.halted = FALSE
    <3> HIDE DEF f
    <3> QED BY <1>1, <2>3 DEF Mem
  <2> HIDE DEF n, f
  <2>5. /\ RangesInv(n) /\ EntriesInv(n) /\ HandedOut(n) = HandedOut(m)
        /\ TableFrames(n) = TableFrames(m) /\ PageFrames(n) = PageFrames(m)
        /\ PagesWithFrame(n) = PagesWithFrame(m)
    BY <1>1, <2>4 DEF RangesInv, EntriesInv, Allotted, HandedOut, TableFrames, PageFrames,
                      PagesWithFrame
  <2>6. \A i \in 1..l : i + 1 \in DOMAIN m.free /\ i + 1 # 1
    BY <2>2
  <2>7. \A i \in DOMAIN m.free : i # 1 => i - 1 \in 1..l /\ (i - 1) + 1 = i
    BY <2>2
  <2>8. 1 \in DOMAIN m.free
    BY <2>2
  <2>9. UsedOnce(m, X)
    BY <1>1 DEF Accounted
  <2>10. f \notin FreeFrames(n)
    <3>1. \A i \in DOMAIN m.free : m.free[i] = m.free[1] => i = 1
      BY <2>8, <2>9 DEF UsedOnce
    <3>2. \A i \in 1..l : m.free[i + 1] # f
      BY <2>3, <2>6, <3>1
    <3> QED BY <2>3, <2>4, <3>2 DEF FreeFrames
  <2>11. FreeFrames(m) = FreeFrames(n) \cup {f}
    <3>0. ASSUME NEW i \in DOMAIN m.free PROVE m.free[i] \in FreeFrames(n) \cup {f}
      <4>1. CASE i = 1
        BY <2>3, <4>1
      <4>2. CASE i # 1
        <5>1. i - 1 \in 1..l /\ n.free[i - 1] = m.free[i]
          BY <2>3, <2>4, <2>7, <4>2
        <5> QED BY <2>3, <2>4, <5>1 DEF FreeFrames
      <4> QED BY <4>1, <4>2
    <3>1. \A x \in FreeFrames(m) : x \in FreeFrames(n) \cup {f}
      BY <3>0 DEF FreeFrames
    <3>2. \A x \in FreeFrames(n) : x \in FreeFrames(m)
      BY <2>3, <2>4, <2>6 DEF FreeFrames
    <3>3. f \in FreeFrames(m)
      BY <2>3, <2>8 DEF FreeFrames
    <3> QED BY <3>1, <3>2, <3>3
  <2>12. UsedOnce(n, With(X, f))
    <3>1. \A i, j \in DOMAIN n.free : n.free[i] = n.free[j] => i = j
      <4>1. ASSUME NEW i \in 1..l, NEW j \in 1..l, Tail(m.free)[i] = Tail(m.free)[j]
            PROVE  i = j
        <5>1. m.free[i + 1] = m.free[j + 1]
          BY <2>3, <4>1
        <5>2. i + 1 = j + 1
          BY <2>6, <2>9, <5>1 DEF UsedOnce
        <5> QED BY <5>2
      <4> QED BY <2>3, <2>4, <4>1
    <3>2. Disjoint(TableFrames(n), PageFrames(n), FreeFrames(n), With(X, f))
      BY <2>5, <2>9, <2>10, <2>11 DEF UsedOnce, Disjoint, With
    <3> QED BY <2>4, <2>5, <2>9, <3>1, <3>2 DEF UsedOnce
  <2>13. InUse(n, With(X, f)) = InUse(m, X)
    BY <2>5, <2>11 DEF InUse, With
  <2>14. Good(n, With(X, f))
    <3>1. Accounted(n, With(X, f))
      BY <1>1, <2>4, <2>5, <2>12, <2>13 DEF Accounted
    <3> QED BY <2>4, <2>5, <3>1 DEF Good
  <2>15. f \notin X
    BY <2>9, <2>11 DEF UsedOnce, Disjoint
  <2>16. f # Null
    <3>1. f \in HandedOut(m)
      BY <1>1, <2>11 DEF Accounted, InUse
    <3>2. PICK i \in DOMAIN Pool : First(i) <= f
      BY <3>1 DEF HandedOut
    <3>3. First(i) \in Nat /\ 0 < First(i)
      BY PoolFacts
    <3> QED BY <2>3, <3>2, <3>3 DEF Null
  <2> QED BY <2>1, <2>3, <2>4, <2>14, <2>15, <2>16 DEF SamePages
<1> QED BY <1>2, <1>3
-----------------------------------------------------------------------------
(* Tables: a value put in a partial function leaves one.                   *)
LEMMA PutType ==
  ASSUME NEW D, NEW S, NEW f \in Partial(D, S), NEW x \in D, NEW y \in S
  PROVE  Put(f, x, y) \in Partial(D, S)
<1>1. PICK E \in SUBSET D : f \in [E -> S]
  BY DEF Partial
<1>2. Put(f, x, y) \in [E \cup {x} -> S]
  BY <1>1 DEF Put
<1>3. E \cup {x} \in SUBSET D
  OBVIOUS
<1> QED BY <1>2, <1>3 DEF Partial

(***************************************************************************)
(* alloc_table_entry(): the table is there, or the system has halted; one  *)
(* that was there is left as it was (mmu_driver.c:214-225).                *)
(***************************************************************************)
LEMMA TableEntry ==
  ASSUME NEW m, NEW X, Good(m, X), NEW t \in TableNames,
         NEW n, n = alloc_table_entry(m, t)
  PROVE  /\ Good(n, X) /\ SamePages(m, n)
         /\ t \in DOMAIN m.tables => n = m
         /\ n.halted \/ t \in DOMAIN n.tables
<1> DEFINE got == MMU_pf_alloc(m)
           put == [got.mem EXCEPT !.tables = Put(@, t, got.pf)]
<1>1. m.halted \in BOOLEAN
  BY MemFields DEF Good
<1>2. CASE m.halted = TRUE \/ t \in DOMAIN m.tables
  <2>1. n = m
    BY <1>2 DEF alloc_table_entry
  <2> QED BY <1>2, <2>1 DEF SamePages
<1>3. CASE m.halted = FALSE /\ t \notin DOMAIN m.tables
  <2>1. /\ Good(got.mem, With(X, got.pf)) /\ got.pf \in Nat \ {Null} /\ got.pf \notin X
        /\ SamePages(m, got.mem) /\ got.mem.tables = m.tables
    BY <1>3, FrameAllocated
  <2> HIDE DEF got
  <2>2. n = IF got.mem.halted \/ ~Accessible(got.mem, got.pf) THEN Halt(got.mem) ELSE put
    BY <1>3 DEF alloc_table_entry, got
  <2>3. CASE n = Halt(got.mem)
    <3>1. Good(n, X) /\ SamePages(got.mem, n) /\ n.halted = TRUE
      BY <2>1, <2>3, HaltDrops
    <3> QED BY <1>3, <2>1, <3>1 DEF SamePages
  <2>4. CASE n = put
    <3> DEFINE k == got.mem
               f == got.pf
    <3>1. /\ k \in Mem /\ RangesInv(k) /\ EntriesInv(k) /\ Accounted(k, With(X, f))
      BY <2>1 DEF Good
    <3>2. Put(k.tables, t, f) \in Partial(TableNames, Nat)
      BY <2>1, <3>1, MemFields, PutType
    <3> HIDE DEF f, k
    <3>3. /\ n \in Mem /\ n.ranges = k.ranges /\ n.cur = k.cur /\ n.free = k.free
          /\ n.tables = Put(k.tables, t, f) /\ n.pte = k.pte /\ n.bank = k.bank
          /\ n.loaded = k.loaded /\ n.pml4 = k.pml4 /\ n.halted = k.halted
      <4>1. n = [k EXCEPT !.tables = Put(k.tables, t, f)]
        BY <2>4 DEF k, f
      <4> QED BY <3>1, <3>2, <4>1 DEF Mem
    <3>4. /\ RangesInv(n) /\ EntriesInv(n) /\ HandedOut(n) = HandedOut(k)
          /\ PageFrames(n) = PageFrames(k) /\ PagesWithFrame(n) = PagesWithFrame(k)
          /\ FreeFrames(n) = FreeFrames(k)
      BY <3>1, <3>3 DEF RangesInv, EntriesInv, Allotted, HandedOut, PageFrames,
                        PagesWithFrame, FreeFrames
    <3>5. /\ DOMAIN n.tables = DOMAIN k.tables \cup {t} /\ n.tables[t] = f
          /\ \A z \in DOMAIN k.tables : n.tables[z] = k.tables[z]
          /\ t \notin DOMAIN k.tables /\ k.tables = m.tables
      BY <1>3, <2>1, <3>3 DEF k, Put
    <3>6. TableFrames(n) = TableFrames(k) \cup {f}
      BY <3>5 DEF TableFrames
    <3>7. UsedOnce(k, With(X, f)) /\ f \notin TableFrames(k) /\ f \notin X
      BY <2>1, <3>1 DEF Accounted, UsedOnce, Disjoint, f, With
    <3>8. UsedOnce(n, X)
      <4>1. \A a, b \in DOMAIN n.tables : n.tables[a] = n.tables[b] => a = b
        BY <3>5, <3>7 DEF UsedOnce, TableFrames
      <4>2. Disjoint(TableFrames(n), PageFrames(n), FreeFrames(n), X)
        BY <3>4, <3>6, <3>7 DEF UsedOnce, Disjoint, With
      <4> QED BY <3>3, <3>4, <3>7, <4>1, <4>2 DEF UsedOnce
    <3>9. InUse(n, X) = InUse(k, With(X, f))
      BY <3>4, <3>6 DEF InUse, With
    <3>10. Accounted(n, X)
      BY <3>1, <3>3, <3>4, <3>8, <3>9 DEF Accounted
    <3>11. Good(n, X)
      BY <3>3, <3>4, <3>10 DEF Good
    <3>12. SamePages(k, n)
      BY <3>3, <3>5 DEF SamePages
    <3> QED BY <1>3, <2>1, <3>5, <3>11, <3>12 DEF SamePages, k
  <2> QED BY <2>2, <2>3, <2>4
<1> QED BY <1>1, <1>2, <1>3

(* Tables are named by the prefixes of the page numbers below them. *)
LEMMA TableNamed ==
  ASSUME NEW v \in Nat, NEW level \in 1..3
  PROVE  Table(level, v) \in TableNames
  BY DEF TableNames

Way(v) == {Table(3, v), Table(2, v), Table(1, v)}

(* The tables on the way to a page, from the top: they are there then, or   *)
(* the system has halted; nothing happens when they were.                   *)
LEMMA Tables ==
  ASSUME NEW m, NEW X, Good(m, X), NEW v \in Nat, NEW n, n = get_pt_entry(m, v)
  PROVE  /\ Good(n, X) /\ SamePages(m, n)
         /\ Way(v) \subseteq DOMAIN m.tables => n = m
         /\ n.halted \/ Way(v) \subseteq DOMAIN n.tables
<1>0. PICK r, s, t : r = Table(3, v) /\ s = Table(2, v) /\ t = Table(1, v)
  OBVIOUS
<1>1. PICK a : a = alloc_table_entry(m, r)
  OBVIOUS
<1>2. PICK b : b = alloc_table_entry(a, s)
  OBVIOUS
<1>3. n = alloc_table_entry(b, t)
  BY <1>0, <1>1, <1>2 DEF get_pt_entry
<1>4. r \in TableNames /\ s \in TableNames /\ t \in TableNames /\ Way(v) = {r, s, t}
  BY <1>0, TableNamed DEF Way
<1>5. /\ Good(a, X) /\ SamePages(m, a)
      /\ r \in DOMAIN m.tables => a = m
      /\ a.halted \/ r \in DOMAIN a.tables
  BY <1>1, <1>4, TableEntry
<1>6. /\ Good(b, X) /\ SamePages(a, b)
      /\ s \in DOMAIN a.tables => b = a
      /\ b.halted \/ s \in DOMAIN b.tables
  BY <1>2, <1>4, <1>5, TableEntry
<1>7. /\ Good(n, X) /\ SamePages(b, n)
      /\ t \in DOMAIN b.tables => n = b
      /\ n.halted \/ t \in DOMAIN n.tables
  BY <1>3, <1>4, <1>6, TableEntry
<1>8. SamePages(m, n)
  BY <1>5, <1>6, <1>7 DEF SamePages
<1>9. Way(v) \subseteq DOMAIN m.tables => n = m
  BY <1>4, <1>5, <1>6, <1>7
<1>10. n.halted \/ Way(v) \subseteq DOMAIN n.tables
  BY <1>4, <1>5, <1>6, <1>7 DEF SamePages
<1> QED BY <1>7, <1>8, <1>9, <1>10
-----------------------------------------------------------------------------
(* Entries.                                                                *)
LEMMA EntriesChange ==
  ASSUME NEW m, NEW X, NEW Y, Good(m, X), NEW n \in Mem,
         n.ranges = m.ranges, n.cur = m.cur, n.free = m.free, n.tables = m.tables,
         n.halted = m.halted, EntriesInv(n),
         \A v, w \in PagesWithFrame(n) : n.pte[v].frame = n.pte[w].frame => v = w,
         Disjoint(TableFrames(n), PageFrames(n), FreeFrames(n), Y),
         PageFrames(n) \cup Y = PageFrames(m) \cup X
  PROVE  Good(n, Y)
<1>1. m \in Mem /\ RangesInv(m) /\ Accounted(m, X)
  BY DEF Good
<1>2. /\ RangesInv(n) /\ HandedOut(n) = HandedOut(m)
      /\ TableFrames(n) = TableFrames(m) /\ FreeFrames(n) = FreeFrames(m)
  BY <1>1 DEF RangesInv, HandedOut, TableFrames, FreeFrames
<1>3. UsedOnce(n, Y)
  BY <1>1 DEF Accounted, UsedOnce
<1>4. InUse(n, Y) = InUse(m, X)
  BY <1>2 DEF InUse
<1> QED BY <1>1, <1>2, <1>3, <1>4 DEF Good, Accounted

(* An entry has its types, and its frame is in use when it is present. *)
LEMMA EntryFacts ==
  ASSUME NEW m, NEW X, Good(m, X), NEW v
  PROVE  /\ Entry(m, v) \in EntryType
         /\ Entry(m, v).present \in BOOLEAN /\ Entry(m, v).frame \in Nat
         /\ v \in DOMAIN m.pte => Entry(m, v) = m.pte[v] /\ m.pte[v] \in EntryType
         /\ v \notin DOMAIN m.pte => Entry(m, v) = NoEntry
         /\ Entry(m, v).frame # Null => v \in DOMAIN m.pte /\ m.pte[v].present = TRUE
         /\ Entry(m, v).present => v \in DOMAIN m.pte
<1>1. m.pte \in Partial(Nat, EntryType)
  BY MemFields DEF Good
<1>2. PICK E \in SUBSET Nat : m.pte \in [E -> EntryType]
  BY <1>1 DEF Partial
<1>3. NoEntry \in EntryType /\ NoEntry.frame = Null /\ NoEntry.present = FALSE
  BY DEF NoEntry, EntryType, Null
<1>4. v \in DOMAIN m.pte => m.pte[v] \in EntryType
  BY <1>2
<1>5. Entry(m, v) \in EntryType
  BY <1>3, <1>4 DEF Entry
<1>6. v \in DOMAIN m.pte => m.pte[v].present = TRUE \/ m.pte[v].frame = Null
  BY DEF Good, EntriesInv
<1>7. Entry(m, v).present \in BOOLEAN /\ Entry(m, v).frame \in Nat
  BY <1>5 DEF EntryType
<1> QED BY <1>3, <1>4, <1>5, <1>6, <1>7 DEF Entry

(* Setting an entry.                                                       *)
LEMMA SetFacts ==
  ASSUME NEW m, NEW X, Good(m, X), NEW v \in Nat, NEW e \in EntryType,
         NEW n, n = SetEntry(m, v, e)
  PROVE  /\ n \in Mem /\ n.ranges = m.ranges /\ n.cur = m.cur /\ n.free = m.free
         /\ n.tables = m.tables /\ n.bank = m.bank /\ n.loaded = m.loaded
         /\ n.pml4 = m.pml4 /\ n.halted = m.halted
         /\ DOMAIN n.pte = DOMAIN m.pte \cup {v} /\ n.pte[v] = e
         /\ \A w \in DOMAIN m.pte : w # v => n.pte[w] = m.pte[w]
         /\ TableFrames(n) = TableFrames(m) /\ FreeFrames(n) = FreeFrames(m)
<1>1. m \in Mem
  BY DEF Good
<1>2. PICK g : g = Put(m.pte, v, e)
  OBVIOUS
<1>3. g \in Partial(Nat, EntryType)
  BY <1>1, <1>2, MemFields, PutType
<1>4. n = [m EXCEPT !.pte = g]
  BY <1>2 DEF SetEntry
<1>5. /\ n \in Mem /\ n.ranges = m.ranges /\ n.cur = m.cur /\ n.free = m.free
      /\ n.tables = m.tables /\ n.bank = m.bank /\ n.loaded = m.loaded
      /\ n.pml4 = m.pml4 /\ n.halted = m.halted /\ n.pte = g
  <2> HIDE DEF EntryType
  <2> QED BY <1>1, <1>3, <1>4 DEF Mem
<1>6. DOMAIN g = DOMAIN m.pte \cup {v} /\ g[v] = e
      /\ \A w \in DOMAIN m.pte : w # v => g[w] = m.pte[w]
  BY <1>2 DEF Put
<1> QED BY <1>5, <1>6 DEF TableFrames, FreeFrames

(* What becomes of the entries: only that of page v changes.               *)
OnlyEntry(m, n, v) ==
  /\ DOMAIN m.pte \subseteq DOMAIN n.pte \cup {v} /\ DOMAIN n.pte \subseteq DOMAIN m.pte \cup {v}
  /\ \A w \in DOMAIN m.pte : w # v => n.pte[w] = m.pte[w]

(* The page is reached: the tables on its way are there, and its entry says *)
(* that it is present or allocated on demand.                              *)
Reached(m, v) ==
  /\ Way(v) \subseteq DOMAIN m.tables /\ v \in DOMAIN m.pte
  /\ m.pte[v].present = TRUE \/ m.pte[v].alloc = TRUE

Present(m, v) == v \in DOMAIN m.pte /\ m.pte[v].present = TRUE

(***************************************************************************)
(* map_page(): the frame becomes that of the page, or the system halts     *)
(* (mmu_driver.c:287-313).                                                 *)
(***************************************************************************)
LEMMA MapPage ==
  ASSUME NEW X, NEW v \in Nat, v > MapInit
  PROVE  \A m, f, n :
           (/\ f \in Nat /\ f \notin X /\ Good(m, With(X, f)) /\ Allotted(m, v)
            /\ n = map_page(m, f, v)) =>
             /\ Good(n, X) /\ n.bank = m.bank /\ n.loaded = m.loaded /\ n.pml4 = m.pml4
             /\ OnlyEntry(m, n, v) /\ DOMAIN m.tables \subseteq DOMAIN n.tables
             /\ n.pte = m.pte \/ (~Entry(m, v).present /\ Present(n, v))
<1> SUFFICES ASSUME NEW m, NEW f, NEW n, f \in Nat, f \notin X, Good(m, With(X, f)),
                    Allotted(m, v), n = map_page(m, f, v)
             PROVE  /\ Good(n, X) /\ n.bank = m.bank /\ n.loaded = m.loaded /\ n.pml4 = m.pml4
                    /\ OnlyEntry(m, n, v) /\ DOMAIN m.tables \subseteq DOMAIN n.tables
                    /\ n.pte = m.pte \/ (~Entry(m, v).present /\ Present(n, v))
  OBVIOUS
<1> DEFINE e == [present |-> TRUE, alloc |-> FALSE, frame |-> f]
<1>1. PICK got : got = get_pt_entry(m, v)
  OBVIOUS
<1>2. Good(got, With(X, f)) /\ SamePages(m, got)
  BY <1>1, Tables
<1>3. /\ n = Halt(m) \/ n = Halt(got) \/ n = SetEntry(got, v, e)
      /\ n = SetEntry(got, v, e) \/ n = Halt(got) \/ n = Halt(m)
      /\ n # Halt(m) /\ n # Halt(got) => ~Entry(got, v).present
  BY <1>1 DEF map_page
<1>4. CASE n = Halt(m)
  <2>1. Good(Halt(m), X) /\ SamePages(m, Halt(m))
    BY HaltDrops
  <2> QED BY <1>4, <2>1 DEF SamePages, OnlyEntry
<1>5. CASE n = Halt(got)
  <2>1. Good(Halt(got), X) /\ SamePages(got, Halt(got))
    BY <1>2, HaltDrops
  <2> QED BY <1>2, <1>5, <2>1 DEF SamePages, OnlyEntry
<1>6. CASE n = SetEntry(got, v, e) /\ ~Entry(got, v).present
  <2>1. e \in EntryType
    BY DEF EntryType
  <2>2. e.present = TRUE /\ e.frame = f
    OBVIOUS
  <2> HIDE DEF e
  <2>3. /\ n \in Mem /\ n.ranges = got.ranges /\ n.cur = got.cur /\ n.free = got.free
        /\ n.tables = got.tables /\ n.bank = got.bank /\ n.loaded = got.loaded
        /\ n.pml4 = got.pml4 /\ n.halted = got.halted
        /\ DOMAIN n.pte = DOMAIN got.pte \cup {v} /\ n.pte[v] = e
        /\ \A w \in DOMAIN got.pte : w # v => n.pte[w] = got.pte[w]
        /\ TableFrames(n) = TableFrames(got) /\ FreeFrames(n) = FreeFrames(got)
    BY <1>2, <1>6, <2>1, SetFacts
  <2>4. v \notin PagesWithFrame(got)
    BY <1>6 DEF Entry, PagesWithFrame
  <2>5. PagesWithFrame(n) = PagesWithFrame(got) \cup {v}
    BY <2>2, <2>3, <2>4 DEF PagesWithFrame
  <2>6. \A w \in PagesWithFrame(got) : n.pte[w].frame = got.pte[w].frame
    BY <2>3, <2>4 DEF PagesWithFrame
  <2>7. PageFrames(n) = PageFrames(got) \cup {f}
    BY <2>2, <2>3, <2>5, <2>6 DEF PageFrames
  <2>8. UsedOnce(got, With(X, f)) /\ EntriesInv(got)
    BY <1>2 DEF Good, Accounted
  <2>9. \A w \in PagesWithFrame(got) : got.pte[w].frame # f
    BY <2>8 DEF UsedOnce, Disjoint, PageFrames, With
  <2>10. \A u, w \in PagesWithFrame(n) : n.pte[u].frame = n.pte[w].frame => u = w
    BY <2>2, <2>3, <2>5, <2>6, <2>8, <2>9 DEF UsedOnce
  <2>11. Disjoint(TableFrames(n), PageFrames(n), FreeFrames(n), X)
    BY <2>3, <2>7, <2>8 DEF UsedOnce, Disjoint, With
  <2>12. EntriesInv(n)
    <3>1. Allotted(n, v) /\ \A w : Allotted(got, w) => Allotted(n, w)
      BY <1>2, <2>3 DEF Allotted, SamePages
    <3> QED BY <2>2, <2>3, <2>8, <3>1 DEF EntriesInv
  <2>13. Good(n, X)
    <3>1. PageFrames(n) \cup X = PageFrames(got) \cup With(X, f)
      BY <2>7 DEF With
    <3> QED BY <1>2, <2>3, <2>10, <2>11, <2>12, <3>1, EntriesChange
  <2>14. Entry(m, v).present = FALSE
    <3>1. Entry(m, v) = Entry(got, v)
      BY <1>2 DEF Entry, SamePages
    <3> QED BY <1>2, <1>6, <3>1, EntryFacts
  <2>15. Present(n, v)
    BY <2>2, <2>3 DEF Present
  <2> QED BY <1>2, <2>3, <2>13, <2>14, <2>15 DEF OnlyEntry, SamePages
<1> QED BY <1>3, <1>4, <1>5, <1>6

(* The pages that are mapped one to one have frames of no one's.           *)
LEMMA MapIdentity ==
  ASSUME NEW m, NEW X, Good(m, X), NEW f \in Nat, NEW v \in Nat, v <= MapInit,
         NEW n, n = map_page(m, f, v)
  PROVE  Good(n, X) /\ n.bank = m.bank /\ n.pml4 = m.pml4
<1> DEFINE e == [present |-> TRUE, alloc |-> FALSE, frame |-> f]
<1>1. PICK got : got = get_pt_entry(m, v)
  OBVIOUS
<1>2. Good(got, X) /\ SamePages(m, got)
  BY <1>1, Tables
<1>3. n = Halt(m) \/ n = Halt(got) \/ n = SetEntry(got, v, e)
  BY <1>1 DEF map_page
<1>4. CASE n = Halt(m)
  BY <1>4, HaltStays DEF SamePages
<1>5. CASE n = Halt(got)
  BY <1>2, <1>5, HaltStays DEF SamePages
<1>6. CASE n = SetEntry(got, v, e)
  <2>1. e \in EntryType
    BY DEF EntryType
  <2>2. e.present = TRUE
    OBVIOUS
  <2> HIDE DEF e
  <2>3. /\ n \in Mem /\ n.ranges = got.ranges /\ n.cur = got.cur /\ n.free = got.free
        /\ n.tables = got.tables /\ n.bank = got.bank /\ n.loaded = got.loaded
        /\ n.pml4 = got.pml4 /\ n.halted = got.halted
        /\ DOMAIN n.pte = DOMAIN got.pte \cup {v} /\ n.pte[v] = e
        /\ \A w \in DOMAIN got.pte : w # v => n.pte[w] = got.pte[w]
        /\ TableFrames(n) = TableFrames(got) /\ FreeFrames(n) = FreeFrames(got)
    BY <1>2, <1>6, <2>1, SetFacts
  <2>4. ~(v > MapInit)
    BY PagingAssumption
  <2>5. PagesWithFrame(n) = PagesWithFrame(got)
    BY <2>3, <2>4 DEF PagesWithFrame
  <2>6. \A w \in PagesWithFrame(got) : n.pte[w].frame = got.pte[w].frame
    BY <2>3, <2>4 DEF PagesWithFrame
  <2>7. PageFrames(n) = PageFrames(got)
    BY <2>5, <2>6 DEF PageFrames
  <2>8. UsedOnce(got, X) /\ EntriesInv(got)
    BY <1>2 DEF Good, Accounted
  <2>9. \A u, w \in PagesWithFrame(n) : n.pte[u].frame = n.pte[w].frame => u = w
    BY <2>5, <2>6, <2>8 DEF UsedOnce
  <2>10. Disjoint(TableFrames(n), PageFrames(n), FreeFrames(n), X)
    BY <2>3, <2>7, <2>8 DEF UsedOnce
  <2>11. EntriesInv(n)
    <3>1. \A w : Allotted(got, w) => Allotted(n, w)
      BY <2>3 DEF Allotted
    <3> QED BY <2>2, <2>3, <2>8, <3>1 DEF EntriesInv
  <2>12. Good(n, X)
    <3>1. PageFrames(n) \cup X = PageFrames(got) \cup X
      BY <2>7
    <3> QED BY <1>2, <2>3, <2>9, <2>10, <2>11, <3>1, EntriesChange
  <2> QED BY <1>2, <2>3, <2>12 DEF SamePages
<1> QED BY <1>3, <1>4, <1>5, <1>6
-----------------------------------------------------------------------------
(* The free list.                                                          *)
LEMMA OnFreeList ==
  ASSUME NEW m, NEW X, NEW f \in Nat, Good(m, With(X, f)), f \notin X,
         NEW n, n = [m EXCEPT !.free = <<f>> \o @]
  PROVE  Good(n, X) /\ SamePages(m, n) /\ n.halted = m.halted
<1>1. m \in Mem /\ RangesInv(m) /\ EntriesInv(m) /\ Accounted(m, With(X, f))
  BY DEF Good
<1>2. PICK s : s = <<f>> \o m.free
  OBVIOUS
<1>3. /\ m.free \in Seq(Nat) /\ Len(m.free) \in Nat /\ DOMAIN m.free = 1..Len(m.free)
      /\ s \in Seq(Nat) /\ DOMAIN s = 1..(Len(m.free) + 1) /\ s[1] = f
      /\ \A i \in 1..Len(m.free) : s[i + 1] = m.free[i]
  BY <1>1, <1>2, MemFields
<1>4. /\ n \in Mem /\ n.ranges = m.ranges /\ n.cur = m.cur /\ n.free = s
      /\ n.tables = m.tables /\ n.pte = m.pte /\ n.bank = m.bank
      /\ n.loaded = m.loaded /\ n.pml4 = m.pml4 /\ n.halted = m.halted
  <2>1. n = [m EXCEPT !.free = s]
    BY <1>2
  <2> QED BY <1>1, <1>3, <2>1 DEF Mem
<1>5. /\ RangesInv(n) /\ EntriesInv(n) /\ HandedOut(n) = HandedOut(m)
      /\ TableFrames(n) = TableFrames(m) /\ PageFrames(n) = PageFrames(m)
      /\ PagesWithFrame(n) = PagesWithFrame(m)
  BY <1>1, <1>4 DEF RangesInv, EntriesInv, Allotted, HandedOut, TableFrames, PageFrames,
                    PagesWithFrame
<1>6. \A i \in DOMAIN s : i = 1 \/ (i - 1 \in 1..Len(m.free) /\ s[i] = m.free[i - 1])
  <2>1. \A i \in DOMAIN s : i = 1 \/ (i - 1 \in 1..Len(m.free) /\ (i - 1) + 1 = i)
    BY <1>3
  <2> QED BY <1>3, <2>1
<1>7. \A i \in 1..Len(m.free) : i + 1 \in DOMAIN s
  <2>1. ASSUME NEW j \in Nat, NEW i \in 1..j PROVE i + 1 \in 1..(j + 1)
    OBVIOUS
  <2> QED BY <1>3, <2>1
<1>8. FreeFrames(n) = FreeFrames(m) \cup {f}
  <2>0. ASSUME NEW i \in DOMAIN s PROVE s[i] \in FreeFrames(m) \cup {f}
    <3>1. CASE i = 1
      BY <1>3, <3>1
    <3>2. CASE i # 1
      BY <1>3, <1>6, <3>2 DEF FreeFrames
    <3> QED BY <3>1, <3>2
  <2>1. \A x \in FreeFrames(n) : x \in FreeFrames(m) \cup {f}
    BY <1>4, <2>0 DEF FreeFrames
  <2>2. ASSUME NEW x \in FreeFrames(m) PROVE x \in FreeFrames(n)
    <3>1. PICK i \in DOMAIN m.free : x = m.free[i]
      BY DEF FreeFrames
    <3>2. i + 1 \in DOMAIN s /\ s[i + 1] = x
      BY <1>3, <1>7, <3>1
    <3> QED BY <1>4, <3>2 DEF FreeFrames
  <2>3. f \in FreeFrames(n)
    <3>1. 1 \in DOMAIN s
      BY <1>3
    <3> QED BY <1>3, <1>4, <3>1 DEF FreeFrames
  <2> QED BY <2>1, <2>2, <2>3
<1>9. UsedOnce(m, With(X, f)) /\ f \notin FreeFrames(m)
  BY <1>1 DEF Accounted, UsedOnce, Disjoint, With
<1>10. UsedOnce(n, X)
  <2>1. ASSUME NEW i \in DOMAIN s, NEW j \in DOMAIN s, s[i] = s[j] PROVE i = j
    <3>1. \A k \in 1..Len(m.free) : m.free[k] # f
      BY <1>3, <1>9 DEF FreeFrames
    <3>2. CASE i = 1 \/ j = 1
      BY <1>3, <1>6, <2>1, <3>1, <3>2
    <3>3. CASE i # 1 /\ j # 1
      <4>0. /\ i - 1 \in DOMAIN m.free /\ j - 1 \in DOMAIN m.free
            /\ m.free[i - 1] = m.free[j - 1]
        BY <1>3, <1>6, <2>1, <3>3
      <4>1. i - 1 = j - 1
        BY <1>9, <4>0 DEF UsedOnce
      <4>2. i \in Int /\ j \in Int
        BY <1>3
      <4> QED BY <4>1, <4>2
    <3> QED BY <3>2, <3>3
  <2>2. Disjoint(TableFrames(n), PageFrames(n), FreeFrames(n), X)
    BY <1>5, <1>8, <1>9 DEF UsedOnce, Disjoint, With
  <2>3. /\ \A v, w \in DOMAIN m.tables : m.tables[v] = m.tables[w] => v = w
        /\ \A v, w \in PagesWithFrame(m) : m.pte[v].frame = m.pte[w].frame => v = w
    BY <1>9 DEF UsedOnce
  <2>4. \A i, j \in DOMAIN n.free : n.free[i] = n.free[j] => i = j
    BY <1>4, <2>1
  <2>5. /\ \A v, w \in DOMAIN n.tables : n.tables[v] = n.tables[w] => v = w
        /\ \A v, w \in PagesWithFrame(n) : n.pte[v].frame = n.pte[w].frame => v = w
    <3>1. n.tables = m.tables /\ n.pte = m.pte /\ PagesWithFrame(n) = PagesWithFrame(m)
      BY <1>4, <1>5
    <3>2. ASSUME NEW v \in DOMAIN n.tables, NEW w \in DOMAIN n.tables, n.tables[v] = n.tables[w]
          PROVE  v = w
      BY <2>3, <3>1, <3>2
    <3>3. ASSUME NEW v \in PagesWithFrame(n), NEW w \in PagesWithFrame(n),
                 n.pte[v].frame = n.pte[w].frame
          PROVE  v = w
      BY <2>3, <3>1, <3>3
    <3> QED BY <3>2, <3>3
  <2> QED BY <2>2, <2>4, <2>5 DEF UsedOnce
<1>11. InUse(n, X) = InUse(m, With(X, f))
  BY <1>5, <1>8 DEF InUse, With
<1>12. Accounted(n, X)
  BY <1>1, <1>4, <1>5, <1>10, <1>11 DEF Accounted
<1> QED BY <1>4, <1>5, <1>12 DEF Good, SamePages

(* MMU_pf_free() of a frame in use makes it free (mmu_driver.c:848-868). *)
LEMMA PfFreed ==
  ASSUME NEW m, NEW X, NEW f \in Nat, Good(m, With(X, f)), f \notin X,
         NEW n, n = MMU_pf_free(m, f)
  PROVE  Good(n, X) /\ SamePages(m, n)
<1>1. CASE n = Halt(m)
  BY <1>1, HaltDrops
<1>2. CASE n = [m EXCEPT !.free = <<f>> \o @]
  BY <1>2, OnFreeList
<1> QED BY <1>1, <1>2 DEF MMU_pf_free

(***************************************************************************)
(* page_fault_irq(): the page gets a frame, other pages keep theirs        *)
(* (mmu_driver.c:677-769).                                                 *)
(***************************************************************************)
LEMMA FaultServed ==
  ASSUME NEW m, NEW X, Good(m, X), NEW v \in Nat, v > MapInit, Allotted(m, v),
         NEW n, n = page_fault_irq(m, v)
  PROVE  /\ Good(n, X) /\ n.bank = m.bank /\ n.loaded = m.loaded /\ n.pml4 = m.pml4
         /\ OnlyEntry(m, n, v) /\ DOMAIN m.tables \subseteq DOMAIN n.tables
         /\ n.pte = m.pte \/ (~Entry(m, v).present /\ Present(n, v))
<1>1. PICK got : got = get_pt_entry(m, v)
  OBVIOUS
<1>2. PICK new : new = MMU_pf_alloc(got)
  OBVIOUS
<1>3. Good(got, X) /\ SamePages(m, got) /\ got.halted \in BOOLEAN
  <2>1. Good(got, X) /\ SamePages(m, got)
    BY <1>1, Tables
  <2> QED BY <2>1, MemFields DEF Good
<1>4. \/ n = Halt(got)
      \/ ~got.halted /\ new.mem.halted /\ n = new.mem
      \/ ~got.halted /\ ~new.mem.halted /\ n = map_page(new.mem, new.pf, v)
  BY <1>1, <1>2 DEF page_fault_irq
<1>5. CASE n = Halt(got)
  BY <1>3, <1>5, HaltStays DEF SamePages, OnlyEntry
<1>6. ASSUME ~got.halted
      PROVE  /\ Good(new.mem, With(X, new.pf)) /\ new.pf \in Nat /\ new.pf \notin X
             /\ SamePages(got, new.mem) /\ new.mem.halted \in BOOLEAN
  <2>1. got.halted = FALSE
    BY <1>3, <1>6
  <2>2. /\ Good(new.mem, With(X, new.pf)) /\ new.pf \in Nat /\ new.pf \notin X
        /\ SamePages(got, new.mem)
    BY <1>2, <1>3, <2>1, FrameAllocated
  <2> QED BY <2>2, MemFields DEF Good
<1>7. CASE ~got.halted /\ new.mem.halted /\ n = new.mem
  <2>1. new.mem.halted = TRUE
    BY <1>6, <1>7
  <2>2. Good(n, X)
    BY <1>6, <1>7, <2>1, HaltDrops
  <2> QED BY <1>3, <1>6, <1>7, <2>2 DEF SamePages, OnlyEntry
<1>8. CASE ~got.halted /\ ~new.mem.halted /\ n = map_page(new.mem, new.pf, v)
  <2>1. PICK k, f : k = new.mem /\ f = new.pf
    OBVIOUS
  <2>2. /\ Good(k, With(X, f)) /\ f \in Nat /\ f \notin X
        /\ k.pte = m.pte /\ k.bank = m.bank /\ k.loaded = m.loaded /\ k.pml4 = m.pml4
        /\ DOMAIN m.tables \subseteq DOMAIN k.tables
    BY <1>3, <1>6, <1>8, <2>1 DEF SamePages
  <2>3. Allotted(k, v)
    BY <2>2 DEF Allotted
  <2>4. /\ Good(n, X) /\ n.bank = k.bank /\ n.loaded = k.loaded /\ n.pml4 = k.pml4
        /\ OnlyEntry(k, n, v) /\ DOMAIN k.tables \subseteq DOMAIN n.tables
        /\ n.pte = k.pte \/ (~Entry(k, v).present /\ Present(n, v))
    <3>1. n = map_page(k, f, v)
      BY <1>8, <2>1
    <3> QED BY <2>2, <2>3, <3>1, MapPage
  <2> QED BY <2>2, <2>4 DEF OnlyEntry, Entry
<1> QED BY <1>4, <1>5, <1>7, <1>8

(***************************************************************************)
(* MMU_alloc_page(): a page that has no entry yet gets one, and the region *)
(* goes on behind it (mmu_driver.c:871-889).                               *)
(***************************************************************************)
LEMMA BankFacts ==
  ASSUME NEW m, NEW X, Good(m, X), NEW r \in Regions,
         m.bank[r] + 1 <= RegionStart[r] + MaxPages
  PROVE  /\ m.bank[r] \in Nat /\ RegionStart[r] \in Nat
         /\ m.bank[r] > MapInit /\ m.bank[r] \notin DOMAIN m.pte
<1>1. m.bank \in [Regions -> Nat] /\ EntriesInv(m)
  BY MemFields DEF Good
<1>2. \A s \in Regions : RegionStart[s] \in Nat /\ RegionStart[s] > MapInit
  BY PagingAssumption
<1>3. MapInit \in Nat /\ MaxPages \in Nat
  BY PagingAssumption, MmuAssumption
<1>4. \A s \in Regions : m.bank[s] \in Nat /\ RegionStart[s] <= m.bank[s]
                         /\ m.bank[s] <= RegionStart[s] + MaxPages
  BY <1>1 DEF EntriesInv
<1>5. m.bank[r] > MapInit
  BY <1>2, <1>3, <1>4
<1>6. ASSUME NEW s \in Regions, RegionStart[s] <= m.bank[r], m.bank[r] < m.bank[s]
      PROVE  FALSE
  <2>1. s # r
    BY <1>4, <1>6
  <2>2. \/ RegionStart[r] + MaxPages <= RegionStart[s]
        \/ RegionStart[s] + MaxPages <= RegionStart[r]
    BY <2>1, MmuAssumption
  <2> QED BY <1>2, <1>3, <1>4, <1>6, <2>2
<1>7. ~Allotted(m, m.bank[r])
  BY <1>6 DEF Allotted
<1>8. ~(m.bank[r] <= MapInit)
  BY <1>3, <1>4, <1>5
<1> QED BY <1>1, <1>2, <1>4, <1>5, <1>7, <1>8 DEF EntriesInv

PageGiven(m, n, r) ==
  n.bank = [m.bank EXCEPT ![r] = m.bank[r] + 1] /\ Reached(n, m.bank[r])

(* MMU_alloc_page() below the limit of its region gives the next page of   *)
(* it.                                                                     *)
LEMMA PageAllocated ==
  ASSUME NEW X, NEW r \in Regions
  PROVE  \A m, n :
           (/\ Good(m, X) /\ m.bank[r] + 1 <= RegionStart[r] + MaxPages
            /\ n = MMU_alloc_page(m, r)) =>
             /\ Good(n, X) /\ n.loaded = m.loaded /\ n.pml4 = m.pml4
             /\ \A w \in DOMAIN m.pte : w \in DOMAIN n.pte /\ n.pte[w] = m.pte[w]
             /\ m.halted => n.halted
             /\ DOMAIN m.tables \subseteq DOMAIN n.tables
             /\ (n.halted /\ n.bank = m.bank) \/ PageGiven(m, n, r)
<1> SUFFICES ASSUME NEW m, NEW n, Good(m, X), m.bank[r] + 1 <= RegionStart[r] + MaxPages,
                    n = MMU_alloc_page(m, r)
             PROVE  /\ Good(n, X) /\ n.loaded = m.loaded /\ n.pml4 = m.pml4
                    /\ \A w \in DOMAIN m.pte : w \in DOMAIN n.pte /\ n.pte[w] = m.pte[w]
                    /\ m.halted => n.halted
                    /\ DOMAIN m.tables \subseteq DOMAIN n.tables
                    /\ (n.halted /\ n.bank = m.bank) \/ PageGiven(m, n, r)
  OBVIOUS
<1> DEFINE v == m.bank[r]
           e == [present |-> FALSE, alloc |-> TRUE, frame |-> Null]
<1>1. v \in Nat /\ v > MapInit /\ v \notin DOMAIN m.pte /\ RegionStart[r] \in Nat
  BY BankFacts
<1>2. PICK got : got = get_pt_entry(m, v)
  OBVIOUS
<1>3. Good(got, X) /\ SamePages(m, got) /\ got.halted \in BOOLEAN
  <2>1. Good(got, X) /\ SamePages(m, got)
    BY <1>1, <1>2, Tables
  <2> QED BY <2>1, MemFields DEF Good
<1>4. Entry(got, v) = NoEntry
  BY <1>1, <1>3 DEF Entry, SamePages
<1>5. e = [Entry(got, v) EXCEPT !.alloc = TRUE, !.present = FALSE]
  <2>1. PICK no, yes : no = FALSE /\ yes = TRUE
    OBVIOUS
  <2>2. NoEntry = [present |-> no, alloc |-> no, frame |-> Null]
    BY <2>1 DEF NoEntry
  <2>3. PICK x : x = [NoEntry EXCEPT !.alloc = yes]
    OBVIOUS
  <2>4. x = [present |-> no, alloc |-> yes, frame |-> Null]
    BY <2>2, <2>3
  <2>5. [x EXCEPT !.present = no] = [present |-> no, alloc |-> yes, frame |-> Null]
    BY <2>4
  <2> QED BY <1>4, <2>1, <2>3, <2>5
<1>6. CASE got.halted = TRUE
  <2>1. n = got
    BY <1>2, <1>6 DEF MMU_alloc_page
  <2> QED BY <1>3, <1>6, <2>1 DEF SamePages
<1>7. CASE got.halted = FALSE
  <2>1. PICK k : k = SetEntry(got, v, e)
    OBVIOUS
  <2>2. n = [k EXCEPT !.bank[r] = @ + 1]
    BY <1>2, <1>5, <1>7, <2>1 DEF MMU_alloc_page
  <2>3. e \in EntryType /\ e.present = FALSE /\ e.alloc = TRUE /\ e.frame = Null
    BY DEF EntryType, Null
  <2> HIDE DEF e
  <2>4. /\ k \in Mem /\ k.ranges = got.ranges /\ k.cur = got.cur /\ k.free = got.free
        /\ k.tables = got.tables /\ k.bank = got.bank /\ k.loaded = got.loaded
        /\ k.pml4 = got.pml4 /\ k.halted = got.halted
        /\ DOMAIN k.pte = DOMAIN got.pte \cup {v} /\ k.pte[v] = e
        /\ \A w \in DOMAIN got.pte : w # v => k.pte[w] = got.pte[w]
        /\ TableFrames(k) = TableFrames(got) /\ FreeFrames(k) = FreeFrames(got)
    BY <1>1, <1>3, <2>1, <2>3, SetFacts
  <2>5. k.bank = m.bank /\ m.bank \in [Regions -> Nat] /\ got.pte = m.pte
    BY <1>3, <2>4, MemFields DEF SamePages, Good
  <2> HIDE DEF v
  <2>6. PICK b \in [Regions -> Nat] : b = [m.bank EXCEPT ![r] = v + 1]
    <3>1. PICK w \in Nat : w = v + 1
      BY <1>1
    <3>2. [m.bank EXCEPT ![r] = w] \in [Regions -> Nat]
      BY <2>5
    <3> QED BY <3>1, <3>2
  <2>7. /\ n \in Mem /\ n.ranges = got.ranges /\ n.cur = got.cur /\ n.free = got.free
        /\ n.tables = got.tables /\ n.bank = b /\ n.loaded = got.loaded
        /\ n.pml4 = got.pml4 /\ n.halted = got.halted /\ n.pte = k.pte
    <3>1. n = [k EXCEPT !.bank = b]
      BY <2>2, <2>4, <2>5, <2>6 DEF v, Mem
    <3> QED BY <2>4, <2>6, <3>1 DEF Mem
  <2>8. /\ b[r] = v + 1 /\ v = m.bank[r]
        /\ \A s \in Regions : s # r => b[s] = m.bank[s]
    BY <2>5, <2>6 DEF v
  <2>9. \A w \in DOMAIN got.pte : w # v
    BY <1>1, <2>5
  <2>10. PagesWithFrame(n) = PagesWithFrame(got)
    BY <2>3, <2>4, <2>7, <2>9 DEF PagesWithFrame
  <2>11. \A w \in PagesWithFrame(got) : n.pte[w].frame = got.pte[w].frame
    BY <2>4, <2>7, <2>9 DEF PagesWithFrame
  <2>12. PageFrames(n) = PageFrames(got)
    BY <2>10, <2>11 DEF PageFrames
  <2>13. UsedOnce(got, X) /\ EntriesInv(got)
    BY <1>3 DEF Good, Accounted
  <2>14. TableFrames(n) = TableFrames(got) /\ FreeFrames(n) = FreeFrames(got)
    BY <2>7 DEF TableFrames, FreeFrames
  <2>15. Disjoint(TableFrames(n), PageFrames(n), FreeFrames(n), X)
    BY <2>12, <2>13, <2>14 DEF UsedOnce
  <2>16. \A u, w \in PagesWithFrame(n) : n.pte[u].frame = n.pte[w].frame => u = w
    BY <2>10, <2>11, <2>13 DEF UsedOnce
  <2>17. \A s \in Regions : /\ RegionStart[s] \in Nat /\ m.bank[s] \in Nat
                            /\ RegionStart[s] <= m.bank[s]
                            /\ m.bank[s] <= RegionStart[s] + MaxPages
    BY <1>3, <2>5, <2>13, PagingAssumption DEF EntriesInv, SamePages
  <2>18. EntriesInv(n)
    <3>1. \A s \in Regions : RegionStart[s] <= b[s] /\ b[s] <= RegionStart[s] + MaxPages
      BY <1>1, <2>8, <2>17
    <3>2. Allotted(n, v)
      <4>1. RegionStart[r] <= v /\ v < b[r]
        BY <1>1, <2>8, <2>17
      <4> QED BY <2>7, <4>1 DEF Allotted
    <3>3. ASSUME NEW w \in DOMAIN got.pte, Allotted(got, w) PROVE Allotted(n, w)
      <4>1. got.pte \in Partial(Nat, EntryType)
        BY <1>3, MemFields DEF Good
      <4>2. w \in Nat
        BY <4>1 DEF Partial
      <4>3. PICK s \in Regions : RegionStart[s] <= w /\ w < m.bank[s]
        BY <1>3, <3>3 DEF Allotted, SamePages
      <4>4. w < b[s]
        BY <1>1, <2>8, <2>17, <4>2, <4>3
      <4> QED BY <2>7, <4>3, <4>4 DEF Allotted
    <3>4. \A w \in DOMAIN n.pte : w <= MapInit \/ Allotted(n, w)
      BY <2>4, <2>7, <2>13, <3>2, <3>3 DEF EntriesInv
    <3>5. \A w \in DOMAIN n.pte : n.pte[w].present = TRUE \/ n.pte[w].frame = Null
      BY <2>3, <2>4, <2>7, <2>9, <2>13 DEF EntriesInv
    <3> QED BY <2>7, <3>1, <3>4, <3>5 DEF EntriesInv
  <2>19. Good(n, X)
    <3>1. PageFrames(n) \cup X = PageFrames(got) \cup X
      BY <2>12
    <3> QED BY <1>3, <2>7, <2>15, <2>16, <2>18, <3>1, EntriesChange
  <2>20. Reached(n, v)
    <3>1. Way(v) \subseteq DOMAIN got.tables
      BY <1>1, <1>2, <1>7, Tables
    <3> QED BY <2>3, <2>4, <2>7, <3>1 DEF Reached
  <2> QED BY <1>3, <1>7, <2>4, <2>5, <2>6, <2>7, <2>9, <2>19, <2>20 DEF SamePages, PageGiven, v
<1> QED BY <1>3, <1>6, <1>7

(***************************************************************************)
(* MMU_free_page(): the entry is gone, and its frame is on the free list   *)
(* (mmu_driver.c:907-926).                                                 *)
(***************************************************************************)
Without(m, v) == [m EXCEPT !.pte = [w \in DOMAIN @ \ {v} |-> @[w]]]

(* An entry set to zero gives its frame to the caller. *)
LEMMA EntryRemoved ==
  ASSUME NEW m, NEW X, Good(m, X), NEW v \in PagesWithFrame(m),
         NEW n, n = Without(m, v)
  PROVE  /\ Good(n, With(X, m.pte[v].frame)) /\ m.pte[v].frame \in Nat
         /\ m.pte[v].frame \notin X
         /\ DOMAIN n.pte = DOMAIN m.pte \ {v}
         /\ \A w \in DOMAIN m.pte : w # v => n.pte[w] = m.pte[w]
         /\ n.bank = m.bank /\ n.loaded = m.loaded /\ n.pml4 = m.pml4
         /\ n.halted = m.halted /\ n.free = m.free /\ n.tables = m.tables
<1> DEFINE f == m.pte[v].frame
<1>1. m \in Mem /\ EntriesInv(m) /\ UsedOnce(m, X)
  BY DEF Good, Accounted
<1>2. PICK g : g = [w \in DOMAIN m.pte \ {v} |-> m.pte[w]]
  OBVIOUS
<1>3. g \in Partial(Nat, EntryType)
  <2>1. PICK E \in SUBSET Nat : m.pte \in [E -> EntryType]
    BY <1>1, MemFields DEF Partial
  <2>2. g \in [E \ {v} -> EntryType]
    BY <1>2, <2>1
  <2>3. E \ {v} \in SUBSET Nat
    OBVIOUS
  <2> QED BY <2>2, <2>3 DEF Partial
<1>4. /\ n \in Mem /\ n.ranges = m.ranges /\ n.cur = m.cur /\ n.free = m.free
      /\ n.tables = m.tables /\ n.bank = m.bank /\ n.loaded = m.loaded
      /\ n.pml4 = m.pml4 /\ n.halted = m.halted /\ n.pte = g
  <2>1. n = [m EXCEPT !.pte = g]
    BY <1>2 DEF Without
  <2> HIDE DEF EntryType
  <2> QED BY <1>1, <1>3, <2>1 DEF Mem
<1>5. DOMAIN n.pte = DOMAIN m.pte \ {v} /\ \A w \in DOMAIN m.pte : w # v => n.pte[w] = m.pte[w]
  BY <1>2, <1>4
<1>6. PagesWithFrame(n) = PagesWithFrame(m) \ {v}
  BY <1>5 DEF PagesWithFrame
<1>7. \A w \in PagesWithFrame(n) : n.pte[w].frame = m.pte[w].frame
  BY <1>5, <1>6 DEF PagesWithFrame
<1>8. PageFrames(m) = PageFrames(n) \cup {f} /\ f \notin PageFrames(n)
  <2>1. \A w \in PagesWithFrame(n) : m.pte[w].frame # f
    BY <1>1, <1>6 DEF UsedOnce
  <2> QED BY <1>6, <1>7, <2>1 DEF PageFrames
<1>9. TableFrames(n) = TableFrames(m) /\ FreeFrames(n) = FreeFrames(m)
  BY <1>4 DEF TableFrames, FreeFrames
<1>10. Disjoint(TableFrames(n), PageFrames(n), FreeFrames(n), With(X, f))
  BY <1>1, <1>8, <1>9 DEF UsedOnce, Disjoint, With
<1>11. \A u, w \in PagesWithFrame(n) : n.pte[u].frame = n.pte[w].frame => u = w
  BY <1>1, <1>6, <1>7 DEF UsedOnce
<1>12. EntriesInv(n)
  BY <1>1, <1>4, <1>5 DEF EntriesInv, Allotted
<1>13. Good(n, With(X, f))
  <2> HIDE DEF f
  <2>1. PageFrames(n) \cup With(X, f) = PageFrames(m) \cup X
    BY <1>8 DEF With
  <2> QED BY <1>4, <1>10, <1>11, <1>12, <2>1, EntriesChange
<1>14. f \notin X
  BY <1>1, <1>8 DEF UsedOnce, Disjoint
<1>15. f \in Nat
  <2>1. v \in DOMAIN m.pte
    BY DEF PagesWithFrame
  <2> QED BY <2>1, EntryFacts
<1> QED BY <1>4, <1>5, <1>13, <1>14, <1>15

(* MMU_free_page() returns the frame of the page (mmu_driver.c:907-926). *)
LEMMA PageFreed ==
  ASSUME NEW m, NEW X, Good(m, X), NEW v \in Nat, v > MapInit,
         NEW n, n = MMU_free_page(m, v)
  PROVE  /\ Good(n, X) /\ n.bank = m.bank /\ n.loaded = m.loaded /\ n.pml4 = m.pml4
         /\ OnlyEntry(m, n, v) /\ DOMAIN m.tables \subseteq DOMAIN n.tables
<1>1. PICK got : got = get_pt_entry(m, v)
  OBVIOUS
<1>2. Good(got, X) /\ SamePages(m, got) /\ got.halted \in BOOLEAN
  <2>1. Good(got, X) /\ SamePages(m, got)
    BY <1>1, Tables
  <2> QED BY <2>1, MemFields DEF Good
<1>3. PICK f : f = Entry(got, v).frame
  OBVIOUS
<1> DEFINE freed == MMU_pf_free(got, f)
<1>4. n = IF got.halted THEN got ELSE IF freed.halted THEN freed ELSE Without(freed, v)
  BY <1>1, <1>3 DEF MMU_free_page, Without
<1>5. freed = Halt(got) \/ (f # Null /\ freed = [got EXCEPT !.free = <<f>> \o @])
  BY DEF MMU_pf_free
<1> HIDE DEF freed
<1>6. CASE n = got
  BY <1>2, <1>6 DEF SamePages, OnlyEntry
<1>7. Halt(got).halted = TRUE
  BY <1>2, HaltKeeps
<1>8. CASE n = Halt(got)
  BY <1>2, <1>8, HaltStays DEF SamePages, OnlyEntry
<1>9. CASE got.halted = FALSE /\ f # Null /\ freed = [got EXCEPT !.free = <<f>> \o @]
  <2>1. v \in DOMAIN got.pte /\ got.pte[v].present = TRUE /\ f = got.pte[v].frame
    BY <1>2, <1>3, <1>9, EntryFacts
  <2>2. v \in PagesWithFrame(got)
    BY <2>1 DEF PagesWithFrame
  <2>3. PICK k : k = Without(got, v)
    OBVIOUS
  <2>4. /\ Good(k, With(X, f)) /\ f \in Nat /\ f \notin X
        /\ DOMAIN k.pte = DOMAIN got.pte \ {v}
        /\ \A w \in DOMAIN got.pte : w # v => k.pte[w] = got.pte[w]
        /\ k.bank = got.bank /\ k.loaded = got.loaded /\ k.pml4 = got.pml4
        /\ k.halted = got.halted /\ k.free = got.free /\ k.tables = got.tables
    <3>2. /\ Good(k, With(X, got.pte[v].frame)) /\ got.pte[v].frame \in Nat
          /\ got.pte[v].frame \notin X
          /\ DOMAIN k.pte = DOMAIN got.pte \ {v}
          /\ \A w \in DOMAIN got.pte : w # v => k.pte[w] = got.pte[w]
          /\ k.bank = got.bank /\ k.loaded = got.loaded /\ k.pml4 = got.pml4
          /\ k.halted = got.halted /\ k.free = got.free /\ k.tables = got.tables
      BY <1>2, <2>2, <2>3, EntryRemoved
    <3> QED BY <2>1, <3>2
  <2>5. PICK p : p = [k EXCEPT !.free = <<f>> \o @]
    OBVIOUS
  <2>6. Good(p, X) /\ SamePages(k, p)
    BY <2>4, <2>5, OnFreeList
  <2>7. p = Without(freed, v)
    <3>1. got \in Mem
      BY <1>2 DEF Good
    <3> QED BY <1>9, <2>3, <2>5, <3>1 DEF Without, Mem
  <2>8. freed.halted = FALSE
    <3>1. freed.halted = got.halted
      BY <1>9
    <3> QED BY <1>9, <3>1
  <2>9. n = p
    BY <1>4, <1>9, <2>7, <2>8
  <2> QED BY <1>2, <2>4, <2>6, <2>9 DEF SamePages, OnlyEntry
<1> QED BY <1>2, <1>4, <1>5, <1>6, <1>7, <1>8, <1>9

(* MMU_free_pages() of the two pages a caller frees at once.               *)
LEMMA TwoFreed ==
  ASSUME NEW m, NEW v
  PROVE  MMU_free_pages(m, v, 2) =
           LET a == IF m.halted THEN m ELSE MMU_free_page(m, v + 1 - 1)
           IN  IF a.halted THEN a ELSE MMU_free_page(a, v + 2 - 1)
<1> DEFINE a == IF m.halted THEN m ELSE MMU_free_page(m, v + 1 - 1)
           b == IF a.halted THEN a ELSE MMU_free_page(a, v + 2 - 1)
           After(f) == [i \in 0..2 |->
             IF i = 0 THEN m
             ELSE IF f[i - 1].halted THEN f[i - 1] ELSE MMU_free_page(f[i - 1], v + i - 1)]
           after == CHOOSE f : f = After(f)
<1>1. MMU_free_pages(m, v, 2) = after[2]
  BY DEF MMU_free_pages
<1>2. PICK f : f = [i \in 0..2 |-> IF i = 0 THEN m ELSE IF i = 1 THEN a ELSE b]
  OBVIOUS
<1>3. f[0] = m /\ f[1] = a /\ f[2] = b
  <2> HIDE DEF a, b
  <2> QED BY <1>2
<1>4. f = After(f)
  <2>1. \A i \in 0..2 : i = 0 \/ (i = 1 /\ i - 1 = 0) \/ (i = 2 /\ i - 1 = 1)
    OBVIOUS
  <2>2. /\ a = IF f[0].halted THEN f[0] ELSE MMU_free_page(f[0], v + 1 - 1)
        /\ b = IF f[1].halted THEN f[1] ELSE MMU_free_page(f[1], v + 2 - 1)
    BY <1>3
  <2> HIDE DEF a, b
  <2> QED BY <1>2, <1>3, <2>1, <2>2
<1>5. after = After(after)
  BY <1>4
<1> HIDE DEF after, a, b
<1>6. after[0] = m
  BY <1>5
<1>7. after[1] = IF after[0].halted THEN after[0] ELSE MMU_free_page(after[0], v + 1 - 1)
  <2>1. 1 \in 0..2 /\ 1 # 0 /\ 1 - 1 = 0
    OBVIOUS
  <2> QED BY <1>5, <2>1
<1>8. after[2] = IF after[1].halted THEN after[1] ELSE MMU_free_page(after[1], v + 2 - 1)
  <2>1. 2 \in 0..2 /\ 2 # 0 /\ 2 - 1 = 1
    OBVIOUS
  <2> QED BY <1>5, <2>1
<1> QED BY <1>1, <1>6, <1>7, <1>8 DEF a

(* MMU_free_pages() returns the frames of two pages                        *)
(* (mmu_driver.c:928-939).                                                 *)
LEMMA PagesFreed ==
  ASSUME NEW m, NEW X, Good(m, X), NEW v \in Nat, v > MapInit,
         NEW n, n = MMU_free_pages(m, v, 2)
  PROVE  /\ Good(n, X) /\ n.bank = m.bank /\ n.loaded = m.loaded /\ n.pml4 = m.pml4
         /\ \A w : w # v /\ w # v + 1 => Entry(n, w) = Entry(m, w)
         /\ \A w : w # v /\ w # v + 1 /\ Reached(m, w) => Reached(n, w)
<1>1. PICK a : a = IF m.halted THEN m ELSE MMU_free_page(m, v)
  OBVIOUS
<1>2. n = IF a.halted THEN a ELSE MMU_free_page(a, v + 1)
  <2>1. v + 1 - 1 = v /\ v + 2 - 1 = v + 1
    OBVIOUS
  <2> QED BY <1>1, <2>1, TwoFreed
<1>3. /\ Good(a, X) /\ a.bank = m.bank /\ a.loaded = m.loaded /\ a.pml4 = m.pml4
      /\ OnlyEntry(m, a, v) /\ DOMAIN m.tables \subseteq DOMAIN a.tables
  BY <1>1, PageFreed DEF OnlyEntry
<1>4. v + 1 \in Nat /\ v + 1 > MapInit
  BY PagingAssumption
<1>5. /\ Good(n, X) /\ n.bank = a.bank /\ n.loaded = a.loaded /\ n.pml4 = a.pml4
      /\ OnlyEntry(a, n, v + 1) /\ DOMAIN a.tables \subseteq DOMAIN n.tables
  BY <1>2, <1>3, <1>4, PageFreed DEF OnlyEntry
<1>6. ASSUME NEW w, w # v, w # v + 1 PROVE Entry(n, w) = Entry(m, w)
  BY <1>3, <1>5, <1>6 DEF Entry, OnlyEntry
<1>7. ASSUME NEW w, w # v, w # v + 1, Reached(m, w) PROVE Reached(n, w)
  <2>1. w \in DOMAIN a.pte /\ a.pte[w] = m.pte[w]
    BY <1>3, <1>7 DEF Reached, OnlyEntry
  <2>2. w \in DOMAIN n.pte /\ n.pte[w] = a.pte[w]
    BY <1>5, <1>7, <2>1 DEF OnlyEntry
  <2> QED BY <1>3, <1>5, <1>7, <2>1, <2>2 DEF Reached
<1> QED BY <1>3, <1>5, <1>6, <1>7

(***************************************************************************)
(* MMU_alloc_pages(), kbrk() and sbrk(): page after page until the system  *)
(* halts (mmu_driver.c:892-905).                                           *)
(***************************************************************************)
LEMMA PagesAllocated ==
  ASSUME NEW m, NEW X, Good(m, X), NEW r \in Regions, NEW num \in Nat,
         m.bank[r] + num <= RegionStart[r] + MaxPages,
         NEW n, n = MMU_alloc_pages(m, num, r)
  PROVE  /\ Good(n, X) /\ n.loaded = m.loaded /\ n.pml4 = m.pml4
         /\ \A w \in DOMAIN m.pte : w \in DOMAIN n.pte /\ n.pte[w] = m.pte[w]
         /\ \A s \in Regions : m.bank[s] <= n.bank[s]
         /\ \A w : Reached(m, w) => Reached(n, w)
         /\ \A w \in m.bank[r] .. (n.bank[r] - 1) : Reached(n, w)
<1> DEFINE Call(x) == IF x.halted THEN x ELSE MMU_alloc_page(x, r)
           Works(x) == Good(x, X) /\ x.bank[r] + 1 <= RegionStart[r] + MaxPages
           After(f) == [i \in 0..num |-> IF i = 0 THEN m ELSE Call(f[i - 1])]
           after == CHOOSE f : f = After(f)
           Step == [k \in 0..num |-> [x \in Mem |-> IF Works(x) THEN Call(x) ELSE x]]
           Loop(g) == /\ g[0] = m
                      /\ \A i \in 1..num : Works(g[i - 1]) => g[i] = Call(g[i - 1])
           Fine(x, i) ==
             /\ Good(x, X) /\ x.loaded = m.loaded /\ x.pml4 = m.pml4
             /\ \A w \in DOMAIN m.pte : w \in DOMAIN x.pte /\ x.pte[w] = m.pte[w]
             /\ \A s \in Regions : m.bank[s] <= x.bank[s]
             /\ x.bank[r] <= m.bank[r] + i
             /\ \A w : Reached(m, w) => Reached(x, w)
             /\ \A w \in m.bank[r] .. (x.bank[r] - 1) : Reached(x, w)
<1>1. n = after[num]
  BY DEF MMU_alloc_pages
<1>2. \A x, s : Good(x, X) /\ s \in Regions => x.bank[s] \in Nat /\ x.bank \in [Regions -> Nat]
  BY MemFields DEF Good
<1>3. RegionStart[r] \in Nat /\ MaxPages \in Nat
  BY PagingAssumption, MmuAssumption
<1>4. ASSUME NEW x, NEW i \in Nat, Fine(x, i), Works(x) PROVE Fine(Call(x), i + 1)
  <2>1. x.halted \in BOOLEAN
    BY <1>4, MemFields DEF Good
  <2>2. CASE x.halted = TRUE
    <3>1. Call(x) = x
      BY <2>2
    <3>2. x.bank[r] <= m.bank[r] + (i + 1)
      BY <1>2, <1>4
    <3> HIDE DEF Call
    <3> QED BY <1>4, <3>1, <3>2
  <2>3. CASE x.halted = FALSE
    <3>1. PICK y : y = Call(x) /\ y = MMU_alloc_page(x, r)
      BY <2>3
    <3> HIDE DEF Call
    <3>2. /\ Good(y, X) /\ y.loaded = x.loaded /\ y.pml4 = x.pml4
          /\ \A w \in DOMAIN x.pte : w \in DOMAIN y.pte /\ y.pte[w] = x.pte[w]
          /\ DOMAIN x.tables \subseteq DOMAIN y.tables
          /\ \/ y.halted /\ y.bank = x.bank
             \/ y.bank = [x.bank EXCEPT ![r] = x.bank[r] + 1] /\ Reached(y, x.bank[r])
      <4>1. Good(x, X) /\ x.bank[r] + 1 <= RegionStart[r] + MaxPages
            /\ y = MMU_alloc_page(x, r)
        BY <1>4, <3>1
      <4>2. /\ Good(y, X) /\ y.loaded = x.loaded /\ y.pml4 = x.pml4
            /\ \A w \in DOMAIN x.pte : w \in DOMAIN y.pte /\ y.pte[w] = x.pte[w]
            /\ DOMAIN x.tables \subseteq DOMAIN y.tables
            /\ (y.halted /\ y.bank = x.bank) \/ PageGiven(x, y, r)
        <5> HIDE DEF Works, Fine, Loop
        <5> QED BY <4>1, PageAllocated
      <4> HIDE DEF Works, Fine, Loop
      <4> QED BY <4>2 DEF PageGiven
    <3>3. /\ \A s \in Regions : x.bank[s] <= y.bank[s] /\ y.bank[s] \in Nat
          /\ y.bank[r] <= x.bank[r] + 1
      BY <1>2, <1>4, <3>2
    <3>4. \A s \in Regions : m.bank[s] <= y.bank[s]
      BY <1>2, <1>4, <3>3
    <3>5. y.bank[r] <= m.bank[r] + (i + 1)
      BY <1>2, <1>4, <3>3
    <3>6. \A w : Reached(x, w) => Reached(y, w)
      BY <3>2 DEF Reached
    <3>7. ASSUME NEW w \in m.bank[r] .. (y.bank[r] - 1) PROVE Reached(y, w)
      <4>1. x.bank[r] \in Nat /\ m.bank[r] \in Nat /\ y.bank[r] \in Nat
        BY <1>2, <1>4, <3>2
      <4>2. w \in m.bank[r] .. (x.bank[r] - 1) \/ (w = x.bank[r] /\ y.bank[r] # x.bank[r])
        BY <3>3, <4>1
      <4> QED BY <1>4, <3>2, <3>6, <4>2
    <3> QED BY <1>4, <3>1, <3>2, <3>4, <3>5, <3>6, <3>7
  <2> QED BY <2>1, <2>2, <2>3
<1>5. Fine(m, 0)
  <2>1. \A w \in m.bank[r] .. (m.bank[r] - 1) : Reached(m, w)
    <3>1. m.bank[r] \in Nat
      BY <1>2
    <3> QED BY <3>1
  <2> QED BY <1>2, <2>1
<1>6. ASSUME NEW x, NEW i \in 0..(num - 1), Fine(x, i) PROVE Works(x)
  BY <1>2, <1>3, <1>6
<1> HIDE DEF Call, Works, Fine
<1>7. ASSUME NEW g, Loop(g) PROVE \A i \in 0..num : Fine(g[i], i)
  <2> DEFINE T == {i \in 0..num : Fine(g[i], i)}
  <2>1. 0 \in T
    BY <1>5, <1>7
  <2>2. ASSUME NEW i \in 0..(num - 1), i \in T PROVE i + 1 \in T
    <3>1. i + 1 \in 1..num /\ (i + 1) - 1 = i /\ i + 1 \in 0..num /\ i \in Nat
      OBVIOUS
    <3>2. Works(g[i])
      BY <1>6, <2>2
    <3>3. g[i + 1] = Call(g[i])
      BY <1>7, <3>1, <3>2
    <3> QED BY <1>4, <2>2, <3>1, <3>2, <3>3
  <2>3. 0 \in Int /\ num \in Int
    OBVIOUS
  <2> HIDE DEF T
  <2>4. \A i \in 0..num : i \in T
    BY <2>1, <2>2, <2>3, IntervalInduction
  <2> QED BY <2>4 DEF T
<1>8. ASSUME NEW x, Works(x) PROVE Call(x) \in Mem
  <2>1. Good(x, X) /\ x.bank[r] + 1 <= RegionStart[r] + MaxPages
    BY <1>8 DEF Works
  <2>2. Good(Call(x), X)
    BY <2>1, PageAllocated DEF Call
  <2> QED BY <2>2 DEF Good
<1>9. PICK f : Follows(f, 0, num, Mem, m, Step)
  <2>1. Stepwise(Step, 0, num, Mem)
    <3>1. ASSUME NEW k \in (0 + 1)..num, NEW x \in Mem PROVE Step[k][x] \in Mem
      <4>1. k \in 0..num
        OBVIOUS
      <4>2. Step[k][x] = IF Works(x) THEN Call(x) ELSE x
        BY <4>1
      <4> HIDE DEF Step
      <4> QED BY <1>8, <4>2
    <3> HIDE DEF Step
    <3> QED BY <3>1 DEF Stepwise
  <2>2. 0 \in Int /\ num \in Int /\ 0 <= num /\ m \in Mem
    BY DEF Good
  <2> HIDE DEF Step
  <2> QED BY <2>1, <2>2, PrimitiveRecursion
<1>10. /\ f \in [0..num -> Mem] /\ f[0] = m
       /\ \A i \in 1..num : f[i] = IF Works(f[i - 1]) THEN Call(f[i - 1]) ELSE f[i - 1]
  <2>1. f \in [0..num -> Mem] /\ f[0] = m
    BY <1>9 DEF Follows
  <2>2. ASSUME NEW i \in 1..num
        PROVE  f[i] = IF Works(f[i - 1]) THEN Call(f[i - 1]) ELSE f[i - 1]
    <3>1. i \in (0 + 1)..num /\ i - 1 \in 0..num /\ i \in 0..num
      OBVIOUS
    <3>2. f[i] = Step[i][f[i - 1]] /\ f[i - 1] \in Mem
      BY <1>9, <3>1 DEF Follows
    <3> HIDE DEF Mem
    <3> QED BY <3>1, <3>2
  <2> QED BY <2>1, <2>2
<1> HIDE DEF Step
<1>11. \A i \in 0..num : Fine(f[i], i)
  BY <1>7, <1>10
<1>12. f = After(f)
  <2>1. ASSUME NEW i \in 0..num, i # 0 PROVE f[i] = Call(f[i - 1])
    <3>1. i \in 1..num /\ i - 1 \in 0..(num - 1) /\ i - 1 \in 0..num
      BY <2>1
    <3>2. Works(f[i - 1])
      BY <1>6, <1>11, <3>1
    <3> QED BY <1>10, <3>1, <3>2
  <2> HIDE DEF Mem
  <2> QED BY <1>10, <2>1
<1>13. after = After(after)
  BY <1>12
<1> HIDE DEF after
<1>14. Loop(after)
  <2>1. \A i \in 1..num : i \in 0..num /\ i # 0
    OBVIOUS
  <2> QED BY <1>13, <2>1
<1>15. Fine(after[num], num)
  <2>1. num \in 0..num
    OBVIOUS
  <2> HIDE DEF Loop
  <2> QED BY <1>7, <1>14, <2>1
<1> QED BY <1>1, <1>15 DEF Fine
-----------------------------------------------------------------------------
(***************************************************************************)
(* MMU_init(): the map is the machine's, and the frames of the tables and  *)
(* of the PML4 are used once (mmu_driver.c:774-826).                       *)
(***************************************************************************)
LEMMA BootRanges ==
  ASSUME NEW start, start = addr_map_init(Mmap)
  PROVE  /\ Good(start, {}) /\ start.halted = FALSE /\ start.bank = RegionStart
<1>1. MapAccepted(Mmap)
  BY MmapAssumption DEF MapAccepted
<1>2. PICK s : s = [Pool EXCEPT ![1].curr = 4]
  OBVIOUS
<1>3. /\ start.ranges = s /\ start.cur = 1 /\ start.mmap = Mmap /\ start.free = <<>>
      /\ start.tables = [t \in {} |-> Null] /\ start.pml4 = Null
      /\ start.pte = [v \in {} |-> NoEntry] /\ start.bank = RegionStart
      /\ start.loaded = FALSE /\ start.halted = FALSE
      /\ start = [ranges |-> s, cur |-> 1, mmap |-> Mmap, free |-> <<>>,
                  tables |-> [t \in {} |-> Null], pml4 |-> Null,
                  pte |-> [v \in {} |-> NoEntry], bank |-> RegionStart,
                  loaded |-> FALSE, halted |-> FALSE]
  <2>1. start = [ranges |-> s, cur |-> 1, mmap |-> Mmap, free |-> <<>>,
                 tables |-> [t \in {} |-> Null], pml4 |-> Null,
                 pte |-> [v \in {} |-> NoEntry], bank |-> RegionStart,
                 loaded |-> FALSE, halted |-> FALSE]
    <3>1. 2 * PageSize = 4
      BY DEF PageSize
    <3>2. (~MapAccepted(Mmap)) = FALSE
      BY <1>1
    <3> QED BY <1>1, <1>2, <3>1, <3>2, Zenon DEF addr_map_init, Pool
  <2> QED BY <2>1
<1>4. /\ Pool \in Seq(Range) /\ 1 \in DOMAIN Pool
      /\ \A i \in DOMAIN Pool :
           /\ i \in Nat /\ Pool[i] \in Range /\ Pool[i].curr = Pool[i].start
           /\ First(i) \in Nat /\ Limit(i) \in Nat /\ 0 < First(i) /\ First(i) < Limit(i)
           /\ Pool[i].start <= First(i)
  BY PoolFacts
<1> HIDE DEF Pool
<1>5. s \in Seq(Range) /\ DOMAIN s = DOMAIN Pool
  <2>1. PICK p \in Range : p = Pool[1]
    BY <1>4
  <2>2. [p EXCEPT !.curr = 4] \in Range
    BY DEF Range
  <2>3. s = [Pool EXCEPT ![1] = [p EXCEPT !.curr = 4]]
    BY <1>2, <2>1
  <2> QED BY <1>4, <2>2, <2>3
<1>6. ASSUME NEW i \in DOMAIN Pool
      PROVE  s[i].start = Pool[i].start /\ s[i].end = Limit(i) /\ s[i].curr = First(i)
  <2>1. CASE i = 1
    <3>1. s[i] = [Pool[i] EXCEPT !.curr = 4]
      BY <1>2, <2>1
    <3>2. Pool[i] \in Range
      BY <1>4
    <3> QED BY <2>1, <3>1, <3>2 DEF First, Limit, Range
  <2>2. CASE i # 1
    BY <1>2, <1>4, <2>2 DEF First, Limit
  <2> QED BY <2>1, <2>2
<1>7. RangesInv(start)
  BY <1>3, <1>4, <1>5, <1>6 DEF RangesInv
<1>8. start \in Mem
  <2>1. [t \in {} |-> Null] \in Partial(TableNames, Nat)
    <3>1. [t \in {} |-> Null] \in [{} -> Nat] /\ {} \in SUBSET TableNames
      OBVIOUS
    <3> QED BY <3>1 DEF Partial
  <2>2. [v \in {} |-> NoEntry] \in Partial(Nat, EntryType)
    <3>1. [v \in {} |-> NoEntry] \in [{} -> EntryType] /\ {} \in SUBSET Nat
      OBVIOUS
    <3> QED BY <3>1 DEF Partial
  <2>3. RegionStart \in [Regions -> Nat]
    BY PagingAssumption
  <2>4. <<>> \in Seq(Nat) /\ 1 \in Nat /\ Null \in Nat
    BY DEF Null
  <2> HIDE DEF Range, EntryType, TableNames
  <2> QED BY <1>3, <1>5, <2>1, <2>2, <2>3, <2>4 DEF Mem
<1>9. /\ TableFrames(start) = {} /\ PagesWithFrame(start) = {} /\ PageFrames(start) = {}
      /\ FreeFrames(start) = {}
  BY <1>3 DEF TableFrames, PagesWithFrame, PageFrames, FreeFrames
<1>10. HandedOut(start) = {}
  BY <1>3, <1>4, <1>6 DEF HandedOut
<1>11. Accounted(start, {})
  <2>1. DOMAIN start.tables = {} /\ DOMAIN start.free = {}
    BY <1>3
  <2>2. UsedOnce(start, {})
    BY <1>9, <2>1 DEF UsedOnce, Disjoint
  <2> QED BY <1>9, <1>10, <2>2 DEF Accounted, InUse
<1>12. EntriesInv(start)
  <2>1. \A r \in Regions : /\ RegionStart[r] \in Nat /\ MaxPages \in Nat
                           /\ start.bank[r] = RegionStart[r]
    BY <1>3, PagingAssumption, MmuAssumption
  <2>2. DOMAIN start.pte = {}
    BY <1>3
  <2> QED BY <2>1, <2>2 DEF EntriesInv
<1> QED BY <1>3, <1>7, <1>8, <1>11, <1>12 DEF Good

(* The PML4 and CR3 are not part of what is accounted for.                 *)
LEMMA BootKeeps ==
  ASSUME NEW X
  PROVE  \A m, n :
           (/\ Good(m, X) /\ n \in Mem
            /\ n.ranges = m.ranges /\ n.cur = m.cur /\ n.free = m.free
            /\ n.tables = m.tables /\ n.pte = m.pte /\ n.bank = m.bank
            /\ n.halted = m.halted) => Good(n, X)
<1> SUFFICES ASSUME NEW m, NEW n, Good(m, X), n \in Mem,
                    n.ranges = m.ranges, n.cur = m.cur, n.free = m.free,
                    n.tables = m.tables, n.pte = m.pte, n.bank = m.bank,
                    n.halted = m.halted
             PROVE  Good(n, X)
  OBVIOUS
<1>1. TableFrames(n) = TableFrames(m) /\ FreeFrames(n) = FreeFrames(m)
      /\ PageFrames(n) = PageFrames(m) /\ PagesWithFrame(n) = PagesWithFrame(m)
  BY DEF TableFrames, FreeFrames, PageFrames, PagesWithFrame
<1>2. EntriesInv(n)
  BY DEF Good, EntriesInv, Allotted
<1>3. UsedOnce(m, X)
  BY DEF Good, Accounted
<1>4. Disjoint(TableFrames(n), PageFrames(n), FreeFrames(n), X)
  BY <1>1, <1>3 DEF UsedOnce
<1>5. \A v, w \in PagesWithFrame(n) : n.pte[v].frame = n.pte[w].frame => v = w
  BY <1>1, <1>3 DEF UsedOnce
<1> QED BY <1>1, <1>2, <1>4, <1>5, EntriesChange

(* MMU_init() leaves a good state. *)
LEMMA Booted ==
  ASSUME NEW tags \in BootInfos, NEW n, n = MMU_init(Loaded(tags, InfoAddr), InfoAddr)
  PROVE  Good(n, With({}, n.pml4)) /\ n.bank = RegionStart
<1>1. PICK start : start = addr_map_init(Mmap)
  OBVIOUS
<1>2. Good(start, {}) /\ start.halted = FALSE /\ start.bank = RegionStart
  BY <1>1, BootRanges
<1>3. PICK top : top = MMU_pf_alloc(start)
  OBVIOUS
<1>4. PICK f : f = top.pf
  OBVIOUS
<1>5. PICK base : base = [top.mem EXCEPT !.pml4 = f]
  OBVIOUS
<1> DEFINE X == With({}, f)
           Maps(g) == [v \in 0..MapInit |->
                         map_page(IF v = 0 THEN base ELSE g[v - 1], v * PageSize, v)]
           mapped == CHOOSE g : g = Maps(g)
           S == {x \in Mem : Good(x, X) /\ x.bank = RegionStart /\ x.pml4 = f}
           Step == [v \in 0..MapInit |-> [x \in S |-> map_page(x, v * PageSize, v)]]
<1>6. n = [mapped[MapInit] EXCEPT !.loaded = TRUE]
  <2>1. n = Mapped(start)
    BY <1>1, <1>2, MapIsRead DEF MMU_init
  <2> QED BY <1>3, <1>4, <1>5, <2>1 DEF Mapped
<1>7. Good(top.mem, X) /\ f \in Nat /\ SamePages(start, top.mem)
  BY <1>2, <1>3, <1>4, FrameAllocated
<1>8. base \in S
  <2>1. PICK k : k = top.mem
    OBVIOUS
  <2>2. k \in Mem /\ k.bank = RegionStart
    BY <1>2, <1>7, <2>1 DEF Good, SamePages
  <2>3. /\ base \in Mem /\ base.ranges = k.ranges /\ base.cur = k.cur
        /\ base.free = k.free /\ base.tables = k.tables /\ base.pte = k.pte
        /\ base.bank = k.bank /\ base.halted = k.halted /\ base.pml4 = f
    <3>1. base = [k EXCEPT !.pml4 = f]
      BY <1>5, <2>1
    <3> HIDE DEF Range, EntryType, TableNames
    <3> QED BY <1>7, <2>2, <3>1 DEF Mem
  <2>4. Good(base, X)
    <3> HIDE DEF X
    <3> QED BY <1>7, <2>1, <2>3, BootKeeps
  <2> QED BY <2>2, <2>3, <2>4
<1>9. MapInit \in Nat
  BY PagingAssumption
<1>10. ASSUME NEW x \in S, NEW v \in 0..MapInit
       PROVE  map_page(x, v * PageSize, v) \in S
  <2>1. v \in Nat /\ v <= MapInit /\ v * PageSize \in Nat
    BY <1>9 DEF PageSize
  <2>2. PICK y : y = map_page(x, v * PageSize, v)
    OBVIOUS
  <2>3. Good(x, X) /\ x.bank = RegionStart /\ x.pml4 = f
    OBVIOUS
  <2> HIDE DEF X
  <2>4. Good(y, X) /\ y.bank = x.bank /\ y.pml4 = x.pml4
    BY <2>1, <2>2, <2>3, MapIdentity
  <2>5. y \in Mem
    BY <2>4 DEF Good
  <2> QED BY <2>2, <2>3, <2>4, <2>5
<1> HIDE DEF S, X
<1>11. mapped = Maps(mapped)
  <2>1. PICK s : s = map_page(base, 0 * PageSize, 0)
    OBVIOUS
  <2>2. s \in S /\ 0 \in Int /\ MapInit \in Int /\ 0 <= MapInit
    BY <1>8, <1>9, <1>10, <2>1
  <2>3. Stepwise(Step, 0, MapInit, S)
    <3>1. ASSUME NEW v \in (0 + 1)..MapInit, NEW x \in S PROVE Step[v][x] \in S
      <4>1. v \in 0..MapInit
        BY <1>9
      <4> QED BY <1>10, <4>1
    <3> HIDE DEF Step
    <3> QED BY <3>1 DEF Stepwise
  <2>4. PICK g : Follows(g, 0, MapInit, S, s, Step)
    <3> HIDE DEF Step
    <3> QED BY <2>2, <2>3, PrimitiveRecursion
  <2>5. ASSUME NEW v \in 0..MapInit, v # 0 PROVE g[v] = map_page(g[v - 1], v * PageSize, v)
    <3>1. v \in (0 + 1)..MapInit /\ v - 1 \in 0..MapInit
      BY <1>9, <2>5
    <3>2. g[v] = Step[v][g[v - 1]] /\ g[v - 1] \in S
      BY <2>4, <3>1 DEF Follows
    <3> QED BY <3>2
  <2>6. g = Maps(g)
    <3> HIDE DEF Step
    <3> QED BY <2>1, <2>4, <2>5 DEF Follows
  <2> QED BY <2>6
<1> HIDE DEF mapped, Step
<1>12. mapped[MapInit] \in S
  <2> DEFINE T == {v \in 0..MapInit : mapped[v] \in S}
  <2>1. 0 \in T
    <3>1. 0 \in 0..MapInit
      BY <1>9
    <3>2. mapped[0] = map_page(base, 0 * PageSize, 0)
      BY <1>11, <3>1
    <3> QED BY <1>8, <1>10, <3>1, <3>2
  <2>2. ASSUME NEW v \in 0..(MapInit - 1), v \in T PROVE v + 1 \in T
    <3>1. v + 1 \in 0..MapInit /\ v + 1 # 0 /\ (v + 1) - 1 = v
      BY <1>9
    <3>2. mapped[v + 1] = map_page(mapped[v], (v + 1) * PageSize, v + 1)
      BY <1>11, <3>1
    <3> QED BY <1>10, <2>2, <3>1, <3>2
  <2>3. 0 \in Int /\ MapInit \in Int /\ MapInit \in 0..MapInit
    BY <1>9
  <2> HIDE DEF T
  <2>4. MapInit \in T
    BY <2>1, <2>2, <2>3, IntervalInduction
  <2> QED BY <2>4 DEF T
<1>13. PICK k : k = mapped[MapInit]
  OBVIOUS
<1>14. k \in Mem /\ Good(k, X) /\ k.bank = RegionStart /\ k.pml4 = f
  BY <1>12, <1>13 DEF S
<1>15. /\ n \in Mem /\ n.ranges = k.ranges /\ n.cur = k.cur /\ n.free = k.free
       /\ n.tables = k.tables /\ n.pte = k.pte /\ n.bank = k.bank
       /\ n.halted = k.halted /\ n.pml4 = f
  <2>1. n = [k EXCEPT !.loaded = TRUE]
    BY <1>6, <1>13
  <2> HIDE DEF Range, EntryType, TableNames
  <2> QED BY <1>14, <2>1 DEF Mem
<1>16. Good(n, X)
  BY <1>14, <1>15, BootKeeps
<1> QED BY <1>14, <1>15, <1>16 DEF X
-----------------------------------------------------------------------------
(***************************************************************************)
(* The inductive invariant: what was handed out is accounted for by the    *)
(* memory manager, the frames of callers and the PML4; the pages of        *)
(* callers are below the break of their region.                            *)
(***************************************************************************)
IInv ==
  /\ Good(mem, With(frames, mem.pml4))
  /\ mem.pml4 \notin frames
  /\ pages \subseteq Nat
  /\ \A v \in pages : Allotted(mem, v)

(* The invariant holds initially. *)
LEMMA InitIInv == Init => IInv
<1> SUFFICES ASSUME Init PROVE IInv
  OBVIOUS
<1>1. PICK tags \in BootInfos : mem = MMU_init(Loaded(tags, InfoAddr), InfoAddr)
  BY DEF Init
<1>2. Good(mem, With({}, mem.pml4))
  BY <1>1, Booted
<1>3. frames = {} /\ pages = {}
  BY DEF Init
<1> QED BY <1>2, <1>3 DEF IInv

(* The breaks only move up, so a page that was below one stays there.      *)
LEMMA StaysAllotted ==
  ASSUME NEW X
  PROVE  \A m, n, v :
           (/\ Good(m, X) /\ Good(n, X) /\ v \in Nat /\ Allotted(m, v)
            /\ \A r \in Regions : m.bank[r] <= n.bank[r]) => Allotted(n, v)
<1> SUFFICES ASSUME NEW m, NEW n, NEW v, Good(m, X), Good(n, X), v \in Nat, Allotted(m, v),
                    \A r \in Regions : m.bank[r] <= n.bank[r]
             PROVE  Allotted(n, v)
  OBVIOUS
<1>1. m.bank \in [Regions -> Nat] /\ n.bank \in [Regions -> Nat]
  BY MemFields DEF Good
<1>2. PICK r \in Regions : RegionStart[r] <= v /\ v < m.bank[r]
  BY DEF Allotted
<1>3. v < n.bank[r]
  BY <1>1, <1>2
<1> QED BY <1>2, <1>3 DEF Allotted

(* A page of a caller is above the pages that are mapped one to one.       *)
LEMMA AboveMapInit ==
  ASSUME NEW m, NEW v \in Nat, Allotted(m, v)
  PROVE  v > MapInit
<1>1. PICK r \in Regions : RegionStart[r] <= v
  BY DEF Allotted
<1>2. RegionStart[r] \in Nat /\ RegionStart[r] > MapInit /\ MapInit \in Nat
  BY PagingAssumption
<1> QED BY <1>1, <1>2

(* A step is taken by a system that runs. *)
LEMMA Running ==
  ASSUME IInv
  PROVE  /\ mem \in Mem /\ mem.halted \in BOOLEAN /\ mem.pml4 \in Nat
         /\ mem.bank \in [Regions -> Nat] /\ frames \subseteq Nat
<1>1. mem \in Mem /\ Accounted(mem, With(frames, mem.pml4))
  BY DEF IInv, Good
<1>2. frames \subseteq HandedOut(mem)
  BY <1>1 DEF Accounted, InUse, With
<1> QED BY <1>1, <1>2, MemFields DEF HandedOut

(***************************************************************************)
(* One lemma per action: it keeps the invariant, and a page that its       *)
(* caller keeps stays where it is.                                         *)
(***************************************************************************)
Stable == \A v \in pages \cap pages' :
            Entry(mem, v).present => Entry(mem', v) = Entry(mem, v)

(* PfAlloc preserves the invariant and the mappings of other pages. *)
LEMMA PfAllocKeeps ==
  ASSUME IInv, PfAlloc
  PROVE  IInv' /\ Stable
<1> DEFINE X == With(frames, mem.pml4)
<1>1. PICK got : got = MMU_pf_alloc(mem)
  OBVIOUS
<1>2. /\ mem' = got.mem /\ pages' = pages /\ mem.halted = FALSE
      /\ frames' = IF got.mem.halted THEN frames ELSE frames \cup {got.pf}
  BY <1>1, Running DEF PfAlloc
<1>3. /\ Good(got.mem, With(X, got.pf)) /\ got.pf \notin X /\ SamePages(mem, got.mem)
  BY <1>1, <1>2, FrameAllocated DEF IInv
<1>4. PICK m, f : m = got.mem /\ f = got.pf
  OBVIOUS
<1>5. /\ mem' = m /\ frames' = (IF m.halted THEN frames ELSE frames \cup {f})
      /\ Good(m, With(X, f)) /\ f \notin X /\ SamePages(mem, m) /\ pages' = pages
  BY <1>2, <1>3, <1>4
<1>6. m.halted \in BOOLEAN
  BY <1>5, MemFields DEF Good
<1>7. m.pml4 = mem.pml4 /\ m.bank = mem.bank /\ m.pte = mem.pte
  BY <1>5 DEF SamePages
<1>8. Good(mem', With(frames', mem'.pml4)) /\ mem'.pml4 \notin frames'
  <2>1. CASE m.halted = TRUE
    <3>1. Good(m, X)
      BY <1>5, <2>1, HaltDrops
    <3> QED BY <1>5, <1>7, <2>1, <3>1 DEF IInv
  <2>2. CASE m.halted = FALSE
    <3>1. frames' = frames \cup {f} /\ mem' = m
      BY <1>5, <2>2
    <3>2. With(X, f) = With(frames', m.pml4)
      BY <1>7, <3>1 DEF With
    <3>3. f # m.pml4
      BY <1>5, <1>7 DEF With
    <3>4. m.pml4 \notin frames'
      BY <1>7, <3>1, <3>3 DEF IInv
    <3> QED BY <1>5, <3>1, <3>2, <3>4
  <2> QED BY <1>6, <2>1, <2>2
<1>9. \A v \in pages' : Allotted(mem', v)
  BY <1>5, <1>7 DEF IInv, Allotted
<1>10. Stable
  BY <1>5, <1>7 DEF Stable, Entry
<1> QED BY <1>5, <1>8, <1>9, <1>10 DEF IInv

(* PfFree preserves the invariant and the mappings of other pages. *)
LEMMA PfFreeKeeps ==
  ASSUME IInv, NEW f \in frames, PfFree(f)
  PROVE  IInv' /\ Stable
<1>1. PICK m : m = MMU_pf_free(mem, f)
  OBVIOUS
<1>2. mem' = m /\ pages' = pages /\ frames' = frames \ {f}
  BY <1>1 DEF PfFree
<1>3. PICK X : X = With(frames \ {f}, mem.pml4)
  OBVIOUS
<1>4. With(X, f) = With(frames, mem.pml4) /\ f \notin X /\ f \in Nat
  <2>1. f # mem.pml4
    BY DEF IInv
  <2> QED BY <1>3, <2>1, Running DEF With
<1>5. Good(mem, With(X, f))
  BY <1>4 DEF IInv
<1>6. Good(m, X) /\ SamePages(mem, m)
  BY <1>1, <1>4, <1>5, PfFreed
<1>7. m.pml4 = mem.pml4 /\ m.bank = mem.bank /\ m.pte = mem.pte
  BY <1>6 DEF SamePages
<1>8. Good(mem', With(frames', mem'.pml4)) /\ mem'.pml4 \notin frames'
  BY <1>2, <1>3, <1>6, <1>7 DEF IInv
<1>9. \A v \in pages' : Allotted(mem', v)
  BY <1>2, <1>7 DEF IInv, Allotted
<1>10. Stable
  BY <1>2, <1>7 DEF Stable, Entry
<1> QED BY <1>2, <1>8, <1>9, <1>10 DEF IInv

(* AllocPage preserves the invariant and the mappings of other pages. *)
LEMMA AllocPageKeeps ==
  ASSUME IInv, NEW r \in Regions, AllocPage(r)
  PROVE  IInv' /\ Stable
<1> DEFINE X == With(frames, mem.pml4)
           b == mem.bank[r]
<1>1. PICK m : m = MMU_alloc_page(mem, r)
  OBVIOUS
<1>2. /\ mem' = m /\ frames' = frames
      /\ pages' = (IF m.halted THEN pages ELSE pages \cup {b})
      /\ mem.bank[r] + 1 <= RegionStart[r] + MaxPages
  BY <1>1 DEF AllocPage, Room
<1>3. Good(mem, X)
  BY DEF IInv
<1> HIDE DEF X
<1>4. /\ Good(m, X) /\ m.pml4 = mem.pml4
      /\ \A w \in DOMAIN mem.pte : w \in DOMAIN m.pte /\ m.pte[w] = mem.pte[w]
      /\ \/ m.halted /\ m.bank = mem.bank
         \/ m.bank = [mem.bank EXCEPT ![r] = mem.bank[r] + 1]
  BY <1>1, <1>2, <1>3, PageAllocated DEF PageGiven
<1>5. mem.bank \in [Regions -> Nat] /\ b \in Nat /\ RegionStart[r] \in Nat
  BY Running, PagingAssumption
<1>6. \A s \in Regions : mem.bank[s] <= m.bank[s]
  BY <1>4, <1>5
<1>7. Good(mem', With(frames', mem'.pml4)) /\ mem'.pml4 \notin frames'
  BY <1>2, <1>4 DEF X, IInv
<1>8. ASSUME NEW v \in pages PROVE v \in Nat /\ Allotted(m, v)
  BY <1>3, <1>4, <1>6, StaysAllotted DEF IInv
<1>9. ASSUME ~m.halted PROVE Allotted(m, b)
  <2>1. m.bank = [mem.bank EXCEPT ![r] = b + 1]
    BY <1>4, <1>9
  <2>2. m.bank[r] = b + 1 /\ b < m.bank[r]
    BY <1>5, <2>1
  <2>3. RegionStart[r] <= b
    BY <1>3 DEF Good, EntriesInv
  <2> HIDE DEF b
  <2> QED BY <2>2, <2>3 DEF Allotted
<1>10. pages' \subseteq Nat /\ \A v \in pages' : Allotted(m, v)
  BY <1>2, <1>5, <1>8, <1>9
<1>11. Stable
  <2>1. ASSUME NEW v, Entry(mem, v).present PROVE Entry(m, v) = Entry(mem, v)
    <3>1. v \in DOMAIN mem.pte
      BY <1>3, <2>1, EntryFacts
    <3> QED BY <1>4, <3>1 DEF Entry
  <2> QED BY <1>2, <2>1 DEF Stable
<1> QED BY <1>2, <1>7, <1>10, <1>11 DEF IInv

(* Brk preserves the invariant and the mappings of other pages. *)
LEMMA BrkKeeps ==
  ASSUME IInv, NEW r \in Regions, NEW i \in Increments, Brk(i, r)
  PROVE  IInv' /\ Stable
<1> DEFINE X == With(frames, mem.pml4)
<1>1. PICK num : num = i \div PageSize
  OBVIOUS
<1>2. num \in Nat
  BY <1>1, MmuAssumption DEF PageSize
<1>3. PICK m : m = MMU_alloc_pages(mem, num, r)
  OBVIOUS
<1>4. /\ mem' = m /\ frames' = frames
      /\ pages' = pages \cup (mem.bank[r] .. (m.bank[r] - 1))
      /\ mem.bank[r] + num <= RegionStart[r] + MaxPages
  BY <1>1, <1>3 DEF Brk, Room, brk, Grown
<1>5. Good(mem, X)
  BY DEF IInv
<1> HIDE DEF X
<1>6. /\ Good(m, X) /\ m.pml4 = mem.pml4
      /\ \A w \in DOMAIN mem.pte : w \in DOMAIN m.pte /\ m.pte[w] = mem.pte[w]
      /\ \A s \in Regions : mem.bank[s] <= m.bank[s]
  BY <1>2, <1>3, <1>4, <1>5, PagesAllocated
<1>7. Good(mem', With(frames', mem'.pml4)) /\ mem'.pml4 \notin frames'
  BY <1>4, <1>6 DEF X, IInv
<1>8. ASSUME NEW v \in pages PROVE v \in Nat /\ Allotted(m, v)
  BY <1>5, <1>6, StaysAllotted DEF IInv
<1>9. ASSUME NEW v \in mem.bank[r] .. (m.bank[r] - 1) PROVE v \in Nat /\ Allotted(m, v)
  <2>1. mem.bank[r] \in Nat /\ m.bank[r] \in Nat /\ RegionStart[r] \in Nat
    BY <1>6, MemFields, Running, PagingAssumption DEF Good
  <2>2. RegionStart[r] <= mem.bank[r]
    BY <1>5 DEF Good, EntriesInv
  <2>3. v \in Nat /\ RegionStart[r] <= v /\ v < m.bank[r]
    BY <2>1, <2>2
  <2> QED BY <2>3 DEF Allotted
<1>10. pages' \subseteq Nat /\ \A v \in pages' : Allotted(m, v)
  BY <1>4, <1>8, <1>9
<1>11. Stable
  <2>1. ASSUME NEW v, Entry(mem, v).present PROVE Entry(m, v) = Entry(mem, v)
    <3>1. v \in DOMAIN mem.pte
      BY <1>5, <2>1, EntryFacts
    <3> QED BY <1>6, <3>1 DEF Entry
  <2> QED BY <1>4, <2>1 DEF Stable
<1> QED BY <1>4, <1>7, <1>10, <1>11 DEF IInv

(* OneEntry preserves the invariant and the mappings of other pages. *)
LEMMA OneEntryKeeps ==
  ASSUME IInv, NEW v, v \notin pages' \/ ~Entry(mem, v).present,
         Good(mem', With(frames, mem.pml4)), mem'.bank = mem.bank, mem'.pml4 = mem.pml4,
         OnlyEntry(mem, mem', v), frames' = frames, pages' \subseteq pages
  PROVE  IInv' /\ Stable
<1>1. Stable
  BY DEF Stable, Entry, OnlyEntry
<1>2. \A w \in pages' : Allotted(mem', w)
  BY DEF IInv, Allotted
<1> QED BY <1>1, <1>2 DEF IInv

(* Access preserves the invariant and the mappings of other pages. *)
LEMMA AccessKeeps ==
  ASSUME IInv, NEW v \in pages, Access(v)
  PROVE  IInv' /\ Stable
<1>1. PICK m : m = page_fault_irq(mem, v)
  OBVIOUS
<1>2. mem' = m /\ frames' = frames /\ pages' = pages /\ ~Entry(mem, v).present
  BY <1>1 DEF Access
<1>3. v \in Nat /\ Allotted(mem, v) /\ v > MapInit
  BY AboveMapInit DEF IInv
<1>4. Good(mem, With(frames, mem.pml4))
  BY DEF IInv
<1>5. /\ Good(m, With(frames, mem.pml4)) /\ m.bank = mem.bank /\ m.pml4 = mem.pml4
      /\ OnlyEntry(mem, m, v)
  BY <1>1, <1>3, <1>4, FaultServed
<1> QED BY <1>2, <1>5, OneEntryKeeps

(* FreePage preserves the invariant and the mappings of other pages. *)
LEMMA FreePageKeeps ==
  ASSUME IInv, NEW v \in pages, FreePage(v)
  PROVE  IInv' /\ Stable
<1>1. PICK m : m = MMU_free_page(mem, v)
  OBVIOUS
<1>2. mem' = m /\ frames' = frames /\ pages' = pages \ {v}
  BY <1>1 DEF FreePage
<1>3. v \in Nat /\ v > MapInit
  BY AboveMapInit DEF IInv
<1>4. Good(mem, With(frames, mem.pml4))
  BY DEF IInv
<1>5. /\ Good(m, With(frames, mem.pml4)) /\ m.bank = mem.bank /\ m.pml4 = mem.pml4
      /\ OnlyEntry(mem, m, v)
  BY <1>1, <1>3, <1>4, PageFreed
<1> QED BY <1>2, <1>5, OneEntryKeeps

(* FreePages preserves the invariant and the mappings of other pages. *)
LEMMA FreePagesKeeps ==
  ASSUME IInv, NEW v \in pages, FreePages(v, 2)
  PROVE  IInv' /\ Stable
<1>1. PICK m : m = MMU_free_pages(mem, v, 2)
  OBVIOUS
<1>2. v \in Nat /\ v > MapInit
  BY AboveMapInit DEF IInv
<1>3. mem' = m /\ frames' = frames /\ pages' = pages \ {v, v + 1}
  <2>1. v .. (v + 2 - 1) = {v, v + 1}
    BY <1>2
  <2> QED BY <1>1, <2>1 DEF FreePages
<1>4. Good(mem, With(frames, mem.pml4))
  BY DEF IInv
<1>5. /\ Good(m, With(frames, mem.pml4)) /\ m.bank = mem.bank /\ m.pml4 = mem.pml4
      /\ \A w : w # v /\ w # v + 1 => Entry(m, w) = Entry(mem, w)
  BY <1>1, <1>2, <1>4, PagesFreed
<1>6. Stable
  BY <1>3, <1>5 DEF Stable
<1>7. \A w \in pages' : Allotted(mem', w)
  BY <1>3, <1>5 DEF IInv, Allotted
<1> QED BY <1>3, <1>5, <1>6, <1>7 DEF IInv

(* Every step preserves the invariant and the mappings of other pages. *)
LEMMA NextKeeps ==
  IInv /\ [Next]_vars => IInv' /\ Stable
<1> SUFFICES ASSUME IInv, [Next]_vars PROVE IInv' /\ Stable
  OBVIOUS
<1>1. CASE PfAlloc
  BY <1>1, PfAllocKeeps
<1>2. ASSUME NEW f \in frames, PfFree(f) PROVE IInv' /\ Stable
  BY <1>2, PfFreeKeeps
<1>3. ASSUME NEW r \in Regions, AllocPage(r) PROVE IInv' /\ Stable
  BY <1>3, AllocPageKeeps
<1>4. ASSUME NEW r \in Regions, NEW n \in Increments, Brk(n, r) PROVE IInv' /\ Stable
  BY <1>4, BrkKeeps
<1>5. ASSUME NEW v \in pages, Access(v) PROVE IInv' /\ Stable
  BY <1>5, AccessKeeps
<1>6. ASSUME NEW v \in pages, FreePage(v) PROVE IInv' /\ Stable
  BY <1>6, FreePageKeeps
<1>7. ASSUME NEW v \in pages, FreePages(v, 2) PROVE IInv' /\ Stable
  BY <1>7, FreePagesKeeps
<1>8. CASE UNCHANGED vars
  BY <1>8 DEF vars, IInv, Stable
<1> QED BY <1>1, <1>2, <1>3, <1>4, <1>5, <1>6, <1>7, <1>8 DEF Next

(***************************************************************************)
(* The inductive invariant: the ranges of the memory map are disjoint, the *)
(* frames below curr of each range are each free, held or mapped, once,    *)
(* and every page that was allocated lies below the next page of its       *)
(* region (mmu_driver.c:590-660, 774-926).                                 *)
(***************************************************************************)
THEOREM Invariance == Spec => []IInv
<1>1. IInv /\ [Next]_vars => IInv'
  BY NextKeeps
<1> QED BY InitIInv, <1>1, PTL DEF Spec

(***************************************************************************)
(* A page stays where it is (mmu_driver.c:287-313, 871-889): no call for   *)
(* another page, or for a frame, changes its entry.                        *)
(***************************************************************************)
THEOREM PagesStay == Spec => MappingStable
<1>1. IInv /\ [Next]_vars =>
        [\A v \in pages \cap pages' :
           Entry(mem, v).present => Entry(mem', v) = Entry(mem, v)]_vars
  BY NextKeeps DEF Stable
<1> QED BY Invariance, <1>1, PTL DEF Spec, MappingStable

(***************************************************************************)
(* The memory manager works with the machine's memory map, whatever tags   *)
(* the boot loader put around it (multiboot2.c:276-306).                   *)
(***************************************************************************)
THEOREM MapFound == Spec => []MemoryMapFound
<1>1. IInv => MemoryMapFound
  BY Running, MemFields DEF MemoryMapFound
<1> QED BY Invariance, <1>1, PTL

(* What Uses lists, by what the frame is used for.                         *)
LEMMA UsesAre ==
  ASSUME NEW u \in Uses
  PROVE  \/ u = <<"pml4", mem.pml4, mem.pml4>>
         \/ \E t \in DOMAIN mem.tables : u = <<"table", t, mem.tables[t]>>
         \/ \E v \in DataPages : u = <<"page", v, mem.pte[v].frame>>
         \/ \E f \in frames : u = <<"caller", f, f>>
         \/ \E i \in DOMAIN mem.free : u = <<"free", i, mem.free[i]>>
  BY DEF Uses

(* The frames of pages, as the property counts them. *)
LEMMA DataPagesAre ==
  ASSUME IInv PROVE DataPages = PagesWithFrame(mem)
<1>1. ASSUME NEW v \in DOMAIN mem.pte PROVE mem.pte[v].present \in BOOLEAN
  <2>1. mem.pte[v] \in EntryType
    BY <1>1, EntryFacts DEF IInv
  <2> QED BY <2>1 DEF EntryType
<1> QED BY <1>1 DEF DataPages, PagesWithFrame

(* The invariant contains the types. *)
LEMMA TypesHold == IInv => TypeOK
<1> SUFFICES ASSUME IInv PROVE TypeOK
  OBVIOUS
<1>1. mem.cur \in DOMAIN mem.ranges /\ mem.free \in Seq(Nat)
  BY Running, MemFields DEF IInv, Good, RangesInv
<1>2. \A v \in DOMAIN mem.pte : mem.pte[v] \in EntryType
  BY EntryFacts DEF IInv
<1>3. frames \subseteq Nat /\ pages \subseteq Nat
  BY Running DEF IInv
<1> QED BY <1>1, <1>2, <1>3 DEF TypeOK, EntryType

(* Taken is what the invariant calls handed out.                           *)
LEMMA TakenAre ==
  ASSUME IInv PROVE Taken = HandedOut(mem)
<1>1. RangesInv(mem) /\ mem \in Mem
  BY DEF IInv, Good
<1>2. ASSUME NEW i \in DOMAIN Pool
      PROVE  TakenFrom(i) = {a \in Nat : /\ First(i) <= a /\ a < mem.ranges[i].curr
                                         /\ (a - First(i)) % 2 = 0}
  <2>1. mem.ranges[i].curr \in Nat /\ First(i) \in Nat
    BY <1>1, RangeFields, PoolFacts
  <2>2. (IF i = 1 THEN 2 * PageSize ELSE mem.ranges[i].start) = First(i)
    BY <1>1 DEF RangesInv, First, PageSize
  <2>3. PICK c \in Nat : c = mem.ranges[i].curr
    BY <2>1
  <2>4. PICK s \in Nat : s = First(i)
    BY <2>1
  <2>5. TakenFrom(i) = {a \in s .. (c - 1) : (a - s) % 2 = 0}
    BY <2>2, <2>3, <2>4 DEF TakenFrom, PageSize
  <2>6. \A a : a \in s .. (c - 1) <=> a \in Nat /\ s <= a /\ a < c
    OBVIOUS
  <2> QED BY <2>3, <2>4, <2>5, <2>6
<1>3. DOMAIN mem.ranges = DOMAIN Pool
  BY <1>1 DEF RangesInv
<1> QED BY <1>2, <1>3 DEF Taken, HandedOut

(* The frames of the uses are those in use.                                *)
LEMMA UsedAre ==
  ASSUME IInv
  PROVE  {FrameOf(u) : u \in Uses} = InUse(mem, With(frames, mem.pml4))
<1> DEFINE Used == InUse(mem, With(frames, mem.pml4))
<1>1. DataPages = PagesWithFrame(mem)
  BY DataPagesAre
<1>2. ASSUME NEW u \in Uses PROVE FrameOf(u) \in Used
  <2>1. CASE u = <<"pml4", mem.pml4, mem.pml4>>
    BY <2>1 DEF FrameOf, InUse, With
  <2>2. ASSUME NEW t \in DOMAIN mem.tables, u = <<"table", t, mem.tables[t]>>
        PROVE  FrameOf(u) \in Used
    BY <2>2 DEF FrameOf, InUse, TableFrames
  <2>3. ASSUME NEW v \in DataPages, u = <<"page", v, mem.pte[v].frame>>
        PROVE  FrameOf(u) \in Used
    BY <1>1, <2>3 DEF FrameOf, InUse, PageFrames
  <2>4. ASSUME NEW f \in frames, u = <<"caller", f, f>> PROVE FrameOf(u) \in Used
    BY <2>4 DEF FrameOf, InUse, With
  <2>5. ASSUME NEW i \in DOMAIN mem.free, u = <<"free", i, mem.free[i]>>
        PROVE  FrameOf(u) \in Used
    BY <2>5 DEF FrameOf, InUse, FreeFrames
  <2> QED BY <2>1, <2>2, <2>3, <2>4, <2>5, UsesAre
<1>3. ASSUME NEW f \in Used PROVE \E u \in Uses : FrameOf(u) = f
  <2>1. CASE f = mem.pml4
    <3>1. <<"pml4", f, f>> \in Uses
      BY <2>1 DEF Uses
    <3> QED BY <3>1 DEF FrameOf
  <2>2. CASE f \in frames
    <3>1. <<"caller", f, f>> \in Uses
      BY <2>2 DEF Uses
    <3> QED BY <3>1 DEF FrameOf
  <2>3. CASE f \in TableFrames(mem)
    <3>1. PICK t \in DOMAIN mem.tables : f = mem.tables[t]
      BY <2>3 DEF TableFrames
    <3>2. <<"table", t, f>> \in Uses
      BY <3>1 DEF Uses
    <3> QED BY <3>2 DEF FrameOf
  <2>4. CASE f \in PageFrames(mem)
    <3>1. PICK v \in DataPages : f = mem.pte[v].frame
      BY <1>1, <2>4 DEF PageFrames
    <3>2. <<"page", v, f>> \in Uses
      BY <3>1 DEF Uses
    <3> QED BY <3>2 DEF FrameOf
  <2>5. CASE f \in FreeFrames(mem)
    <3>1. PICK i \in DOMAIN mem.free : f = mem.free[i]
      BY <2>5 DEF FreeFrames
    <3>2. <<"free", i, f>> \in Uses
      BY <3>1 DEF Uses
    <3> QED BY <3>2 DEF FrameOf
  <2> QED BY <2>1, <2>2, <2>3, <2>4, <2>5 DEF InUse, With
<1> HIDE DEF Used
<1>4. \A f : f \in {FrameOf(u) : u \in Uses} <=> f \in Used
  BY <1>2, <1>3
<1> QED BY <1>4 DEF Used

(* A range has its first frame at a page boundary: memory begins at one,   *)
(* and the end of the kernel is rounded up.                                *)
LEMMA FirstAligned ==
  ASSUME NEW i \in DOMAIN Pool
  PROVE  First(i) % 2 = 0
<1>1. PICK l \in DOMAIN Mmap : PieceOf(Pool[i], Mmap[l])
  BY RangesArePieces, EntryNumbers DEF Pieces, Pool
<1>2. Pool[i].start % 2 = 0
  BY <1>1 DEF PieceOf
<1> QED BY <1>2 DEF First

(* So every frame that was handed out begins there.                        *)
LEMMA FramesAligned ==
  ASSUME NEW m, NEW X, Good(m, X), NEW f \in InUse(m, X)
  PROVE  Aligned(f)
<1>1. f \in HandedOut(m) /\ f \in Nat
  BY DEF Good, Accounted, HandedOut
<1>2. PICK i \in DOMAIN Pool : First(i) <= f /\ (f - First(i)) % 2 = 0
  BY <1>1 DEF HandedOut
<1>3. PICK s \in Nat : s = First(i)
  BY PoolFacts
<1>4. s % 2 = 0 /\ (f - s) % 2 = 0 /\ s <= f
  BY <1>2, <1>3, FirstAligned
<1>5. f % 2 = 0
  BY <1>1, <1>4
<1> QED BY <1>5 DEF Aligned, PageSize

(***************************************************************************)
(* No memory has two uses: no frame has two, and frames, which start at    *)
(* page boundaries, overlap no others (mmu_driver.c:181-225, 829-868).     *)
(***************************************************************************)
THEOREM FramesApart == Spec => []FramesUsedOnce
<1>1. IInv => FramesUsedOnce
  <2> SUFFICES ASSUME IInv PROVE FramesUsedOnce
    OBVIOUS
  <2>1. UsedOnce(mem, With(frames, mem.pml4)) /\ mem.pml4 \notin frames
    BY DEF IInv, Good, Accounted
  <2>2. DataPages = PagesWithFrame(mem)
    BY DataPagesAre
  <2> DEFINE T == TableFrames(mem)
             P == PageFrames(mem)
             F == FreeFrames(mem)
  <2>3. /\ \A t \in DOMAIN mem.tables : mem.tables[t] \in T
        /\ \A v \in DataPages : mem.pte[v].frame \in P
        /\ \A i \in DOMAIN mem.free : mem.free[i] \in F
    BY <2>2 DEF TableFrames, PageFrames, FreeFrames
  <2>4. /\ \A f \in T : f \notin P /\ f \notin F /\ f \notin frames /\ f # mem.pml4
        /\ \A f \in P : f \notin F /\ f \notin frames /\ f # mem.pml4
        /\ \A f \in F : f \notin frames /\ f # mem.pml4
    BY <2>1 DEF UsedOnce, Disjoint, With
  <2>5. /\ \A s, t \in DOMAIN mem.tables : mem.tables[s] = mem.tables[t] => s = t
        /\ \A v, w \in DataPages : mem.pte[v].frame = mem.pte[w].frame => v = w
        /\ \A i, j \in DOMAIN mem.free : mem.free[i] = mem.free[j] => i = j
    BY <2>1, <2>2 DEF UsedOnce
  <2> HIDE DEF T, P, F
  <2>6. ASSUME NEW u \in Uses, NEW w \in Uses, FrameOf(u) = FrameOf(w) PROVE u = w
    <3>1. CASE u = <<"pml4", mem.pml4, mem.pml4>>
      BY <2>1, <2>3, <2>4, <2>6, <3>1, UsesAre DEF FrameOf
    <3>2. ASSUME NEW t \in DOMAIN mem.tables, u = <<"table", t, mem.tables[t]>> PROVE u = w
      BY <2>3, <2>4, <2>5, <2>6, <3>2, UsesAre DEF FrameOf
    <3>3. ASSUME NEW v \in DataPages, u = <<"page", v, mem.pte[v].frame>> PROVE u = w
      BY <2>3, <2>4, <2>5, <2>6, <3>3, UsesAre DEF FrameOf
    <3>4. ASSUME NEW f \in frames, u = <<"caller", f, f>> PROVE u = w
      BY <2>1, <2>3, <2>4, <2>6, <3>4, UsesAre DEF FrameOf
    <3>5. ASSUME NEW i \in DOMAIN mem.free, u = <<"free", i, mem.free[i]>> PROVE u = w
      BY <2>3, <2>4, <2>5, <2>6, <3>5, UsesAre DEF FrameOf
    <3> QED BY <3>1, <3>2, <3>3, <3>4, <3>5, UsesAre
  <2>7. ASSUME NEW u \in Uses, NEW w \in Uses, Overlap(FrameOf(u), FrameOf(w))
        PROVE  FrameOf(u) = FrameOf(w)
    <3>1. \A x \in Uses : FrameOf(x) \in Nat /\ FrameOf(x) % 2 = 0
      <4>1. Good(mem, With(frames, mem.pml4))
        BY DEF IInv
      <4>2. \A x \in Uses : FrameOf(x) \in InUse(mem, With(frames, mem.pml4))
        BY UsedAre
      <4>3. InUse(mem, With(frames, mem.pml4)) \subseteq Nat
        BY <4>1 DEF Good, Accounted, HandedOut
      <4> QED BY <4>1, <4>2, <4>3, FramesAligned DEF Aligned, PageSize
    <3>2. PICK f \in Nat : f = FrameOf(u) /\ f % 2 = 0
      BY <3>1
    <3>3. PICK g \in Nat : g = FrameOf(w) /\ g % 2 = 0
      BY <3>1
    <3>4. f < g + 2 /\ g < f + 2
      BY <2>7, <3>2, <3>3 DEF Overlap, PageSize
    <3>5. f = g
      BY <3>2, <3>3, <3>4
    <3> QED BY <3>2, <3>3, <3>5
  <2> QED BY <2>6, <2>7, TypesHold DEF FramesUsedOnce
<1> QED BY Invariance, <1>1, PTL

(***************************************************************************)
(* No frame is lost: each one taken from the ranges has a use or is on the *)
(* free list (mmu_driver.c:829-868, 908-926).                              *)
(***************************************************************************)
THEOREM FramesKept == Spec => []NoFrameLost
<1>1. IInv => NoFrameLost
  <2> SUFFICES ASSUME IInv, ~mem.halted PROVE Taken = {FrameOf(u) : u \in Uses}
    BY DEF NoFrameLost
  <2>1. mem.halted = FALSE
    BY Running
  <2>2. HandedOut(mem) = InUse(mem, With(frames, mem.pml4))
    BY <2>1 DEF IInv, Good, Accounted
  <2> QED BY <2>2, TakenAre, UsedAre
<1> QED BY Invariance, <1>1, PTL

(***************************************************************************)
(* Frames begin in memory, whatever the memory map: each starts in an      *)
(* available entry and, whole, lies outside the kernel and above the local *)
(* heap (mmu_driver.c:546-675).  Where an entry ends inside a page, the    *)
(* rest of that page is not memory (alloc_new_pf(), mmu_driver.c:181-211). *)
(***************************************************************************)
THEOREM FramesInMemory == Spec => []FramesBeginInMemory
<1>1. IInv => FramesBeginInMemory
  <2> SUFFICES ASSUME IInv, NEW u \in Uses
               PROVE  LET f == FrameOf(u)
                      IN  /\ f >= 2 * PageSize
                          /\ f + PageSize <= KernelStart \/ f >= KernelEnd
                          /\ \E i \in DOMAIN Mmap :
                               Available(Mmap[i]) /\ Mmap[i].addr <= f /\ f < EndOf(Mmap[i])
    BY DEF FramesBeginInMemory
  <2>1. FrameOf(u) \in HandedOut(mem) /\ Aligned(FrameOf(u))
    <3>1. FrameOf(u) \in InUse(mem, With(frames, mem.pml4))
      BY UsedAre
    <3>2. Good(mem, With(frames, mem.pml4))
      BY DEF IInv
    <3> QED BY <3>1, <3>2, FramesAligned DEF Good, Accounted
  <2>2. RangesInv(mem) /\ mem \in Mem
    BY DEF IInv, Good
  <2>3. PICK f \in Nat : f = FrameOf(u)
    BY <2>1 DEF HandedOut
  <2>4. PICK i \in DOMAIN Pool : First(i) <= f /\ f < mem.ranges[i].curr
                                 /\ (f - First(i)) % 2 = 0
    BY <2>1, <2>3 DEF HandedOut
  <2>5. PICK c \in Nat : c = mem.ranges[i].curr
    BY <2>2, RangeFields
  <2>6. PICK s, e : s \in Nat /\ e \in Nat /\ s = First(i) /\ e = Limit(i) /\ s < e
    BY PoolFacts
  <2>7. /\ c < e + 2 /\ (c - s) % 2 = 0 /\ s <= f /\ f < c /\ (f - s) % 2 = 0
        /\ f % 2 = 0
    BY <2>1, <2>2, <2>3, <2>4, <2>5, <2>6 DEF RangesInv, Aligned, PageSize
  <2>8. f < e
    <3>1. f + 2 <= c
      BY <2>6, <2>7, Parity
    <3> QED BY <2>6, <2>7, <3>1
  <2>9. PICK l \in DOMAIN Mmap : PieceOf(Pool[i], Mmap[l])
    BY RangesArePieces, EntryNumbers DEF Pieces, Pool
  <2>10. PICK a \in Nat : a = Pool[i].start
    BY <2>9 DEF PieceOf, Range
  <2>11. /\ Available(Mmap[l]) /\ Mmap[l].addr <= a
         /\ e <= EndOf(Mmap[l]) /\ (e <= KernelStart \/ KernelEnd <= a)
    BY <2>6, <2>9, <2>10 DEF PieceOf, Limit
  <2>12. a <= s /\ s >= 4
    <3>1. a <= s
      BY <2>6, <2>10, PoolFacts
    <3>2. CASE i = 1
      BY <2>6, <3>1, <3>2 DEF First
    <3>3. CASE i # 1
      <4>1. s = a
        BY <2>6, <2>10, <3>3 DEF First
      <4>2. First(1) = 4 /\ Limit(1) \in Nat /\ First(1) < Limit(1)
        BY PoolFacts DEF First
      <4>3. Limit(1) <= First(i) \/ Limit(i) <= First(1)
        BY <3>3, PoolFacts
      <4>4. Apart(Pool[1], Pool[i]) /\ Pool[1].start = 0 /\ Pool[1].end = Limit(1)
        <5>1. i \in Nat /\ i > 1 /\ 1 \in DOMAIN Pool
          BY <3>3, PoolFacts
        <5>2. 0 # Len(Mmap)
          BY EntryNumbers
        <5> QED BY <5>1, <5>2, RangesArePieces DEF Pieces, Pool, Limit
      <4>5. Limit(1) <= a
        <5>1. Pool[1].end <= Pool[i].start \/ Pool[i].end <= Pool[1].start
          BY <4>4 DEF Apart
        <5> QED BY <2>6, <2>10, <4>1, <4>4, <5>1 DEF Limit
      <4> QED BY <4>1, <4>2, <4>5, <2>6
    <3> QED BY <3>2, <3>3
  <2>13. /\ Mmap[l].addr \in Nat /\ EndOf(Mmap[l]) \in Nat
         /\ KernelStart \in Nat /\ KernelEnd \in Nat /\ KernelStart % 2 = 0
    BY EntryFields, PagingAssumption DEF Aligned, PageSize
  <2>14. f >= 2 * PageSize
    BY <2>6, <2>7, <2>12 DEF PageSize
  <2>15. f + PageSize <= KernelStart \/ f >= KernelEnd
    <3>1. CASE e <= KernelStart
      <4>1. f < KernelStart
        BY <2>6, <2>8, <2>13, <3>1
      <4>2. f + 2 <= KernelStart
        BY <2>7, <2>13, <4>1
      <4> QED BY <4>2 DEF PageSize
    <3>2. CASE KernelEnd <= a
      BY <2>6, <2>7, <2>12, <2>13, <3>2
    <3> QED BY <2>11, <3>1, <3>2
  <2>16. Mmap[l].addr <= f /\ f < EndOf(Mmap[l])
    BY <2>6, <2>7, <2>8, <2>11, <2>12, <2>13
  <2> QED BY <2>3, <2>11, <2>14, <2>15, <2>16
<1> QED BY Invariance, <1>1, PTL

-----------------------------------------------------------------------------
(***************************************************************************)
(* The first access to a page.                                             *)
(***************************************************************************)
(* Writing an entry does not halt the system.                              *)
LEMMA EntrySetKeepsHalt ==
  ASSUME NEW m \in Mem, NEW v, NEW e, NEW n, n = SetEntry(m, v, e)
  PROVE  n.halted => m.halted
<1>1. PICK g : g = Put(m.pte, v, e)
  OBVIOUS
<1>2. n = [m EXCEPT !.pte = g]
  BY <1>1 DEF SetEntry
<1> QED BY <1>2 DEF Mem

(* page_fault_irq() of a page that is reached halts only when the frame it *)
(* asks for is the last: it allocates no table, and the frame can be mapped *)
(* (mmu_driver.c:677-769).                                                 *)
LEMMA FaultHalts ==
  ASSUME NEW m, NEW X, Good(m, X), m.halted = FALSE,
         NEW v \in Nat, Reached(m, v), ~Entry(m, v).present,
         NEW n, n = page_fault_irq(m, v), n.halted
  PROVE  m.free = <<>> /\ LastTaken(m)
<1>1. get_pt_entry(m, v) = m
  BY Tables DEF Reached
<1>2. Entry(m, v).alloc
  <2>1. Entry(m, v) = m.pte[v] /\ Entry(m, v) \in EntryType
    BY EntryFacts DEF Reached
  <2> QED BY <2>1 DEF Reached, EntryType
<1>3. PICK new : new = MMU_pf_alloc(m)
  OBVIOUS
<1>4. PICK k, f : k = new.mem /\ f = new.pf
  OBVIOUS
<1>5. n = IF k.halted THEN k ELSE map_page(k, f, v)
  BY <1>1, <1>2, <1>3, <1>4 DEF page_fault_irq
<1>6. /\ Good(k, With(X, f)) /\ f \in Nat /\ SamePages(m, k)
      /\ k.halted => m.free = <<>> /\ LastTaken(m)
  <2>1. /\ Good(new.mem, With(X, new.pf)) /\ new.pf \in Nat /\ SamePages(m, new.mem)
        /\ new.mem.halted => m.free = <<>> /\ LastTaken(m)
    BY <1>3, FrameAllocated
  <2> QED BY <1>4, <2>1
<1>7. ASSUME ~k.halted PROVE FALSE
  <2> DEFINE e == [present |-> TRUE, alloc |-> FALSE, frame |-> f]
  <2>1. get_pt_entry(k, v) = k
    <3>1. Way(v) \subseteq DOMAIN k.tables
      BY <1>6 DEF Reached, SamePages
    <3> QED BY <1>6, <3>1, Tables
  <2>2. ~Entry(k, v).present
    BY <1>6 DEF Entry, SamePages
  <2>3. Aligned(f)
    <3>1. f \in InUse(k, With(X, f))
      BY DEF InUse, With
    <3> QED BY <1>6, <3>1, FramesAligned
  <2>4. n = SetEntry(k, v, e)
    BY <1>5, <1>7, <2>1, <2>2, <2>3 DEF map_page
  <2> HIDE DEF e
  <2>5. k \in Mem
    BY <1>6 DEF Good
  <2>6. n.halted => k.halted
    BY <2>4, <2>5, EntrySetKeepsHalt
  <2> QED BY <1>7, <2>6
<1> QED BY <1>6, <1>7

(* The pages that callers own are reached; with IInv this is inductive:    *)
(* tables are never given back, and an entry is reset only when its page   *)
(* is freed.                                                               *)
Reachable == \A v \in pages : Reached(mem, v)

(* Pages that stay allocated stay reached when their entries stay.         *)
LEMMA StaysReached ==
  ASSUME NEW m, NEW n, NEW v, NEW w, Reached(m, w), w # v \/ n.pte = m.pte \/ Present(n, v),
         OnlyEntry(m, n, v), DOMAIN m.tables \subseteq DOMAIN n.tables
  PROVE  Reached(n, w)
  BY DEF Reached, OnlyEntry, Present

(* Getting and freeing frames reaches the same pages.                      *)
LEMMA FramesLeaveReached ==
  ASSUME IInv, Reachable, PfAlloc \/ \E f \in frames : PfFree(f)
  PROVE  Reachable'
<1>1. CASE PfAlloc
  <2>1. PICK got : got = MMU_pf_alloc(mem)
    OBVIOUS
  <2>2. mem' = got.mem /\ pages' = pages /\ mem.halted = FALSE
    BY <1>1, <2>1, Running DEF PfAlloc
  <2>3. SamePages(mem, got.mem)
    BY <2>1, <2>2, FrameAllocated DEF IInv
  <2> QED BY <2>2, <2>3 DEF Reachable, Reached, SamePages
<1>2. ASSUME NEW f \in frames, PfFree(f) PROVE Reachable'
  <2>1. PICK m : m = MMU_pf_free(mem, f)
    OBVIOUS
  <2>2. mem' = m /\ pages' = pages
    BY <1>2, <2>1 DEF PfFree
  <2>3. PICK X : X = With(frames \ {f}, mem.pml4)
    OBVIOUS
  <2>4. With(X, f) = With(frames, mem.pml4) /\ f \notin X /\ f \in Nat
    <3>1. f # mem.pml4
      BY DEF IInv
    <3> QED BY <2>3, <3>1, Running DEF With
  <2>5. Good(mem, With(X, f))
    BY <2>4 DEF IInv
  <2>6. SamePages(mem, m)
    BY <2>1, <2>4, <2>5, PfFreed
  <2> QED BY <2>2, <2>6 DEF Reachable, Reached, SamePages
<1> QED BY <1>1, <1>2

(* Pages that are allocated are reached, and the others stay so.           *)
LEMMA NewPagesReached ==
  ASSUME IInv, Reachable, NEW r \in Regions,
         AllocPage(r) \/ \E i \in Increments : Brk(i, r)
  PROVE  Reachable'
<1>0. PICK X : Good(mem, X)
  BY DEF IInv
<1>1. CASE AllocPage(r)
  <2>1. PICK m : m = MMU_alloc_page(mem, r)
    OBVIOUS
  <2>2. /\ mem' = m /\ pages' = (IF m.halted THEN pages ELSE pages \cup {mem.bank[r]})
        /\ mem.bank[r] + 1 <= RegionStart[r] + MaxPages
    BY <1>1, <2>1 DEF AllocPage, Room
  <2>3. /\ \A w \in DOMAIN mem.pte : w \in DOMAIN m.pte /\ m.pte[w] = mem.pte[w]
        /\ DOMAIN mem.tables \subseteq DOMAIN m.tables
        /\ (m.halted /\ m.bank = mem.bank) \/ PageGiven(mem, m, r)
    BY <1>0, <2>1, <2>2, PageAllocated
  <2>4. \A w \in pages : Reached(m, w)
    BY <2>3 DEF Reachable, Reached
  <2>5. ~m.halted => Reached(m, mem.bank[r])
    BY <2>3 DEF PageGiven
  <2> QED BY <2>2, <2>4, <2>5 DEF Reachable
<1>2. ASSUME NEW i \in Increments, Brk(i, r) PROVE Reachable'
  <2>1. PICK num : num = i \div PageSize
    OBVIOUS
  <2>2. num \in Nat
    BY <2>1, MmuAssumption DEF PageSize
  <2>3. PICK m : m = MMU_alloc_pages(mem, num, r)
    OBVIOUS
  <2>4. /\ mem' = m /\ pages' = pages \cup (mem.bank[r] .. (m.bank[r] - 1))
        /\ mem.bank[r] + num <= RegionStart[r] + MaxPages
    BY <1>2, <2>1, <2>3 DEF Brk, Room, brk, Grown
  <2>5. /\ \A w : Reached(mem, w) => Reached(m, w)
        /\ \A w \in mem.bank[r] .. (m.bank[r] - 1) : Reached(m, w)
    BY <1>0, <2>2, <2>3, <2>4, PagesAllocated
  <2> QED BY <2>4, <2>5 DEF Reachable
<1> QED BY <1>1, <1>2

(* A page that is accessed is present then, and freeing a page disturbs no *)
(* other.                                                                  *)
LEMMA UseLeavesReached ==
  ASSUME IInv, Reachable, NEW v \in pages, Access(v) \/ FreePage(v) \/ FreePages(v, 2)
  PROVE  Reachable'
<1>0. /\ Good(mem, With(frames, mem.pml4))
      /\ v \in Nat /\ Allotted(mem, v) /\ v > MapInit
  BY AboveMapInit DEF IInv
<1>1. CASE Access(v)
  <2>1. PICK m : m = page_fault_irq(mem, v)
    OBVIOUS
  <2>2. mem' = m /\ pages' = pages
    BY <1>1, <2>1 DEF Access
  <2>3. /\ OnlyEntry(mem, m, v) /\ DOMAIN mem.tables \subseteq DOMAIN m.tables
        /\ m.pte = mem.pte \/ Present(m, v)
    BY <1>0, <2>1, FaultServed
  <2>4. \A w \in pages : Reached(m, w)
    BY <2>3, StaysReached DEF Reachable
  <2> QED BY <2>2, <2>4 DEF Reachable
<1>2. CASE FreePage(v)
  <2>1. PICK m : m = MMU_free_page(mem, v)
    OBVIOUS
  <2>2. mem' = m /\ pages' = pages \ {v}
    BY <1>2, <2>1 DEF FreePage
  <2>3. OnlyEntry(mem, m, v) /\ DOMAIN mem.tables \subseteq DOMAIN m.tables
    BY <1>0, <2>1, PageFreed
  <2>4. \A w \in pages \ {v} : Reached(m, w)
    BY <2>3, StaysReached DEF Reachable
  <2> QED BY <2>2, <2>4 DEF Reachable
<1>3. CASE FreePages(v, 2)
  <2>1. PICK m : m = MMU_free_pages(mem, v, 2)
    OBVIOUS
  <2>2. mem' = m /\ pages' = pages \ {v, v + 1}
    <3>1. v .. (v + 2 - 1) = {v, v + 1}
      BY <1>0
    <3> QED BY <1>3, <2>1, <3>1 DEF FreePages
  <2>3. \A w : w # v /\ w # v + 1 /\ Reached(mem, w) => Reached(m, w)
    BY <1>0, <2>1, PagesFreed
  <2> QED BY <2>2, <2>3 DEF Reachable
<1> QED BY <1>1, <1>2, <1>3

(* The pages of callers are reached in every state.                        *)
LEMMA AlwaysReachable == Spec => []Reachable
<1>1. Init => Reachable
  BY DEF Init, Reachable
<1>2. IInv /\ Reachable /\ [Next]_vars => Reachable'
  <2> SUFFICES ASSUME IInv, Reachable, [Next]_vars PROVE Reachable'
    OBVIOUS
  <2>1. CASE UNCHANGED vars
    BY <2>1 DEF vars, Reachable
  <2>2. CASE Next
    BY <2>2, FramesLeaveReached, NewPagesReached, UseLeavesReached DEF Next
  <2> QED BY <2>1, <2>2
<1> QED BY <1>1, <1>2, Invariance, PTL DEF Spec

(***************************************************************************)
(* The first access to an allocated page is served while two frames are    *)
(* left: the handler finds the page's entry without allocating a table,    *)
(* and halts only for want of a frame (mmu_driver.c:677-769, 871-889),     *)
(* which is one too early: the last frame is not given out (mmu_driver.c:  *)
(* 198-203).                                                               *)
(***************************************************************************)
THEOREM AccessesServed == Spec => AccessServed
<1>1. ASSUME IInv, Reachable, NEW v \in pages, Access(v), mem'.halted PROVE AtMostOneLeft
  <2>1. mem.free = <<>> /\ LastTaken(mem)
    <3>1. PICK m : m = page_fault_irq(mem, v)
      OBVIOUS
    <3>2. mem' = m /\ mem.halted = FALSE /\ ~Entry(mem, v).present
      BY <1>1, <3>1, Running DEF Access
    <3>3. Good(mem, With(frames, mem.pml4)) /\ v \in Nat /\ Reached(mem, v) /\ m.halted
      BY <1>1, <3>2 DEF IInv, Reachable
    <3> QED BY <3>1, <3>2, <3>3, FaultHalts
  <2>2. mem.ranges[mem.cur] \in Range
    BY <1>1, RangeFields DEF IInv, Good, RangesInv
  <2> QED BY <2>1, <2>2 DEF AtMostOneLeft, LastRange, LastTaken, Range, PageSize
<1>2. IInv /\ Reachable /\ [Next]_vars =>
        [\A v \in pages : Access(v) /\ mem'.halted => AtMostOneLeft]_vars
  BY <1>1
<1> QED BY Invariance, AlwaysReachable, <1>2, PTL DEF Spec, AccessServed
=============================================================================
