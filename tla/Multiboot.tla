----------------------------- MODULE Multiboot ------------------------------
(***************************************************************************)
(* What the boot loader leaves in memory and how src/boot/multiboot2.c     *)
(* reads it: a list of tags, each a type, a size in bytes and its data,    *)
(* that start at multiples of 8 bytes and end with a tag of type 0.        *)
(*                                                                         *)
(* The memory is a function from byte addresses to the objects that start  *)
(* there: the header of a tag, the size of the entries of a memory map, an *)
(* entry.                                                                  *)
(***************************************************************************)
EXTENDS Integers, Sequences

MULTIBOOT_TAG_TYPE_END == 0
MULTIBOOT_TAG_TYPE_MMAP == 6
MULTIBOOT_MEMORY_AVAILABLE == 1

TagSize == 8         \* sizeof( mb_tag_t )
MmapTagSize == 16    \* sizeof( mb_mmap_tag_t )
EntrySize == 24      \* sizeof( mb_mmap_entry_t )
NoTag == 0           \* NULL

(* What is read where no object starts. *)
Nothing == [type |-> 0, size |-> 0]
At(memory, addr) == IF addr \in DOMAIN memory THEN memory[addr] ELSE Nothing

-----------------------------------------------------------------------------
(* The boot loader: tags, of which a memory map has entries, from base on.  *)
MemoryMaps == Seq([addr : Nat, len : Nat \ {0}, type : Nat])

Tag ==
  [type : Nat \ {MULTIBOOT_TAG_TYPE_MMAP}, size : Nat]
    \cup [type : {MULTIBOOT_TAG_TYPE_MMAP}, size : Nat, entries : MemoryMaps]

WellFormed(tags) ==
  /\ tags \in Seq(Tag)
  /\ \A i \in DOMAIN tags :
       /\ tags[i].size >= TagSize
       /\ tags[i].type = MULTIBOOT_TAG_TYPE_MMAP =>
            tags[i].size = MmapTagSize + Len(tags[i].entries) * EntrySize

(* The first memory map among the tags, and before the end of the list. *)
Describes(tags, i, mmap) ==
  /\ tags[i].type = MULTIBOOT_TAG_TYPE_MMAP /\ tags[i].entries = mmap
  /\ \A j \in 1..(i - 1) :
       tags[j].type \notin {MULTIBOOT_TAG_TYPE_END, MULTIBOOT_TAG_TYPE_MMAP}

StartOfTag(tags, base) ==
  LET start[i \in 1..(Len(tags) + 1)] ==
        IF i = 1 THEN base + TagSize
        ELSE CHOOSE a \in start[i - 1] + tags[i - 1].size ..
                          start[i - 1] + tags[i - 1].size + 7 : a % 8 = 0
  IN  start

Header(tag) == [type |-> tag.type, size |-> tag.size]

LoadedFrom(tags, start) ==
  LET maps == {i \in DOMAIN tags : tags[i].type = MULTIBOOT_TAG_TYPE_MMAP}
      headers == {<<start[i], Header(tags[i])>> : i \in DOMAIN tags}
      sizes == {<<start[i] + TagSize, EntrySize>> : i \in maps}
      entries == UNION {{<<start[i] + MmapTagSize + (k - 1) * EntrySize,
                           tags[i].entries[k]>> : k \in DOMAIN tags[i].entries} :
                          i \in maps}
      all == headers \cup sizes \cup entries
  IN  [a \in {c[1] : c \in all} |-> (CHOOSE c \in all : c[1] = a)[2]]

Loaded(tags, base) == LoadedFrom(tags, StartOfTag(tags, base))
-----------------------------------------------------------------------------
NextTag(memory, tag) == tag + ((At(memory, tag).size + 7) \div 8) * 8

(* find_multiboot2_tag(): the first tag of a type, NULL if there is none.   *)
find_multiboot2_tag(memory, addr, tag_type) ==
  LET tag[i \in Nat] ==
        IF i = 0 THEN addr + TagSize ELSE NextTag(memory, tag[i - 1])
      from[i \in Nat] ==
        IF At(memory, tag[i]).type = MULTIBOOT_TAG_TYPE_END THEN NoTag
        ELSE IF At(memory, tag[i]).type = tag_type THEN tag[i]
        ELSE from[i + 1]
  IN  from[0]

\* mutated: the size of the tag is taken to include its first entry
MapButOneEntry(memory, addr) ==
  LET tag == find_multiboot2_tag(memory, addr, MULTIBOOT_TAG_TYPE_MMAP)
      num_entries == (memory[tag].size - MmapTagSize - EntrySize) \div memory[tag + TagSize]
  IN  [k \in 1..num_entries |-> memory[tag + MmapTagSize + (k - 1) * EntrySize]]

(* The boot loader leaves a memory map, so that NULL is not followed, with *)
(* entries of the size of mb_mmap_entry_t, so that they are an array.      *)
get_multiboot2_mmap_info(memory, addr) ==
  LET tag == find_multiboot2_tag(memory, addr, MULTIBOOT_TAG_TYPE_MMAP)
      num_entries == (memory[tag].size - MmapTagSize) \div memory[tag + TagSize]
  IN  [k \in 1..num_entries |-> memory[tag + MmapTagSize + (k - 1) * EntrySize]]
=============================================================================
