------------------------------- MODULE MCMmu --------------------------------
(***************************************************************************)
(* A small machine: 21 pages with a hole from the middle of page 5, where  *)
(* a range ends as the memory below a PC's BIOS does (at 0x9FC00), up to   *)
(* page 8, where a kernel of one page and a half is; tables of 5 entries.  *)
(***************************************************************************)
EXTENDS Mmu

Piece(from, to, type) == [addr |-> from, len |-> to - from, type |-> type]

Memory == <<Piece(0, 11, 1), Piece(11, 16, 2), Piece(16, 42, 1)>>

\* the command line, the boot loader's name, the sizes of memory, the sections
Cmdline(n) == [type |-> 1, size |-> TagSize + n + 1]
Name == [type |-> 2, size |-> TagSize + 12]
Meminfo == [type |-> 4, size |-> 16]
Sections == [type |-> 9, size |-> 20 + 64]
MmapTag == [type |-> 6, size |-> MmapTagSize + 3 * EntrySize, entries |-> Memory]
EndTag == [type |-> 0, size |-> TagSize]

Layouts ==
  {<<Cmdline(n), Name, Sections, Meminfo, MmapTag, EndTag>> : n \in {0, 4, 7}}
    \cup {<<MmapTag, Name, EndTag>>, <<Sections, MmapTag, Meminfo, EndTag>>}

TwoRegions == {"KHEAP", "UHEAP"}
StartOf == [r \in TwoRegions |-> IF r = "KHEAP" THEN 125 ELSE 250]
=============================================================================
