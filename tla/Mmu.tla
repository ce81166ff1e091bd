-------------------------------- MODULE Mmu ---------------------------------
(***************************************************************************)
(* The users of the memory manager after MMU_init(): they take and free    *)
(* page frames, allocate virtual pages (directly, and through kbrk() and   *)
(* sbrk()), access the pages they own, whose first access faults into      *)
(* page_fault_irq(), and free pages.  A user frees only what it owns.      *)
(***************************************************************************)
EXTENDS Paging

CONSTANTS
  Mmap,        (* the memory of the machine: sequence of [addr, len, type] *)
  BootInfos,   (* what the boot loader may leave: sequences of tags *)
  InfoAddr,    (* where it leaves it *)
  Increments,  (* the increments asked of kbrk() and sbrk() *)
  MaxPages,    (* bound: virtual pages ever allocated in a region *)
  MaxFrames    (* bound: frames that users hold at a time *)

ASSUME MmuAssumption ==
  /\ Increments \subseteq Nat /\ MaxPages \in Nat
  /\ \A r, s \in Regions :
       r # s => \/ RegionStart[r] + MaxPages <= RegionStart[s]
                \/ RegionStart[s] + MaxPages <= RegionStart[r]

(* The boot loader leaves the machine's memory map, at a multiple of 8. *)
ASSUME BootAssumption ==
  /\ InfoAddr \in Nat /\ InfoAddr % 8 = 0
  /\ \A tags \in BootInfos :
       /\ WellFormed(tags)
       /\ \E i \in DOMAIN tags : Describes(tags, i, Mmap)

(***************************************************************************)
(* A machine the kernel can run on: the entries of its map are apart, and  *)
(* an available one starts at a page boundary, where it may not end, and   *)
(* holds the kernel and memory behind it, or nothing of the kernel; the    *)
(* first starts at 0 and goes beyond the local heap, which has room for    *)
(* the ranges of all of them.                                              *)
(***************************************************************************)
EndOf(e) == e.addr + e.len
HoldsKernel(e) == e.addr <= KernelStart /\ KernelEnd <= EndOf(e)
Available(e) == e.type = MULTIBOOT_MEMORY_AVAILABLE

ASSUME MmapAssumption ==
  /\ Mmap \in MemoryMaps /\ Mmap # <<>>
  /\ \A i, j \in DOMAIN Mmap :
       i < j => EndOf(Mmap[i]) <= Mmap[j].addr \/ EndOf(Mmap[j]) <= Mmap[i].addr
  /\ \A i \in DOMAIN Mmap :
       LET e == Mmap[i]
       IN  Available(e) => /\ Aligned(e.addr)
                           /\ \/ HoldsKernel(e) /\ Align(KernelEnd) < EndOf(e)
                              \/ EndOf(e) <= KernelStart \/ KernelEnd <= e.addr
  /\ Available(Mmap[1]) /\ Mmap[1].addr = 0
  /\ EndOf(Mmap[1]) > 2 * PageSize /\ KernelStart > 2 * PageSize
  /\ HeapHolds(Mmap) /\ Len(AddrRanges(Mmap)) <= HeapRanges

VARIABLES
  mem,     (* the memory manager, see Paging *)
  frames,  (* frames taken with MMU_pf_alloc() and not freed *)
  pages    (* virtual pages allocated and not freed *)

vars == <<mem, frames, pages>>

Init ==
  /\ \E tags \in BootInfos : mem = MMU_init(Loaded(tags, InfoAddr), InfoAddr)
  /\ frames = {} /\ pages = {}

PfAlloc ==
  /\ ~mem.halted
  /\ Cardinality(frames) < MaxFrames
  /\ LET got == MMU_pf_alloc(mem)
     IN  /\ mem' = got.mem
         /\ frames' = IF got.mem.halted THEN frames ELSE frames \cup {got.pf}
  /\ UNCHANGED pages

PfFree(pf) ==
  /\ ~mem.halted
  /\ pf \in frames
  /\ mem' = MMU_pf_free(mem, pf)
  /\ frames' = frames \ {pf}
  /\ UNCHANGED pages

(* The pages a region grew by. *)
Grown(before, after, region) == before.bank[region] .. (after.bank[region] - 1)

(* The bound: a region never reuses the address of a freed page. *)
Room(region, n) == mem.bank[region] + n <= RegionStart[region] + MaxPages

AllocPage(region) ==
  /\ ~mem.halted
  /\ Room(region, 1)
  /\ mem' = MMU_alloc_page(mem, region)
  /\ pages' = IF mem'.halted THEN pages ELSE pages \cup {mem.bank[region]}
  /\ UNCHANGED frames

Brk(increment, region) ==
  /\ ~mem.halted
  /\ Room(region, increment \div PageSize)
  /\ mem' = brk(mem, increment, region)
  /\ pages' = pages \cup Grown(mem, mem', region)
  /\ UNCHANGED frames

(* A load or store: it completes, or faults and is restarted. *)
Access(v) ==
  /\ ~mem.halted
  /\ v \in pages
  /\ ~Entry(mem, v).present
  /\ mem' = page_fault_irq(mem, v)
  /\ UNCHANGED <<frames, pages>>

FreePage(v) ==
  /\ ~mem.halted
  /\ v \in pages
  /\ mem' = MMU_free_page(mem, v)
  /\ pages' = pages \ {v}
  /\ UNCHANGED frames

FreePages(v, n) ==
  /\ ~mem.halted
  /\ v .. (v + n - 1) \subseteq pages
  /\ mem' = MMU_free_pages(mem, v, n)
  /\ pages' = pages \ (v .. (v + n - 1))
  /\ UNCHANGED frames

Next ==
  \/ PfAlloc
  \/ \E pf \in frames : PfFree(pf)
  \/ \E r \in Regions : AllocPage(r)
  \/ \E r \in Regions, n \in Increments : Brk(n, r)
  \/ \E v \in pages : Access(v) \/ FreePage(v) \/ FreePages(v, 2)

Spec == Init /\ [][Next]_vars
-----------------------------------------------------------------------------
(* What each frame is used for.  A frame used for two things is listed     *)
(* twice, so uses are pairs.                                               *)
DataPages == {v \in DOMAIN mem.pte : v > MapInit /\ mem.pte[v].present}

Uses ==
  {<<"pml4", mem.pml4, mem.pml4>>}
    \cup {<<"table", t, mem.tables[t]>> : t \in DOMAIN mem.tables}
    \cup {<<"page", v, mem.pte[v].frame>> : v \in DataPages}
    \cup {<<"caller", pf, pf>> : pf \in frames}
    \cup {<<"free", i, mem.free[i]>> : i \in DOMAIN mem.free}

FrameOf(use) == use[3]

(* The frames alloc_new_pf() has taken from range i. *)
TakenFrom(i) ==
  LET r == mem.ranges[i]
      first == IF i = 1 THEN 2 * PageSize ELSE r.start
  IN  {a \in first .. (r.curr - 1) : (a - first) % PageSize = 0}

Taken == UNION {TakenFrom(i) : i \in DOMAIN mem.ranges}

TypeOK ==
  /\ mem.cur \in DOMAIN mem.ranges
  /\ mem.free \in Seq(Nat)
  /\ \A v \in DOMAIN mem.pte :
       mem.pte[v] \in [present : BOOLEAN, alloc : BOOLEAN, frame : Nat]
  /\ frames \subseteq Nat /\ pages \subseteq Nat

(***************************************************************************)
(* The memory manager works with the machine's memory map, whatever tags,  *)
(* and of whatever sizes, the boot loader put before and after it          *)
(* (multiboot2.c:276-306, mmu_driver.c:557).                               *)
(***************************************************************************)
MemoryMapFound == mem.mmap = Mmap

(***************************************************************************)
(* No memory has two uses: a frame is the PML4, or one page table, or one  *)
(* page, or a caller's, or free, once, and no two frames in use overlap    *)
(* (mmu_driver.c:181-225, 829-868).  (With the types.)                     *)
(***************************************************************************)
Overlap(f, g) == f < g + PageSize /\ g < f + PageSize

FramesUsedOnce ==
  /\ TypeOK
  /\ \A u, w \in Uses : Overlap(FrameOf(u), FrameOf(w)) => u = w

(***************************************************************************)
(* No frame is lost: while the system runs, every frame taken from the     *)
(* ranges is in use or on the free list (mmu_driver.c:829-868, 908-926).   *)
(***************************************************************************)
NoFrameLost == ~mem.halted => Taken = {FrameOf(u) : u \in Uses}

(***************************************************************************)
(* Frames begin in memory: each starts in an available entry of the memory *)
(* map and, whole, lies outside the kernel and above the local heap        *)
(* (mmu_driver.c:546-675).                                                 *)
(***************************************************************************)
FramesBeginInMemory ==
  \A u \in Uses :
    LET f == FrameOf(u)
    IN  /\ f >= 2 * PageSize
        /\ f + PageSize <= KernelStart \/ f >= KernelEnd
        /\ \E i \in DOMAIN Mmap :
             Available(Mmap[i]) /\ Mmap[i].addr <= f /\ f < EndOf(Mmap[i])

(***************************************************************************)
(* A page stays where it is: once present, the page of a caller keeps its  *)
(* frame until it is freed (mmu_driver.c:287-313, 871-889).                *)
(***************************************************************************)
MappingStable ==
  [][\A v \in pages \cap pages' :
       Entry(mem, v).present => Entry(mem', v) = Entry(mem, v)]_vars

(***************************************************************************)
(* The first access to a page that was allocated is served while two       *)
(* frames are left: the handler halts the system only when nothing is on   *)
(* the free list and the last range holds at most one more page or part of *)
(* one (mmu_driver.c:181-211, 677-769, 871-889).                           *)
(***************************************************************************)
LastRange == mem.ranges[Len(mem.ranges)]

AtMostOneLeft ==
  /\ mem.free = <<>> /\ mem.cur = Len(mem.ranges)
  /\ LastRange.curr + PageSize >= LastRange.end

AccessServed ==
  [][\A v \in pages : Access(v) /\ mem'.halted => AtMostOneLeft]_vars
=============================================================================
