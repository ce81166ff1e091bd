------------------------------- MODULE Paging -------------------------------
(***************************************************************************)
(* The functions of src/drivers/mmu_driver.c, as operators on the state of *)
(* the memory manager:                                                     *)
(*   ranges - the available physical ranges, in list order; cur is the     *)
(*            index of addr_range_curr                                     *)
(*   free   - the list of freed page frames, pf_free_list_head first       *)
(*   tables - the page tables below the PML4 and the frames they are in    *)
(*   pml4   - the frame of the PML4                                        *)
(*   pte    - the page table entries that are not zero                     *)
(*   bank   - the next virtual page of each region (virt_addr_bank)        *)
(*   mmap   - mmap_entries, the memory map as it was read                  *)
(*   loaded - CR3 points to pml4: memory is reached through pte            *)
(*   halted - OS_ERROR_HALT(); nothing runs any more                       *)
(*                                                                         *)
(* Physical addresses are in units of half a page, so that a range can end *)
(* inside a page; a frame is named by its address.  Virtual pages are page *)
(* numbers.  A table has Fanout entries (512 in the code).                 *)
(***************************************************************************)
EXTENDS Multiboot, FiniteSets

CONSTANTS
  KernelStart, (* kernel_start_addr *)
  KernelEnd,   (* kernel_end_addr *)
  MapInit,     (* MAP_INIT_SIZE, in pages *)
  HeapRanges,  (* ranges that fit in the page of the local heap, 128 in the code *)
  Fanout,      (* entries of a page table *)
  Regions,     (* the regions callers allocate virtual pages in *)
  RegionStart  (* region |-> its first virtual page *)

PageSize == 2  \* units of a page
Null == 0
NoEntry == [present |-> FALSE, alloc |-> FALSE, frame |-> Null]

Aligned(a) == a % PageSize = 0

(* The linker script places the kernel at a page boundary, 0x100000, and   *)
(* the end behind the start: addr_map_init() halts otherwise.              *)
ASSUME PagingAssumption ==
  /\ Fanout \in Nat \ {0, 1} /\ MapInit \in Nat /\ HeapRanges \in Nat
  /\ KernelStart \in Nat /\ KernelEnd \in Nat /\ KernelStart < KernelEnd
  /\ Aligned(KernelStart)
  /\ RegionStart \in [Regions -> Nat] /\ \A r \in Regions : RegionStart[r] > MapInit

Put(f, x, y) == [z \in DOMAIN f \cup {x} |-> IF z = x THEN y ELSE f[z]]

Align(a) == ((a + PageSize - 1) \div PageSize) * PageSize

Halt(m) == [m EXCEPT !.halted = TRUE]

Entry(m, v) == IF v \in DOMAIN m.pte THEN m.pte[v] ELSE NoEntry
SetEntry(m, v, e) == [m EXCEPT !.pte = Put(@, v, e)]

(***************************************************************************)
(* Physical memory can be written at addr: before CR3 is loaded everywhere *)
(* (the boot tables), afterwards only where the first pages are mapped     *)
(* one to one.  An access elsewhere is a fault page_fault_irq() halts on.  *)
(***************************************************************************)
Accessible(m, addr) ==
  ~m.loaded \/ LET e == Entry(m, addr \div PageSize)
               IN  e.present /\ e.frame = addr
-----------------------------------------------------------------------------
(* addr_map_init(): the available ranges without the kernel.  The first    *)
(* range starts at page 2: page 0 is NULL and page 1 is the local heap.    *)
RangeOf(start, end) == [start |-> start, end |-> end, curr |-> start]

\* mutated: the range after the kernel starts at the end of the kernel's last whole page
RangesRoundedDown(e) ==
  LET end == e.addr + e.len
      after == RangeOf((KernelEnd \div PageSize) * PageSize, end)
  IN  IF e.type # MULTIBOOT_MEMORY_AVAILABLE THEN <<>>
      ELSE IF e.addr <= KernelStart /\ KernelEnd <= end
           THEN IF KernelStart # e.addr THEN <<RangeOf(e.addr, KernelStart), after>>
                ELSE <<after>>
           ELSE <<RangeOf(e.addr, end)>>

RangesOf(e) ==
  LET end == e.addr + e.len
      after == RangeOf(Align(KernelEnd), end)
  IN  IF e.type # MULTIBOOT_MEMORY_AVAILABLE THEN <<>>
      ELSE IF e.addr <= KernelStart /\ KernelEnd <= end
           THEN IF KernelStart # e.addr THEN <<RangeOf(e.addr, KernelStart), after>>
                ELSE <<after>>
           ELSE <<RangeOf(e.addr, end)>>

AddrRanges(mmap) ==
  LET upTo[i \in 0..Len(mmap)] ==
        IF i = 0 THEN <<>> ELSE upTo[i - 1] \o RangesOf(mmap[i])
  IN  upTo[Len(mmap)]

(* Before each available entry the local heap must not have passed its     *)
(* page; an entry that holds the kernel takes two ranges after one check.  *)
HeapHolds(mmap) ==
  \A i \in DOMAIN mmap :
    mmap[i].type = MULTIBOOT_MEMORY_AVAILABLE =>
      Len(AddrRanges(SubSeq(mmap, 1, i - 1))) <= HeapRanges

(* A memory map that is empty, does not start at 0 or has too many ranges  *)
(* halts the system.                                                       *)
MapAccepted(mmap) == mmap # <<>> /\ mmap[1].addr = 0 /\ HeapHolds(mmap)

addr_map_init(mmap) ==
  [ranges |-> IF MapAccepted(mmap)
              THEN [AddrRanges(mmap) EXCEPT ![1].curr = 2 * PageSize] ELSE <<>>,
   cur |-> 1, mmap |-> mmap,
   free |-> <<>>, tables |-> [t \in {} |-> Null], pml4 |-> Null,
   pte |-> [v \in {} |-> NoEntry], bank |-> RegionStart,
   loaded |-> FALSE, halted |-> ~MapAccepted(mmap)]
-----------------------------------------------------------------------------
(***************************************************************************)
(* alloc_new_pf(): the next frame that was never used.  The frame that     *)
(* exhausts the last range is not returned: the system halts.              *)
(***************************************************************************)
alloc_new_pf(m) ==
  LET r == m.ranges[m.cur]
      used == [m EXCEPT !.ranges[m.cur].curr = @ + PageSize]
  IN  [pf |-> r.curr,
       mem |-> IF r.curr = Null THEN Halt(m)
               ELSE IF r.curr + PageSize < r.end THEN used
               ELSE IF m.cur = Len(m.ranges) THEN Halt(used)
               ELSE [used EXCEPT !.cur = @ + 1]]

\* mutated: the frame is not taken off the free list
PfAllocKeepingFree(m) ==
  IF m.free = <<>> THEN alloc_new_pf(m)
  ELSE [pf |-> Head(m.free), mem |-> m]

MMU_pf_alloc(m) ==
  IF m.free = <<>> THEN alloc_new_pf(m)
  ELSE [pf |-> Head(m.free), mem |-> [m EXCEPT !.free = Tail(@)]]

(* MMU_pf_free(): the link to the next free frame is kept in the frame. *)
MMU_pf_free(m, pf) ==
  IF ~Aligned(pf) \/ pf = Null \/ ~Accessible(m, pf) THEN Halt(m)
  ELSE [m EXCEPT !.free = <<pf>> \o @]
-----------------------------------------------------------------------------
(* A table is named by its level and the part of the address it covers. *)
Table(level, v) == <<level, v \div Fanout^level>>

(* alloc_table_entry(), when the entry for the table is not present.  An   *)
(* entry keeps its frame without the part inside a page: all of it, since  *)
(* frames start at page boundaries (MmapAssumption in Mmu).                *)
alloc_table_entry(m, t) ==
  LET got == MMU_pf_alloc(m)
  IN  IF m.halted \/ t \in DOMAIN m.tables THEN m
      ELSE IF got.mem.halted \/ ~Accessible(got.mem, got.pf) THEN Halt(got.mem)
      ELSE [got.mem EXCEPT !.tables = Put(@, t, got.pf)]

(* get_pt_entry(): the missing tables on the way are allocated, top first. *)
get_pt_entry(m, v) ==
  LET pdpt == alloc_table_entry(m, Table(3, v))
      pd   == alloc_table_entry(pdpt, Table(2, v))
  IN  alloc_table_entry(pd, Table(1, v))

map_page(m, pf, v) ==
  LET got == get_pt_entry(m, v)
  IN  IF m.halted \/ ~Aligned(pf) THEN Halt(m)
      ELSE IF got.halted \/ Entry(got, v).present THEN Halt(got)
      ELSE SetEntry(got, v, [present |-> TRUE, alloc |-> FALSE, frame |-> pf])

(***************************************************************************)
(* MMU_init(): the PML4, then the pages 0..MapInit one to one (the loop    *)
(* includes the page at MAP_INIT_SIZE), then CR3.                          *)
(***************************************************************************)
Mapped(start) ==
  LET top == MMU_pf_alloc(start)
      base == [top.mem EXCEPT !.pml4 = top.pf]
      mapped[v \in 0..MapInit] ==
        map_page(IF v = 0 THEN base ELSE mapped[v - 1], v * PageSize, v)
  IN  [mapped[MapInit] EXCEPT !.loaded = TRUE]

MMU_init(memory, addr) ==
  LET start == addr_map_init(get_multiboot2_mmap_info(memory, addr))
  IN  IF start.halted THEN start ELSE Mapped(start)
-----------------------------------------------------------------------------
(* page_fault_irq(): a page allocated on demand gets its frame. *)
page_fault_irq(m, v) ==
  LET got == get_pt_entry(m, v)
      new == MMU_pf_alloc(got)
  IN  IF got.halted \/ Entry(got, v).present \/ ~Entry(got, v).alloc THEN Halt(got)
      ELSE IF new.mem.halted THEN new.mem
      ELSE map_page(new.mem, new.pf, v)

\* mutated: the region does not advance
AllocPageInPlace(m, region) ==
  LET v == m.bank[region]
      got == get_pt_entry(m, v)
  IN  IF got.halted THEN got
      ELSE SetEntry(got, v, [Entry(got, v) EXCEPT !.alloc = TRUE, !.present = FALSE])

\* mutated: the entry is not marked as allocated
AllocPageUnmarked(m, region) ==
  LET got == get_pt_entry(m, m.bank[region])
  IN  IF got.halted THEN got ELSE [got EXCEPT !.bank[region] = @ + 1]

MMU_alloc_page(m, region) ==
  LET v == m.bank[region]
      got == get_pt_entry(m, v)
      entry == [Entry(got, v) EXCEPT !.alloc = TRUE, !.present = FALSE]
  IN  IF got.halted THEN got
      ELSE [SetEntry(got, v, entry) EXCEPT !.bank[region] = @ + 1]

MMU_alloc_pages(m, num_pages, region) ==
  LET after[i \in 0..num_pages] ==
        IF i = 0 THEN m
        ELSE IF after[i - 1].halted THEN after[i - 1]
        ELSE MMU_alloc_page(after[i - 1], region)
  IN  after[num_pages]

(* kbrk() and sbrk(): whole pages only; 0 just asks for the break. *)
brk(m, increment, region) == MMU_alloc_pages(m, increment \div PageSize, region)

\* mutated: the frame is not freed
FreePageOnly(m, v) ==
  LET got == get_pt_entry(m, v)
  IN  IF got.halted THEN got
      ELSE [got EXCEPT !.pte = [w \in DOMAIN @ \ {v} |-> @[w]]]

(* MMU_free_page(): the frame is freed whether or not there is one. *)
MMU_free_page(m, v) ==
  LET got == get_pt_entry(m, v)
      freed == MMU_pf_free(got, Entry(got, v).frame)
  IN  IF got.halted THEN got
      ELSE IF freed.halted THEN freed
      ELSE [freed EXCEPT !.pte = [w \in DOMAIN @ \ {v} |-> @[w]]]

MMU_free_pages(m, v, num_pages) ==
  LET after[i \in 0..num_pages] ==
        IF i = 0 THEN m
        ELSE IF after[i - 1].halted THEN after[i - 1]
        ELSE MMU_free_page(after[i - 1], v + i - 1)
  IN  after[num_pages]
=============================================================================
