# Bric OS in TLA+

Bric OS (`src/Bric_OS`) is a small x86-64 kernel: it boots from GRUB, brings up
a screen, a serial line, a keyboard, the interrupt controllers, paging and a
heap, and runs cooperative kernel threads. This directory holds TLA+ modules
that model it, TLC configurations that check them on small instances, and
proofs checked by TLAPS. Paths below are relative to `src/Bric_OS/`.

Everything runs on one processor. Four things make the code hard to test:

- data structures made of raw pointers that live in the objects they link
  (threads, heap headers, free frames), under long sequences of legal calls;
- interrupts between any two statements, and critical sections that do not do
  what their names say;
- tables and counters at their limits: the last frame, the end of a page, a
  full FIFO, the last cell of the screen, a nearly full buffer;
- a dialogue with devices that answer at their own pace, without a handshake.

Nothing is persisted and there is no second processor, so there are no crash
recovery, message loss or data races between processors to model.

## 1. Inventory

| Component | Source | State | Operations | Interacts with |
|---|---|---|---|---|
| Round-robin scheduler | `lib/ksched.c` | `ll_head`, `ll_tail`, `ll_len`, two links in each thread record | `rr_admit`, `rr_remove`, `rr_next`, `validate_ll` | called by kernel threads through the `scheduler` tuple |
| Kernel threads | `lib/kproc.c` | `active_sched`, `curr_kthread`, `next_kthread`, `pid_cnt`, the records | `PROC_init`, `PROC_run`, `PROC_create_kthread`, `PROC_set_scheduler`, `PROC_reschedule`, `yield`, `kexit` | scheduler; heap, for records and stacks |
| Kernel heap | `lib/kmalloc.c` | `kernel_heap_head`, the headers in memory, the break | `kmalloc`, `kcalloc`, `krealloc`, `kfree`; `get_empty_mem`, `split_block`, `merge_blocks`, `extend_mem` | `kbrk()` of the memory manager |
| Memory manager | `src/drivers/mmu_driver.c` | ranges of physical memory, list of free frames, page tables, next page of each region | `MMU_pf_alloc/free`, `MMU_alloc_page(s)`, `MMU_free_page(s)`, `kbrk`, `sbrk`, `page_fault_irq`, `MMU_init` | entered by the processor at a page fault; multiboot2 memory map |
| Screen | `src/drivers/vga_driver.c` | cursor, character buffer | `VGA_display_*`, `VGA_scroll`, backspace | called by the kernel and by interrupt handlers |
| Serial line | `src/drivers/serial_io_driver.c` | FIFO of 16 bytes, idle flag, UART | `serial_write`, `prod_add`, `cons_get`, `hw_write` | same; its interrupt is masked |
| Interrupt status | `src/ISR/irq_handler.c` | previous and current status, processor flag, handler table | `IRQ_enable/disable/reenable`, `interrupt_handler`, `IRQ_init` | used by both output drivers |
| Interrupt controllers | `src/ISR/pic.c`, `src/drivers/timer_driver.c` | masks, requests, in-service bits | `PIC_init`, `PIC_remap`, masks, EOI | hardware; boot order |
| Keyboard | `src/drivers/ps2_keyboard_driver.c` | modifier states, case tables; during the set-up its variable for the configuration byte | `process_scan_code`, interrupt handler, set-up dialogue | screen and `printk()` from the handler; controller and keyboard through two ports |
| Formatting, strings | `lib/printk.c`, `lib/string.c` | the buffer of `printk()` | elements of a format, conversions, `mem*`, `str*` | screen and serial line, when the buffer is sent |
| Boot | `src/boot/*`, `src/ISR/gdt.c`, `idt.c` | tables; the tags of the boot loader | initialisation order, walk over the tags to the memory map | all of the above, once |
| Not used by the kernel | `lib/fs.c`, `src/drivers/block_dev.c`, `lib/common.c` swaps | | | |

What makes each of them correct:

- **Scheduler**: the pointers represent a queue whatever the link fields held;
  it rotates; nobody starves; `validate_ll()` never halts correct callers.
- **Threads**: pids are unique; each admitted thread runs; a destroyed thread
  never does.
- **Heap**: the list of headers is whole and tiles the memory; blocks handed
  out are disjoint, aligned, large enough, in use; free neighbours are merged;
  nothing leaks.
- **Memory manager**: a frame has one use and is never lost; it is memory; a
  mapping is stable; a first access is served while frames last.
- **Output**: each byte leaves once and in order; the cursor stays on the
  screen; sections close interrupts; a pressed key is handled.
- **Interrupts and keyboard**: a line is in service while its handler runs and
  not after; handlers are not re-entered; the lines that are open have a
  handler; no modifier sticks.
- **Keyboard set-up**: it ends, and a success means the configuration and the
  scan codes the driver is written for.
- **Formatting**: the text sent is what the format and arguments stand for, and
  no byte is written behind the buffer.
- **Boot**: the memory map is found wherever it is among the tags.

## 2. Modules

| Module | What it is |
|---|---|
| `RunQueue` | Abstract: a FIFO of threads, from the comments of the scheduler tuple in `kproc.h` |
| `SchedList` | `ksched.c` as operators from list to list, pointer by pointer |
| `RRSched` | the three entry points as actions, callers keeping the contract |
| `RRSchedProofs` | theorems about `RRSched` |
| `KProc` | `kproc.c` over `SchedList`; its own caller breaks the scheduler's contract |
| `KProcProofs` | theorems about `KProc` |
| `Allocator` | Abstract: disjoint intervals handed out and returned |
| `Heap` | `kmalloc.c` as operators on the headers |
| `Kmalloc` | callers that allocate, reallocate and free what they own |
| `KmallocProofs` | theorems about `Heap` and `Kmalloc` |
| `ThreadHeap` | `kproc.c` over `Heap`: what the undersized thread record overwrites |
| `Multiboot` | `multiboot2.c` as operators on the memory the boot loader filled |
| `Paging` | `mmu_driver.c` as operators on the memory manager's state, the memory map through `Multiboot` |
| `Mmu` | its users, and the processor's accesses |
| `MmuProofs` | theorems about `Mmu`, `Paging` and `Multiboot` |
| `IrqStatus` | `IRQ_enable()`, `IRQ_disable()`, `IRQ_reenable()`, statement by statement |
| `Console` | screen, serial line and `printk()`, interrupted by the keyboard |
| `ConsoleProofs` | theorems about `Console` and `IrqStatus` |
| `Pic`, `Keyboard` | operators of `pic.c` and of `process_scan_code()` |
| `Ps2Setup` | the set-up of the keyboard: driver, controller and keyboard |
| `Ps2SetupProofs` | theorems about `Ps2Setup` |
| `Strings` | `string.c` as operators on memory |
| `Printk` | `printk()` over `Strings`: an element of the format a step |
| `Devices` | boot order, delivery of interrupts, dispatch, handlers |
| `DevicesProofs` | theorems about `Devices` |
| `Induction` | lemmas for functions defined by recursion over numbers, used by the proofs |
| `MC*` | the instances TLC checks |

`SchedList` is used by two modules of callers, `RRSched` and `KProc`; `Heap` by
`Kmalloc` and `ThreadHeap`; `IrqStatus` by `Console` and `Devices`. `Multiboot` is
used by `Paging`, `Strings` by `Printk`. These operators take the state as a
record, because the code chains calls (`PROC_run()` is `next()` and then
`admit()`, `krealloc()` is up to four functions of the heap): the action of a handler is the composition of all its
calls, never a choice of some of them.

### How state and actions correspond

- **Scheduler.** `list` is the three globals and the two link fields. Link
  fields are total functions with arbitrary initial values: `rr_admit()` leaves
  `sched_next` of a new tail as it was, and `Recycle` gives a record that left
  the pool back with arbitrary links, as `kmalloc()` would. `order` is
  auxiliary. `validate_ll()` comes first in each entry point; when an assertion
  fails the system halts.
- **Threads.** A thread is the address of its record; `kexit()` frees it and a
  later creation may take it again. `Main` is the record of `kmain`, which is
  never scheduled. Context switches are commented out in the code: `yield()` and
  `PROC_reschedule()` assign `curr` and nothing else, so no property says that a
  thread runs. `active` is `active_sched`, the round robin or another
  (`replaced`). `PROC_set_scheduler()` installs one where there was none, without
  a transfer (`InstallScheduler`), or hands the threads over in one step to a
  scheduler that keeps them elsewhere than in the records (`ReplaceScheduler`;
  it admits a thread before the old one removes it); the model ends there.
- **Heap.** Addresses count words of 8 bytes; a header is 4 words and alignment
  2. Data is not kept, headers are. Sizes in headers have 32 bits (`SizeMax`):
  `kmalloc()`, `krealloc()` and `kcalloc()`, whose product may overflow too,
  refuse what does not fit with NULL. A size that fits and is rounded up to 2^32
  extends the heap for ever, and a header written at or above the break is a
  page fault: either ends the model (`fault`). The callers stop where the heap
  has already given memory away twice: beyond that its contents are whatever
  they write. `resized` is auxiliary: it notes the first call of `krealloc()`.
- **Memory manager.** Physical addresses count half pages, so that the kernel
  and a range can end inside one. Available entries and the kernel start at page
  boundaries, as the linker script and firmware place them; so do all frames
  then, and the masks of `WRITE_FRAME_ADDR` and `READ_FRAME_ADDR` change nothing.
  `pte` holds the entries that are not zero, `tables` the
  tables below the PML4 with their frames. A table has `Fanout` entries. The
  link of the free list is in the frame itself; it must be in the identity map
  once CR3 is loaded, or the access faults. `Init` is `MMU_init()`: the memory
  map comes from a list of tags laid out as the boot loader does, at multiples
  of 8, with a memory map among them. Entries are taken to have 24 bytes, as the
  walk indexes them; that it counts them by the size the tag declares makes no
  difference then. The local heap has room for `HeapRanges` ranges, 128 in the
  code.
- **Console.** The kernel's code is a list of operations the size of a C
  statement, and one is done a step, of the kernel or of the keyboard handler
  that interrupted it (`serving`; `held` is then what the kernel has left to
  do); `IRQ_disable()` is three of them, and the column, the row and the wrap of
  the cursor, and the store and the wrap of a pointer of the FIFO, are
  operations of their own. Nothing else is delivered to a handler
  before its EOI. `VGA_display_char()` takes the address of a character as a string, so
  the handler may show what follows it in memory: `KeyStrings`. A key without a
  character makes the handler call `printk()`, `Silent`. An escape's message is
  one character. `line` is what `outb` writes to the UART, which has `UartSize`
  places and sends at its own pace; the driver looks at it only where the code
  does, when it is not idle. An access past the buffer of the FIFO is noted
  (`stray`) and ends the model; a character stored past the screen is noted
  (`wild`). `taken`, `line`, `warned` and `escaped` are auxiliary.
- **Keyboard set-up.** Each access to a port is a step of the driver, `at` the
  next one. The delays of the code order nothing: the controller takes a command
  at any later time, and what it has not taken is overwritten by the next
  (`late`). Reads of answers are not polled: `data_port_read()` returns what the
  data port holds. Controller and keyboard are external, an i8042 and a PS/2
  keyboard as far as the driver uses them: translation, self tests, an ACK for
  each byte, resends, and a keyboard that does or does not forget an answer
  nobody read when a command comes. A key that is pressed sends a byte that is
  none of those the driver compares with, or one of the three that are
  (`Lookalikes`): F7, whose code is translated to `SCAN_CODE_SET2`, comma, whose
  code is that byte untranslated, and equals, the answer to the self test.
- **Formatting.** A `char *` is a function of offsets to bytes, with the guard
  bytes behind the buffer in it. A step is an iteration of the loop in
  `printk()`: it may send the buffer, and appends what one element of the format
  stands for, by the chain of `strncat()`, `strlen()` and `strncpy()` that the
  code makes. `pending`, auxiliary, gets the text that `printf()`, whose format
  `printk()` is declared to take (`printk.h:25`), makes of it: with `h` that of a
  short, with `z` that of a number; `lengths`, auxiliary, notes that one of these
  came. Integers have `ShortBits`, `IntBits` and `LongBits`; the most negative
  one is negated modulo `2^LongBits`, as the processor does. A pointer has at
  least `PointerLen` digits. `strchr()` compares a `char`, which is signed, with
  an `int`. What happens to the text that is sent is in `Console`.
- **Devices.** The contexts that have not returned are a stack: the kernel and
  handlers. Boot is `SER_init`, `ISR_init`, `KB_init`, `EnableInterrupts`, in
  the order of `system_initialization()`; each may fail. The set-up of the
  keyboard may leave the request of its last answer. The handler reads the port
  whether or not a code waits, and then gets the last one again (`port`). A key
  that is held may repeat its code. The controllers, the keyboard and other
  devices are the environment.

## 3. Runs

The types of a module's variables are part of its first invariant.

Deadlock is checked in `rr_sched`; the others have bounds, or a system that
halts, so that they stop legitimately.

| Run | Instance | What it shows |
|---|---|---|
| `rr_sched` | 3 threads, arbitrary links, no bound | the list represents the queue, is never rejected, implements `RunQueue`, starves nobody |
| `kproc` | 3 records, 3 creations, `ll_len` up to 6 | no thread is lost although `PROC_run()` admits one twice; pids are unique; a change of the scheduler that completes hands over all threads in order |
| `kproc_exit` | same | **violation**: a destroyed thread is selected again, and the system goes on |
| `kmalloc` | bins of one page of 16 words, break up to 48, sizes up to 31 | list whole, blocks tile, coalesced, no size outgrows its field; before any `krealloc()`: aligned, in use, disjoint (`Allocator`) |
| `kmalloc_realloc` | bins of 32 words, break up to 64 | **violation**: `krealloc()` returns a free block |
| `thread_heap` | bins of 256 words, stacks of 44, 9 threads | stacks stay apart although records overrun their blocks |
| `thread_heap_null` | the code's own sizes, 4 threads | **violation**: `kmalloc()` returns NULL with memory available |
| `mmu` | 21 pages, a hole, a range ending inside a page, tables of 5 entries, 2 regions, 5 lists of tags | the memory map is found; no two uses share memory, frames start in memory and none is lost, mappings are stable, accesses are served while two frames are left |
| `console` | screen of 2 x 3, FIFO of 2, UART of 1, a message of 3 texts behind that of the boot, 2 keys: two characters, an escape, or none | bytes in order and the FIFO intact until a handler prints, cursor on the screen until a key is pressed, keys handled until a handler prints or shows an escape |
| `devices` | 6 keys, 2 key events of up to 4 codes, 1 message, 1 glitch, 1 line of the second chip | open lines have handlers, in-service bits match handlers, no handler re-entered, no modifier sticks |
| `ps2_setup` | 3 configurations, 2 self-test results, 2 sets, 1 key of 4, 2 resends | the set-up ends; a success means set 2, translated, unless one of three keys was pressed, and the configuration that was meant unless a byte was overtaken |
| `text` | buffer of 12, sent when 6 are left; shorts of 4 bits, ints of 6, longs of 10; 2 elements a call | the buffer holds the text `printf()` would make, but for `h` and `z`, zero behind it, and does not overflow with strings up to what is spared; comparisons and copies of `string.c` |

### Why the bounds are enough

- *Three threads* give a head, a middle and a tail; every branch of
  `rr_remove()` is taken. The theorems cover any number.
- *`MaxLen` 6* leaves three re-admissions beyond three threads; `MaxPid` 3
  allows each record to be reused.
- *A page of 16 words* holds a header, a split remainder and a block that fits
  exactly; the break moves, so a block crosses it. The sizes are: nothing, an odd
  number that is rounded, a page, and one word more than a header can hold;
  `kcalloc()` of 2 elements overflows with the page. `krealloc()` to 1 and 10
  shrinks and grows.
- *Nine threads* reach the third bin, as four fit in one (15 in the code). As in
  the code, the end of a bin takes a record but not its stack, so the record
  overruns into a free block there, and into a stack elsewhere; a stack at the
  start of a bin is the one whose header stays whole and that can be reused.
- *Two regions* need three tables each below the PML4, which are allocated from
  the same frames in the middle of an access; 21 pages with a kernel and a hole
  run out. The hole begins in the middle of a page, as the one below a PC's BIOS
  does. `MaxFrames` 3 bounds the frames callers hold themselves.
- *Five lists of tags* have the map first, in the middle and late, behind tags
  whose sizes need 0 to 7 bytes of padding.
- *A screen of 2 lines* scrolls at the second newline, a tab stop of 2 crosses
  the end of a line, and a FIFO of 2 wraps.
- *One message and two keys*: the message of the boot brings about the state of
  the interrupts that the other one is printed in, and a key can be handled in
  each, or both in the same. `ConsoleProofs` covers any number.
- *One key and two resends* put a stray byte into each exchange of the set-up;
  two resends make the driver retry and fail to.
- *A buffer of 12 with 6 to spare* has the proportion that matters: what is
  spared is longer than the longest conversion of the instance. Words
  of several lengths from 0 to 6 reach both sides of the limit; the arguments are
  the ends of each width and the numbers where a base gets a digit more.
- *Two key events*, with all keys held or none at first, press, release or repeat
  each pair of keys; an arrow sends four codes, in a shift of the keyboard's own.
  Lines of the first chip are masked, but for the keyboard's, so one line of the
  second chip stands for the other devices.

### Fairness

- `RRSched`: `WF(rr_next)`. `PROC_run()`, whose work it is, "is to be called in
  a loop" (`kproc.h`); the kernel itself calls it once so far.
- `KProc`: none. Nothing in the code calls `yield()`, and it switches no thread,
  so that a thread runs cannot be claimed.
- `Console`: weak fairness of the next operation or the return of the handler,
  since the processor executes; and of taking a key while the flag is set, which
  is what the processor does. Nothing is
  assumed of messages, keys or the UART.
- `Ps2Setup`: weak fairness of the driver, which executes, and of the controller
  and the keyboard, which take and answer what they were sent. Resends and keys
  are bounded and not fair.

## 4. Proofs

TLAPS checks the theorems below for every value of the constants; each was
first checked by TLC, and so was each inductive invariant. The named
assumptions on constants are the only ones, and TLC evaluates them in every
run. All the safety properties named here are also properties of a run.

### Recursion over numbers

The theorems of the library about induction cannot be used with the provers at
hand, since they take an operator as a parameter. `Induction` gets by without:
`LeastElement` and `IntervalInduction` state induction for a *set* of numbers,
proved from the library's theorem that `<` on the naturals is well-founded, and
`PrimitiveRecursion` and `NaturalRecursion` that a function defined from its
value one place before exists. What a
function written with `f[i - 1]` computes can be proved from them: the walk over
the list of threads, the hand-over of all threads, the walk over the
multiboot2 tags, the ranges of a memory map, the one-to-one mapping at boot.

### The scheduler

`RRSchedProofs` proves, for every set `Thread` (finite or not) and every `NULL`
outside it (`NullAssumption`):

| Theorem | Statement |
|---|---|
| `TypeCorrect` | `Spec => []TypeOK` |
| `PointersRepresentQueue` | `Spec => []Represents` |
| `SchedulerNeverHalts` | `Spec => []NeverHalts` |
| `ImplementsRunQueue` | `Spec => Queue!QSpec`: each entry point is a step of `RunQueue` or a stutter, and answers the same |
| `PointersImplementQueue` | `Spec => ImplementsQueue`: the same with the queue read off the pointers by a walk, without an auxiliary variable |

The inductive invariant `IInv` is the types, `halted = FALSE` and
`IsList(list, order)`: head and tail are the ends of `order`, the length is its
length, its elements are distinct, and `next` and `prev` link consecutive ones,
with `prev` of the head NULL. Nothing is said of `next` of the last element,
which `rr_admit()` does not write. `NeverHalts` alone is not inductive: that
`rr_remove()` leaves consistent ends depends on the links of the neighbours,
and so on all of the chain. One lemma per function states its effect on a list
that represents a queue: `AdmitAppends`, `NextRotates`, `RemoveCutsOut` (a case
for the only, first, last and a middle thread; `TwoWrites` for the two link
updates) and `ListIsValid` for the assertions. The walk of a list that
represents a queue is that queue (`WalkIsQueue`, from `WalkAlong` of
`Induction`), so the mapping that walks has the same value as the one that reads
`order`.

### Threads

`KProcProofs`, for every set of records, every `Main` outside it
(`MainAssumption`) and every bound:

| Theorem | Statement |
|---|---|
| `PidsStayUnique` | `Spec => []PidsUnique` |
| `RotationStaysComplete` | `Spec => []RotationComplete`: the rotation meets every scheduled thread and no other |
| `TransferStaysWhole` | `Spec => TransferWhole`: a change of schedulers that completes leaves the old list empty and has handed over all threads in order, behind at most the current one |

`PidsUnique` is not inductive: a record that is created could get the pid of a
live one. Its invariant adds that pids of live threads are in `1..pid_cnt`
(`PidsGiven`). For the others the invariant (`PoolInv`) says that the pointers
from the head along `next` are a chain of distinct scheduled threads as long as
their number, closed by the tail, although `ll_len` is larger; `PROC_run()`
admits the thread that `next()` has just moved to the tail, which changes
neither ends nor chain. The hand-over is the walk of that chain by repeated
`next()`, by `PrimitiveRecursion`.

### The heap

`KmallocProofs`, for every size of page and bin (`HeapAssumption`), all sizes and
numbers of elements asked for (`SizesAssumption`) and every bound on the break:

| Theorem | Statement |
|---|---|
| `HeapInvariant` | `Spec => []IInv` |
| `ListAlwaysWhole` | `Spec => []ListWhole`, also after `krealloc()` |
| `BlocksAlwaysTile` | `Spec => []BlocksTile` |
| `AlwaysCoalesced` | `Spec => []Coalesced` |
| `OwnedAlwaysInUse` | `Spec => []OwnedInUse` |
| `SizesAlwaysFit` | `Spec => []SizesFit`: sizes in headers keep to their 32 bits |
| `PointersAlwaysAligned` | `Spec => []PointersAligned` |
| `HeapImplementsAllocator` | `Spec => ImplementsAllocator` |

The list is in the order of addresses, so the invariant needs no walk: `next` of
a block is the least header above it and `prev` the greatest below it (`Above`,
`Below`), the head is the least, and a block ends at the next one or, where that
is the end of a page, one header further (`Placed`). These with the types are
`Good`. `Apart` says that no two free blocks touch, `Even` that addresses and
sizes are multiples of `ALIGN_SIZE`, and `Theirs` that, until `krealloc()` is called,
the blocks of the callers are in use and large enough. Blocks that touch lie in
one bin, whose size fits in a header, so merging never overflows one
(`SizesAlwaysFit`). Each function of `Heap` has a lemma about what it keeps:
`merge_blocks()` (`MergeKeeps`), `split_block()` (`SplitKeeps`, with `LeftApart`
for what must not be free in front of the block), `extend_mem()`
(`ExtendView`, `LinkedKeeps`), `get_empty_mem()`, `kmalloc()`, `kfree()`,
`krealloc()`. That the walk from the head meets every block once, in order, is
`ChainVisits`, by `PrimitiveRecursion` over the number of headers.

For the refinement, the data of distinct blocks of a `Good` heap is disjoint
(`DataApart`): at the end of a page a block may reach into the header of the
next one, never into its data. So a block that is handed out is an interval apart
from those held, and `kfree()` takes back one of them.

### The memory manager

`MmuProofs`, for every memory map, list of tags, number and size of regions,
size of tables and increment, under `MmuAssumption` (regions are apart),
`BootAssumption` (the boot loader leaves well-formed tags with the machine's
map among them), `MmapAssumption` (entries are apart; an available one starts at
a page boundary and holds the kernel and memory behind it, or nothing of it; the
first starts at 0 and holds more than the local heap, which has room for the
ranges) and `PagingAssumption` (the kernel starts at a page boundary). An entry
may end anywhere, also inside a page:

| Theorem | Statement |
|---|---|
| `MapFound` | `Spec => []MemoryMapFound` |
| `FramesApart` | `Spec => []FramesUsedOnce`: no two uses share memory |
| `FramesKept` | `Spec => []NoFrameLost` |
| `FramesInMemory` | `Spec => []FramesBeginInMemory`: frames start in an available entry, outside the kernel and the local heap |
| `PagesStay` | `Spec => MappingStable` |
| `AccessesServed` | `Spec => AccessServed`: a first access halts the system only when at most one frame is left |

The invariant `Good` has three parts besides the types. `RangesInv`: the ranges
are those of the memory map, `curr` of each has moved by whole pages, past its
end by less than one, and ranges behind the current one are untouched.
`EntriesInv`: an entry belongs to a page that is mapped one to one or that lies
below the next page of its region, and has a frame only if it is present.
`Accounted`: the tables', pages', callers' and free frames are frames that were
handed out from the ranges, each once, and while the system runs there are no
others.
`Good` has the frames that are in nobody's use yet as a parameter, because calls
are chained: the fault handler holds a frame while it allocates tables. With it
each function of `Paging` has one lemma that is used wherever the function is
called (`NewFrame`, `FrameAllocated`, `TableEntry`, `Tables`, `PageMapped`,
`FaultServed`, `PageAllocated`, `PageFreed`). `IInv` adds that the pages
callers own lie below the next page of their region: otherwise a page that
is kept could be given away again, and its entry reset. `AccessesServed` needs
`Reachable` besides: the tables on the way to each page a caller owns exist,
since none is given back, and its entry says present or allocated; so a first
access takes one frame only, and halts the system when that is the last. `MapFound`
rests on the layout of the tags: no two overlap, so what is read at the start of
each is its header, and rounding sizes up to 8 goes from start to start.

### The devices

`DevicesProofs`, for every set of keys, codes, raised lines and masks left by the
boot loader (`DevicesAssumption`):

| Theorem | Statement |
|---|---|
| `ServiceFollowsHandlers` | `Spec => []InServiceIsRunning` |
| `HandlersNeverReentered` | `Spec => []NoReentry` |
| `OpenLinesAreHandled` | `Spec => []OpenLinesHandled` |
| `NoModifierSticks` | `Spec => []ModifiersHeld` |

The invariant says, besides the types, at which point of the boot which masks,
handlers and flags are set (`BootInv`); that the kernel is the
bottom of the stack of contexts and handlers are above it (`StackInv`); that
the keyboard's is the only line in service, and is exactly while one context
has not sent its EOI (`ServiceInv`); that a
waiting scan code has an interrupt requested or a handler on its way to it
(`KeyboardServed`); and that the state of the modifiers, brought forward by the
codes not yet read, agrees with the keys held (`KeysInv`).

### The set-up of the keyboard

`Ps2SetupProofs`, for every configuration and result of a self test, and any
number of resends and keys (`Ps2Assumption`). `SuccessIsMeant` and
`SuccessNeedsForgetting` speak of dialogues in which none of the three keys is
pressed whose byte the driver takes for an answer; the other two of all:

| Theorem | Statement |
|---|---|
| `SuccessIsMeant` | `Spec => []SuccessMeansSet2` |
| `ConfigurationHolds` | `Spec => []ConfiguredUnlessLate` |
| `SuccessNeedsForgetting` | `Spec => []NeedsForgetting` |
| `SoundHardwareSucceeds` | `Spec => []PromptSucceeds` |

The invariant follows the dialogue, a part for each kind of knowledge at each
point of the driver: which byte is in the input buffer (`InputInv`), which
answers are owed and how many wait (`OwedInv`, `LengthInv`), what a polled read
may return (`PolledInv`), that a keyboard that forgets nothing keeps an ACK in
front of every later answer (`ForgetInv`), that no byte is one of the three keys'
until one of those is pressed (`BytesInv`), and what configuration has arrived
unless a byte was overtaken (`ConfigInv`). `SoundHardwareSucceeds` needs a second
invariant on top (`PromptInv`), for hardware that keeps up: nothing reaches the
keyboard before it is asked (`QuietInv`), the controller owes the answer to the
self test the driver waits for and no other (`TestsInv`), and the keyboard's
answers to the last byte are the only ones unread (`AnswersInv`).

### The console

`ConsoleProofs`, for every size of the screen, tab length and FIFO, every set of
messages and of strings shown for keys (`ConsoleAssumption`), and any number of
messages and keys:

| Theorem | Statement |
|---|---|
| `Invariance` | `Spec => []Inv` |
| `Order` | `Spec => []SentInOrder` |
| `Cursor` | `Spec => []CursorOnScreen` |

What the kernel and a handler still have to do is part of the state, a stack of
operations of any depth, so the invariants say which stacks there are: `Linked`,
what holds of each operation and those behind it. A call puts operations in
front (`Then`, `After`), and that a set of stacks is `Closed` under the calls is
shown once for all of them. On that rests one invariant per theorem:

- `Inv`: types; the operations of the serial line follow one another as in their
  functions (`Serially`), and the consumers under way (`Load`) never take more
  than the FIFO counts (`Counted`).
- `Order`: what the FIFO holds, and whether the line is idle, follows from the
  first operation on the FIFO that the kernel still has to do (`InTurn`,
  `Sending`). A handler that does not call `printk()` has no such operation, so
  it may come between any two of the kernel's.
- `Cursor`: before the first key the cursor is past the last column only between
  its move and the wrap (`KeylessCursor`, `InScreen`).

`Order` claims neither more nor less than the model: while no handler prints,
the FIFO of the driver holds at most one byte, whatever its size, and what the
UART does with the bytes is not claimed.

### Not proved

Only model-checked:

- liveness (`EveryThreadServed`, `KeyHandled`, `Terminates`) and
  anything with ENABLED;
- `StacksApart` of `ThreadHeap`: there the records overrun their blocks, so what the
  headers hold depends on the order in which threads were made and on where bins
  end, and the invariant of `KmallocProofs` does not apply;
- the formatting (`Printk`), whose properties compare it with a walk over strings.

## 5. What the code does that its documentation does not say

With a run that shows it:

- `kexit()` (`lib/kproc.c:227`) frees a thread that stays in the scheduler's
  list, and `next()` selects it again (`kproc_exit`).
- `krealloc()` (`lib/kmalloc.c:371`) merges the block into a free previous one
  and continues with the header that was absorbed; what it returns may be free
  (`kmalloc_realloc`).
- Thread records are allocated with the size of a pointer
  (`lib/kproc.c:114,171`). `stacksize` then overwrites the `ptr` of the next
  header; with the 0 of the main thread the next `kmalloc()` returns NULL
  (`thread_heap_null`). Created threads survive by the layout (`thread_heap`).

The models show more disagreements of the code with its comments, declarations and
tests. No property takes what the code does there for right: the properties that
are near state in their text where they end. Each can be seen by adding the
formula below, an invariant or a property, to the configuration named; TLC
refutes it.

| Code | What is said | What happens | Refuted formula |
|---|---|---|---|
| `lib/kproc.c:162` | `PROC_run()` "is to be called in a loop" (`kproc.h:110`) | it admits the thread it chose, which is still queued: `ll_len` is 2 with a single thread and the second call halts in `validate_ll()` | `~destroyed => ~halted` (`MCKProc`) |
| `lib/kproc.c:77` | "All threads are transferred ... in next() order" (`:48`) | the current thread is handed over first, and again if it is still queued; after a `PROC_run()` that found a thread the length halts the system half-way | `[][ReplaceScheduler /\ ~halted' => IsDistinct(other')]_vars` (`MCKProc`) |
| `lib/kmalloc.c:417` | `kfree()` frees what `kmalloc()` returned (`kmalloc.h:51`) | a block in the last bytes below the break is refused | `~heap.fault /\ ~resized => \A b \in DOMAIN heap.hdr : heap.hdr[b].free \/ b + HeaderSize \in DOMAIN owned` (`MCKmallocRealloc`) |
| `lib/kmalloc.c:227` | the heap is extended "if no such block exists" (`:182`) | a free block that is large enough is used before the last one only when its size is exact | `[][\A n \in Sizes : Malloc(n) /\ heap'.brk > heap.brk /\ heap.head # NoBlock => \A b \in DOMAIN heap.hdr : heap.hdr[b].free => heap.hdr[b].size < Rounded(n)]_vars` (`MCKmallocRealloc`) |
| `lib/kmalloc.c:157` | a pointer, or NULL (`kmalloc.h:45`) | a size that is accepted and rounded up to 2^32 extends the heap for ever | `~heap.fault` (`MCKmallocRealloc`, with 40 among `Sizes`) |
| `lib/kmalloc.c:395` | "aligned to 16 bytes" (`kmalloc.h:93`) | `krealloc()` splits at the size asked for, not the rounded one | `\A p \in DOMAIN owned : p % AlignSize = 0` (`MCKmallocRealloc`, with 15 among `ReSizes`) |
| `src/drivers/mmu_driver.c:195` | "Valid Physical Address Ranges" (`:100`) | a range that ends inside a page, 0x9FC00 below a BIOS, yields a frame that is partly reserved | `\A u \in Uses : \E i \in DOMAIN Mmap : Available(Mmap[i]) /\ Mmap[i].addr <= FrameOf(u) /\ FrameOf(u) + PageSize <= EndOf(Mmap[i])` (`MCMmu`) |
| `src/drivers/mmu_driver.c:200` | "All memory has been allocated!" (`:202`); `kernel_main.c:99` expects NULL | the request for the last frame halts the system | `[][\A v \in pages : Access(v) /\ mem'.halted => AtMostOneLeft /\ LastRange.curr + PageSize > LastRange.end]_vars` (`MCMmu`) |
| `src/drivers/mmu_driver.c:917` | "Free a virtual page" (`:907`) | a page that was never accessed has frame 0, on which the system halts | `[][\A v \in pages : FreePage(v) => ~mem'.halted]_vars` (`MCMmu`) |
| `src/drivers/mmu_driver.c:864` | "Free a physical page frame" (`:847`) | the link of a frame beyond the identity map is a page fault that halts | `[][\A pf \in frames : PfFree(pf) => ~mem'.halted]_vars` (`MCMmu`, with `MapInit` 10) |
| `src/ISR/irq_handler.c:264-286` | "disable interrupts" | `IRQ_disable()` executes `sti`, `IRQ_enable()` `cli`: sections open interrupts, and keys are handled because of that | `mach.cpu => mach.curr \/ (todo # <<>> /\ Head(todo).op \in {"curr=ENABLED", "cli"})` (`MCConsole`) |
| `src/drivers/serial_io_driver.c:119` | "FIFO buffer of output characters" (`Notes.md:14`) | a handler that prints after `cons_get()` took a byte and before the `outb` overtakes it | `mach.line = SubSeq(mach.taken, 1, Len(mach.line))` (`MCConsole`) |
| `src/drivers/serial_io_driver.c:224,239` | "Write a string to the serial port." (`:382`) | a handler that prints between the count and its test leaves nobody to send: the FIFO fills and messages are cut | `todo # <<>> /\ Head(todo).op = "full?" => mach.count < BuffSize` (`MCConsole`, with `MaxPrints` 2) |
| `src/drivers/serial_io_driver.c:227` | "write a byte to the next available space" (`:204`) | a handler that prints between the store and the wrap stores behind the buffer | `~mach.stray` (`MCConsole`) |
| `src/drivers/serial_io_driver.c:119,194` | "Write a string to the serial port." (`:382`) | the driver is idle as soon as its own FIFO is empty, and writes to a UART that is full | `todo # <<>> /\ Head(todo).op = "outb" => mach.uart < UartSize` (`MCConsole`) |
| `src/drivers/vga_driver.c:322-333` | "Disable interrupts" (`:252`) | a key handled between the move past the last row and the wrap erases a cell past the screen | `~mach.wild` (`MCConsole`) |
| `src/drivers/vga_driver.c:305` | "Re-enable interrupts (if they were enabled ...)" (`:335`) | the case of an escape returns without it: in a handler inside an `IRQ_enable()`, no later key is handled | `key # NoKey ~> key = NoKey \/ warned` (`MCConsole`) |
| `src/drivers/serial_io_driver.c:338` | "Enable the IRQ"; "Unmask UART on the PIC" (`Notes.md:23`) | `PIC_init()`, called later, masks COM1 again: bytes are sent by `printk()` alone | `stage = "run" => IRQ36_COM1 \in Deliverable(pic)` (`MCDevices`) |
| `src/drivers/ps2_keyboard_driver.c:339` | "Toggle the caps lock state" (`:376`) | the release of caps lock turns it off | `[][kb'.caps # kb.caps => ~port'.released]_vars` (`MCDevices`, with `KeysUsed` {`CAPS`}) |
| `src/drivers/ps2_keyboard_driver.c:591` | "Verify the scan code set" (`:579`) | the byte of a comma or of F7, typed meanwhile, is taken for the answer | `result = "SUCCESS" /\ ~late => Verified` (`MCPs2Setup`) |
| `lib/printk.c:228` | `format(printf)` (`printk.h:25`), "Short" | `%hd`, `%hu` and `%hx` show the whole int | `lengths \subseteq {"h"} => Shown = pending` (`MCPrintk`) |
| `lib/printk.c:233` | the same; `%zu` in `test/kmalloc_tests.c:517` | `%zu` is shown as it is, and its argument goes to the next conversion | `lengths \subseteq {"z"} => Shown = pending` (`MCPrintk`) |
| `lib/printk.c:179` | "Check if the output string is full" (`:178`) | a `%s` longer than what is spared is written past the buffer; the other check compares with 64 KiB | `NothingBehind` (`MCPrintk`, with a word of 7 letters) |

Other conditions of the properties:

- The set-up of the keyboard reads one answer for the two bytes of "set scan code
  set": it can succeed only with a keyboard that forgets the unread ACK
  (`NeedsForgetting`).
- The configuration byte is written right behind its command, and the next
  command right behind it: with a slow controller one of them is lost
  (`ConfiguredUnlessLate` without `~late` is violated). A key pressed during the
  set-up can be read as the answer to a self test, or to the "reset" 0xFF, which
  the code sends to the controller and whose answer is the old byte.
- A bin is one header longer than the memory asked of `kbrk()` (`BlocksTile`).
- `PIC_set_mask()` subtracts the offset and compares the rest with a number the
  offset is part of (`src/ISR/pic.c:97-169`): masks of the second chip never
  change. The cascade is masked, so its lines cannot interrupt.
- A keyboard handler may be entered again between its EOI and its return:
  `NoReentry` says it has nothing left to do then.
- Both shifts share one state: releasing one while the other is held ends the
  shift. `ModifiersHeld` is one-directional for that reason.
- The prefix 0xE0 is taken for the release of no key. With num lock, keyboards
  put an arrow between a shift's codes, so letters are upper case while the
  arrow is held (`FakeShift`).
- `strcpy()`, `strncpy()` and the concatenations write no terminator
  (`StringsAsSequences` says what remains); `printk()` works because its buffer is zero
  behind the text (`ZeroBehindText`).

## 6. Plan

Done: the scheduler first, as everything runs through it, then its caller, the
heap, memory manager, the interrupt path from the controllers to the screen, the
memory map, the set-up of the keyboard, the formatting, and the transfer between
schedulers; proofs about all of them but the two named below.

Next, modelled and checked: the serial interrupt handler, with its line
unmasked, as the code intends before `PIC_init()` masks it again.

Next, proved:

- `ThreadHeap`: `StacksApart`, from the layout of the blocks of a thread.
- `Printk`: `TextAsMeant`, from what the functions of `Strings` do to a string
  with a terminator.

## 7. Not modelled

- What another scheduler does with the threads it was handed, `kmalloc_cleanup()`,
  `PIC_get_mask()`, `PIC_disable()`, `polling_keyboard_get_char()`,
  `parse_multiboot2()`, `get_multiboot2_elf_info()`: no callers.
- Keys with the prefix 0xE0 other than arrows, and arrows without num lock while
  a shift is held.
- Cursor registers, colours, the texts of messages, exceptions other than page
  faults, the debug walks of the memory manager: no property is about them.
- The serial interrupt handler, whose line is masked once the system runs
  (`Devices` has its calls of the sections, which are never reached).
- Available memory that starts inside a page; a memory map of more than 128
   ranges, where `addr_map_init()` (`src/drivers/mmu_driver.c:606`) stores one
  past the local heap before it halts; boot information without a memory map,
  where the walk goes on with a NULL pointer.
- Null pointers given to `string.c`, and strings without a terminator.
- Assembly, descriptor tables and generated stubs: constant, executed once.
  (`idt.c` fills all vectors but 255; the page tables are loaded before the
  interrupt table is, so a fault in between has no handler.)
- `lib/fs.c`, `src/drivers/block_dev.c`: unfinished and not called.
- Tests and demonstrations, read for what they expect of the rest.
