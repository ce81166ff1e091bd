------------------------------ MODULE Console -------------------------------
(***************************************************************************)
(* Kernel output under keyboard interrupts: printk() to the screen         *)
(* (drivers/vga_driver.c) and to the serial line                           *)
(* (drivers/serial_io_driver.c), the critical sections of both             *)
(* (IrqStatus), and the handler of the keyboard, the only line of the PIC  *)
(* that is not masked after boot (Devices).                                *)
(*                                                                         *)
(* The code is a sequence of operations, of the size of a C statement; an  *)
(* operation may prepend others (a call, a branch taken).  One operation   *)
(* is done a step, and the kernel can be interrupted between two of them.  *)
(* A handler cannot, although it may open interrupts: the PIC delivers no  *)
(* other before the EOI that follows the handler.  A write or read past    *)
(* the buffer of the FIFO ends what is modelled: nothing is executed after *)
(* it.                                                                     *)
(***************************************************************************)
EXTENDS IrqStatus, Integers

CONSTANTS
  Rows, Cols,  (* VGA_NUM_ROWS, VGA_NUM_COLS *)
  TabLength,   (* TAB_LENGTH *)
  BuffSize,    (* SERIAL_BUFF_SIZE *)
  UartSize,    (* the bytes that the UART can hold *)
  Chars,       (* characters *)
  Strings,     (* the strings the kernel prints *)
  KeyStrings,  (* what VGA_display_char() shows for a key *)
  Silent,      (* some keys have no character: the handler calls printk() *)
  MaxPrints, MaxKeys  (* bounds: calls of printk(), keys pressed *)

ASSUME ConsoleAssumption ==
  /\ Rows \in Nat \ {0} /\ Cols \in Nat \ {0} /\ TabLength \in Nat \ {0}
  /\ BuffSize \in Nat \ {0} /\ UartSize \in Nat \ {0} /\ Silent \in BOOLEAN
  /\ Strings \subseteq Seq(Chars) /\ KeyStrings \subseteq Seq(Chars)

VARIABLES
  mach,    (* the memory and the processor, see below *)
  todo,    (* the operations still to do: the handler's while one runs *)
  serving, (* a handler runs *)
  held,    (* the operations of the kernel that it interrupted *)
  key,     (* the key the keyboard controller holds, or NoKey *)
  prints,  (* calls of printk() made *)
  pressed, (* keys pressed *)
  warned,  (* auxiliary: a handler has called printk() *)
  escaped  (* auxiliary: a handler has shown an escape *)

vars == <<mach, todo, serving, held, key, prints, pressed, warned, escaped>>

(***************************************************************************)
(* mach:                                                                   *)
(*   prev, curr, cpu - see IrqStatus                                       *)
(*   row, col, cell - vga_cursor.pos and VGA_BUFFER                        *)
(*   wild           - some VGA_PUTC() went past the end of the screen      *)
(*   buff, prod, cons, count, idle - the FIFO serial_tx                    *)
(*   stray          - its buffer was accessed past its end                 *)
(*   uart           - the number of bytes that the UART has yet to send    *)
(*   taken, line    - auxiliary: the bytes put in the FIFO, and the bytes  *)
(*                    written to the UART                                  *)
(***************************************************************************)
NoKey == "none"
SilentKey == "silent"
NUL == NoArg
SPACE == "space"
LF == "lf"
CR == "cr"
TAB == "tab"
BS == "bs"
ESC == "esc"

Booted ==
  [prev |-> FALSE, curr |-> FALSE, cpu |-> FALSE,
   row |-> 0, col |-> 0, cell |-> [i \in 0..(Rows * Cols - 1) |-> NUL],
   wild |-> FALSE,
   buff |-> [i \in 0..(BuffSize - 1) |-> NUL], prod |-> 0, cons |-> 0,
   count |-> 0, idle |-> TRUE, stray |-> FALSE,
   uart |-> 0, taken |-> <<>>, line |-> <<>>]

-----------------------------------------------------------------------------
(* vga_driver.c *)
Index(m) == m.row * Cols + m.col

Put(m, ch) ==
  IF Index(m) \in DOMAIN m.cell THEN [m EXCEPT !.cell[Index(m)] = ch]
  ELSE [m EXCEPT !.wild = TRUE]

CellAt(m, row, col) ==
  LET i == row * Cols + col IN IF i \in DOMAIN m.cell THEN m.cell[i] ELSE NUL

(* A newline at the start of a line is ignored after a full line. *)
AfterFullLine(m) ==
  m.col = 0 /\ m.row > 0 /\ CellAt(m, m.row - 1, Cols - 1) \notin {NUL, LF}

(* VGA_scroll(1) *)
Scrolled(m) ==
  [m EXCEPT
     !.cell = [i \in DOMAIN @ |-> IF i + Cols \in DOMAIN @ THEN @[i + Cols] ELSE NUL],
     !.row = IF @ > 1 THEN @ - 1 ELSE 0]

(* VGA_process_backspace(): back to the last character of the line, or of  *)
(* the line before when the cursor is at the start of one.                 *)
Backspaced(m) ==
  IF m.col = 0 /\ m.row = 0 THEN m
  ELSE LET row == IF m.col = 0 THEN m.row - 1 ELSE m.row
           end == IF m.col = 0 THEN Cols ELSE m.col
           hit == {c \in 1..(end - 1) : CellAt(m, row, c) # NUL}
           col == IF hit = {} THEN 0 ELSE CHOOSE c \in hit : \A d \in hit : d <= c
       IN  Put([m EXCEPT !.row = row, !.col = col], NUL)

(* The first column not before col that is a tab stop. *)
TabStop(col) == ((col + TabLength - 1) \div TabLength) * TabLength

(* What the switch does before and after the store of a character. *)
Moved(m, c) ==
  CASE c = CR  -> [m EXCEPT !.col = 0]
    [] c = LF  -> [m EXCEPT !.col = Cols]
    [] c = TAB -> [m EXCEPT !.col = TabStop(@)]
    [] OTHER   -> [m EXCEPT !.col = @ + 1]

Stored(m, c) == Put(m, IF c \in {CR, LF, TAB} THEN SPACE ELSE c)

\* mutated: the cursor stays below the screen after it is scrolled
LastRowBelow(m) == [m EXCEPT !.row = Rows]

LastRow(m) == [m EXCEPT !.row = Rows - 1]

(* The end of VGA_display_attr_char(): a new line, and a scroll, if needed. *)
LineEnd(m) ==
  IF m.col < Cols THEN <<>> ELSE <<Op("col=0"), Op("row++"), Op("bottom?")>>

ScreenEnd(m) == IF m.row < Rows THEN <<>> ELSE <<Op("scroll"), Op("last row")>>

(* The message of the code for an escape is one character here.  After it  *)
(* the function returns without IRQ_reenable().                            *)
VGA_display_attr_char(c) ==
  IRQ_disable \o
  (IF c = ESC THEN <<OpOf("display", <<"e">>)>>
   ELSE IF c = BS THEN <<Op("backspace"), Op("end?")>> \o IRQ_reenable
   ELSE IF c = LF THEN <<Op("newline"), Op("end?")>> \o IRQ_reenable
   ELSE <<OpOf("store", c), OpOf("move", c), Op("end?")>> \o IRQ_reenable)

(* VGA_display_str(): the cursor is erased, then the loop over the string. *)
VGA_display_str(s) == <<Op("erase cursor"), OpOf("chars", s)>>

VGA_display_chars(s) ==
  IF s = <<>> THEN <<>> ELSE VGA_display_attr_char(Head(s)) \o <<OpOf("chars", Tail(s))>>

DoVga(m, o) ==
  CASE o.op = "erase cursor" -> Put(m, NUL)
    [] o.op = "store"        -> Stored(m, o.arg)
    [] o.op = "move"         -> Moved(m, o.arg)
    [] o.op = "newline"      -> IF AfterFullLine(m) THEN m ELSE Moved(Stored(m, LF), LF)
    [] o.op = "backspace"    -> Backspaced(m)
    [] o.op = "col=0"        -> [m EXCEPT !.col = 0]
    [] o.op = "row++"        -> [m EXCEPT !.row = @ + 1]
    [] o.op = "scroll"       -> Scrolled(m)
    [] o.op = "last row"     -> LastRow(m)

-----------------------------------------------------------------------------
(* serial_io_driver.c *)
(* prod_add() of the first of the bytes s, and serial_write() of the rest: *)
(* a full FIFO ends the loop.                                              *)
serial_write(s) ==
  IF s = <<>> THEN <<>> ELSE IRQ_disable \o <<OpOf("full?", s)>>

prod_add(m, s) ==
  IF m.count = BuffSize THEN IRQ_reenable
  ELSE <<OpOf("produce", Head(s)), Op("++count"), Op("wrap prod"), Op("first?")>>
         \o IRQ_reenable \o <<OpOf("serial", Tail(s))>>

(* tx_next(), that is hw_write(). *)
hw_write(m) ==
  IF m.idle THEN <<Op("idle=false"), Op("empty?")>> ELSE <<Op("hw empty?")>>

\* mutated: interrupts are not disabled, as the caller has done it
ConsGetInside(m) ==
  IF m.count = 0 THEN <<>> ELSE <<Op("consume")>>

cons_get(m) ==
  IF m.count = 0 THEN <<>> ELSE IRQ_disable \o <<Op("consume")>>

(* The rest of cons_get() and of hw_write(), with the byte that was read. *)
Consumed(d) ==
  <<Op("--count"), Op("wrap cons"), Op("stop if empty")>> \o IRQ_reenable \o <<OpOf("outb", d)>>

Produced(m, d) ==
  IF m.prod \in DOMAIN m.buff
  THEN [m EXCEPT !.buff[m.prod] = d, !.prod = @ + 1, !.taken = Append(@, d)]
  ELSE [m EXCEPT !.stray = TRUE]

Read(m) ==
  IF m.cons \in DOMAIN m.buff THEN [m EXCEPT !.cons = @ + 1] ELSE [m EXCEPT !.stray = TRUE]

Wrap(i) == IF i >= BuffSize THEN 0 ELSE i

(* The driver does not ask the UART whether it can take the byte: one that  *)
(* is written to a full UART is in line, and is not sent.                   *)
Written(m, d) ==
  [m EXCEPT !.line = Append(@, d), !.uart = IF @ = UartSize THEN @ ELSE @ + 1]

\* mutated: an empty FIFO leaves the line busy
StopNever(m) == m

StopIfEmpty(m) == [m EXCEPT !.idle = (m.count = 0) \/ @]

DoSerial(m, o) ==
  CASE o.op = "produce"       -> Produced(m, o.arg)
    [] o.op = "++count"       -> [m EXCEPT !.count = @ + 1]
    [] o.op = "idle=false"    -> [m EXCEPT !.idle = FALSE]
    [] o.op = "wrap prod"     -> [m EXCEPT !.prod = Wrap(@)]
    [] o.op = "hw empty?"     -> [m EXCEPT !.idle = (m.uart = 0) \/ @]
    [] o.op = "consume"       -> Read(m)
    [] o.op = "--count"       -> [m EXCEPT !.count = @ - 1]
    [] o.op = "wrap cons"     -> [m EXCEPT !.cons = Wrap(@)]
    [] o.op = "stop if empty" -> StopIfEmpty(m)
    [] o.op = "outb"          -> Written(m, o.arg)

(* printk(): print_clear_buff() of the formatted string. *)
printk(s) == VGA_display_str(s) \o <<OpOf("serial", s)>>

-----------------------------------------------------------------------------
(* One operation: the machine after it, and what it calls. *)
VgaOps == {"erase cursor", "store", "move", "newline", "backspace",
           "col=0", "row++", "scroll", "last row"}
SerialOps == {"produce", "++count", "wrap prod", "idle=false", "hw empty?", "consume",
              "--count", "wrap cons", "stop if empty", "outb"}

Do(m, o) ==
  CASE o.op \in IrqOps    -> DoIrq(m, o)
    [] o.op \in VgaOps    -> DoVga(m, o)
    [] o.op \in SerialOps -> DoSerial(m, o)
    [] OTHER              -> m

Calls(m, o) ==
  CASE o.op \in IrqOps         -> IrqCalls(m, o)
    [] o.op = "display"       -> VGA_display_str(o.arg)
    [] o.op = "chars"         -> VGA_display_chars(o.arg)
    [] o.op = "end?"          -> LineEnd(m)
    [] o.op = "bottom?"       -> ScreenEnd(m)
    [] o.op = "serial"        -> serial_write(o.arg)
    [] o.op = "full?"         -> prod_add(m, o.arg)
    [] o.op = "first?"        -> IF m.count = 1 THEN hw_write(m) ELSE <<>>
    [] o.op = "empty?"        -> cons_get(m)
    [] o.op = "consume"       -> IF m.cons \in DOMAIN m.buff THEN Consumed(m.buff[m.cons]) ELSE <<>>
    [] OTHER                  -> <<>>

(* system_initialization() from the call of IRQ_enable() on. *)
Init ==
  /\ mach = Booted
  /\ todo = IRQ_enable \o printk(<<LF>>)
  /\ serving = FALSE /\ held = <<>>
  /\ key = NoKey
  /\ prints = 0
  /\ pressed = 0
  /\ warned = FALSE /\ escaped = FALSE

(* The kernel, or the handler that runs, executes its next operation. *)
Execute ==
  /\ todo # <<>> /\ ~mach.stray
  /\ mach' = Do(mach, Head(todo))
  /\ todo' = Calls(mach, Head(todo)) \o Tail(todo)
  /\ UNCHANGED <<serving, held, key, prints, pressed, warned, escaped>>

(* The kernel prints; after its last message it halts, in a loop of hlt. *)
Message(s) ==
  /\ ~serving /\ todo = <<>>
  /\ prints < MaxPrints
  /\ todo' = printk(s)
  /\ prints' = prints + 1
  /\ UNCHANGED <<mach, serving, held, key, pressed, warned, escaped>>

(* The environment: a key is pressed, the UART has sent a byte. *)
Press(k) ==
  /\ key = NoKey
  /\ pressed < MaxKeys
  /\ key' = k
  /\ pressed' = pressed + 1
  /\ UNCHANGED <<mach, todo, serving, held, prints, warned, escaped>>

UartSent ==
  /\ mach.uart > 0
  /\ mach' = [mach EXCEPT !.uart = @ - 1]
  /\ UNCHANGED <<todo, serving, held, key, prints, pressed, warned, escaped>>

(***************************************************************************)
(* ps2_keyboard_irq_handler(), through the interrupt gate: the flag is     *)
(* cleared on entry and restored on return.  VGA_display_char() takes the  *)
(* address of one character for a string, so that what follows it in       *)
(* memory is shown too, up to the first NUL: KeyStrings holds the strings  *)
(* this may give.                                                          *)
(***************************************************************************)
Interrupt ==
  /\ mach.cpu /\ ~serving
  /\ key # NoKey
  /\ \/ key = SilentKey /\ todo' = printk(<<"k">>) /\ UNCHANGED escaped
     \/ /\ key # SilentKey
        /\ \E s \in KeyStrings :
             /\ todo' = VGA_display_str(s)
             /\ escaped' = (escaped \/ \E i \in DOMAIN s : s[i] = ESC)
  /\ mach' = [mach EXCEPT !.cpu = FALSE]
  /\ serving' = TRUE /\ held' = todo
  /\ key' = NoKey
  /\ warned' = (warned \/ key = SilentKey)
  /\ UNCHANGED <<prints, pressed>>

(* The EOI and the return of the handler. *)
Return ==
  /\ serving /\ todo = <<>>
  /\ mach' = [mach EXCEPT !.cpu = TRUE]
  /\ todo' = held /\ serving' = FALSE /\ held' = <<>>
  /\ UNCHANGED <<key, prints, pressed, warned, escaped>>

Keys == {"char"} \cup (IF Silent THEN {SilentKey} ELSE {})

Next ==
  \/ Execute
  \/ \E s \in Strings : Message(s)
  \/ \E k \in Keys : Press(k)
  \/ UartSent
  \/ Interrupt
  \/ Return

Spec == Init /\ [][Next]_vars

(* The processor executes, and takes an interrupt it can take. *)
FairSpec == Spec /\ WF_vars(Execute \/ Return) /\ WF_vars(Interrupt)

-----------------------------------------------------------------------------
TypeOK ==
  /\ mach.prev \in BOOLEAN /\ mach.curr \in BOOLEAN /\ mach.cpu \in BOOLEAN
  /\ mach.row \in Nat /\ mach.col \in Nat
  /\ mach.prod \in 0..BuffSize /\ mach.cons \in 0..BuffSize
  /\ mach.count \in Nat /\ mach.idle \in BOOLEAN /\ mach.uart \in 0..UartSize
  /\ key \in Keys \cup {NoKey} /\ serving \in BOOLEAN

(* The kernel between two messages. *)
Resting == ~serving /\ todo = <<>>

(***************************************************************************)
(* As long as no handler prints, bytes are handed to the UART in the order *)
(* they came, each once, whenever the kernel is not printing all of them   *)
(* have been, and the FIFO is never accessed past its end                  *)
(* (serial_io_driver.c:106-253).  It then holds one byte at most: each is  *)
(* taken out before the next is put in.  (With the types.)                 *)
(***************************************************************************)
SentInOrder ==
  /\ TypeOK
  /\ ~warned =>
       /\ Len(mach.line) <= Len(mach.taken)
       /\ mach.line = SubSeq(mach.taken, 1, Len(mach.line))
       /\ ~mach.stray
       /\ Resting => mach.line = mach.taken /\ mach.idle

(***************************************************************************)
(* When no handler has run the cursor is on the screen whenever a          *)
(* character is stored, although it is moved below the screen and back in  *)
(* separate statements (vga_driver.c:250-337).                             *)
(***************************************************************************)
CursorOnScreen == pressed = 0 => /\ ~mach.wild
                                 /\ Resting => mach.row < Rows /\ mach.col < Cols

(***************************************************************************)
(* A key that is pressed is handled, until a handler prints or shows an    *)
(* escape.                                                                 *)
(***************************************************************************)
KeyHandled == key # NoKey ~> key = NoKey \/ warned \/ escaped
=============================================================================
