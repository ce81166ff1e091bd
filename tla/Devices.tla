------------------------------ MODULE Devices -------------------------------
(***************************************************************************)
(* Boot and interrupts: the order in which system_initialization()         *)
(* (src/boot/kernel_main.c) installs handlers and changes masks, the       *)
(* delivery of interrupts by the PIC, the dispatch of interrupt_handler()  *)
(* (src/ISR/irq_handler.c), and the handler of the keyboard with its scan  *)
(* codes, while the kernel prints.                                         *)
(*                                                                         *)
(* Contexts are stacked: the kernel, and a handler for each interrupt that *)
(* has not returned.  The one on top executes, an operation at a time (see *)
(* IrqStatus).  Of printk() only the calls that change the interrupt       *)
(* status are kept: its screen and serial sections, Console has the rest.  *)
(***************************************************************************)
EXTENDS IrqStatus, Integers, Pic, Keyboard

CONSTANTS
  KeysUsed,   (* the keys that are pressed and released *)
  Raised,     (* other lines that devices raise: <<chip, line>> pairs *)
  BootMasks,  (* the masks the boot loader may leave in each chip *)
  MaxTyped, MaxPrints, MaxGlitches  (* bounds: key events, messages, glitches *)

ASSUME DevicesAssumption ==
  /\ KeysUsed \subseteq AllKeys
  /\ Raised \subseteq Chips \X Lines
  /\ BootMasks \subseteq SUBSET Lines

VARIABLES
  pic,       (* see Pic *)
  irq,       (* IRQ_status_prev, IRQ_status_curr, interrupt flag: see IrqStatus *)
  handlers,  (* the IRQs whose entry in irq_handler_table is not NULL *)
  stage,     (* the next call of system_initialization() *)
  stack,     (* the contexts: [irq, todo] records, the running one last *)
  kb,        (* the state of the keyboard driver, see Keyboard *)
  down,      (* the keys held down, and FakeShift between its codes *)
  codes,     (* the scan codes that wait, in the data port and behind it *)
  port,      (* the byte last read from the data port, as a code *)
  used       (* bounded counters: typed, prints, glitches *)

vars == <<pic, irq, handlers, stage, stack, kb, down, codes, port, used>>

Kernel == 0
FakeShift == "fake shift"
Stages == {"SER_init", "ISR_init", "KB_init", "IRQ_enable", "run", "halted"}

Depth == Len(stack)
Top == stack[Depth]

(* The stack when the running context goes on with ops. *)
Doing(ops) == [stack EXCEPT ![Depth].todo = ops]
Pushed(n, ops) == Append(stack, [irq |-> n, todo |-> ops])

-----------------------------------------------------------------------------
(* A message: the section of each character on the screen, and that of     *)
(* prod_add(), in which the byte may be passed on by cons_get().           *)
VGA_display_char == IRQ_disable \o IRQ_reenable
printk == VGA_display_char \o IRQ_disable \o <<Op("first?")>> \o IRQ_reenable
cons_get == IRQ_disable \o IRQ_reenable

\* mutated: the interrupt is ended before it is handled
HandlerEndingFirst(n) ==
  (IF IS_PIC_IRQ(n) THEN <<Op("EOI")>> ELSE <<>>)
    \o (IF n = IRQ33_KEYBOARD THEN <<Op("read")>> ELSE printk) \o <<Op("iret")>>

(* The handlers installed.  That of the timer prints, that of the serial   *)
(* line prints and then asks the UART why it came.                         *)
Handler(n) ==
  CASE n = IRQ33_KEYBOARD -> <<Op("read")>>
    [] n = IRQ32_TIMER    -> printk \o <<Op("EOI")>>
    [] n = IRQ36_COM1     -> printk \o <<Op("iir")>>

(* interrupt_handler(): an IRQ without a handler is printed, not ended. *)
interrupt_handler(n) ==
  (IF n \in handlers
   THEN Handler(n) \o (IF IS_PIC_IRQ(n) THEN <<Op("EOI")>> ELSE <<>>)
   ELSE printk) \o <<Op("iret")>>

(* The last answer of the keyboard's set-up, the number of a scan code set *)
(* as it is translated, is the code of F7, which has a character.          *)
LastAnswer == Code(Digit, FALSE)

Init ==
  /\ pic \in [mask : [Chips -> BootMasks], irr : {[c \in Chips |-> {}]},
              isr : {[c \in Chips |-> {}]}]
  /\ irq = [prev |-> FALSE, curr |-> FALSE, cpu |-> FALSE]
  /\ handlers = {}
  /\ stage = "SER_init"
  /\ stack = <<[irq |-> Kernel, todo |-> <<>>]>>
  /\ kb = Released
  /\ down \in {{}, KeysUsed}
  /\ codes = <<>>
  /\ port = LastAnswer
  /\ used = [typed |-> 0, prints |-> 0, glitches |-> 0]

-----------------------------------------------------------------------------
(* Boot.  The processor takes no interrupts, and printk() changes nothing  *)
(* while the status is DISABLED.  Each of these calls can fail, and then   *)
(* the system halts.                                                       *)
Fail(at) ==
  /\ stage = at
  /\ stage' = "halted"
  /\ UNCHANGED <<pic, irq, handlers, stack, kb, down, codes, port, used>>

SER_init ==
  /\ stage = "SER_init"
  /\ handlers' = handlers \cup {IRQ36_COM1}
  /\ pic' = PIC_clear_mask(pic, IRQ36_COM1)
  /\ stage' = "ISR_init"
  /\ UNCHANGED <<irq, stack, kb, down, codes, port, used>>

(* IRQ_init() masks every line, with timer_init( false ) as its last step. *)
ISR_init ==
  /\ stage = "ISR_init"
  /\ handlers' = handlers \cup {IRQ32_TIMER}
  /\ pic' = PIC_set_mask(PIC_init(pic), IRQ32_TIMER)
  /\ stage' = "KB_init"
  /\ UNCHANGED <<irq, stack, kb, down, codes, port, used>>

(* The answers that the set-up polls for may have raised the line. *)
KB_init ==
  /\ stage = "KB_init"
  /\ handlers' = handlers \cup {IRQ33_KEYBOARD}
  /\ \E p \in {pic, RaiseLine(pic, 1, 1)} : pic' = PIC_clear_mask(p, IRQ33_KEYBOARD)
  /\ stage' = "IRQ_enable"
  /\ UNCHANGED <<irq, stack, kb, down, codes, port, used>>

EnableInterrupts ==
  /\ stage = "IRQ_enable"
  /\ stage' = "run"
  /\ stack' = Doing(IRQ_enable \o printk)
  /\ UNCHANGED <<pic, irq, handlers, kb, down, codes, port, used>>

-----------------------------------------------------------------------------
(* The running context does its next operation. *)
Next1(name) == Top.todo # <<>> /\ Head(Top.todo).op = name

Message ==
  /\ stage = "run" /\ Depth = 1 /\ Top.todo = <<>>
  /\ used.prints < MaxPrints
  /\ stack' = Doing(printk)
  /\ used' = [used EXCEPT !.prints = @ + 1]
  /\ UNCHANGED <<pic, irq, handlers, stage, kb, down, codes, port>>

ChangeStatus ==
  /\ \E name \in IrqOps : Next1(name)
  /\ irq' = DoIrq(irq, Head(Top.todo))
  /\ stack' = Doing(IrqCalls(irq, Head(Top.todo)) \o Tail(Top.todo))
  /\ UNCHANGED <<pic, handlers, stage, kb, down, codes, port, used>>

(* hw_write() is called when this byte is the only one in the FIFO, and by *)
(* the handler when the UART is ready; an unknown reason is printed.       *)
Calls(name) == {<<>>, cons_get} \cup (IF name = "iir" THEN {printk} ELSE {})

Transmit ==
  /\ \E name \in {"first?", "iir"} :
       /\ Next1(name)
       /\ \E ops \in Calls(name) : stack' = Doing(ops \o Tail(Top.todo))
  /\ UNCHANGED <<pic, irq, handlers, stage, kb, down, codes, port, used>>

(* ps2_keyboard_irq_handler(): the code is taken from the data port, and   *)
(* the next one, if any, raises the line again.  The status of the port is *)
(* not waited for: where no code is there, its last byte is read again.    *)
ReadKey ==
  /\ Next1("read")
  /\ port' = IF codes = <<>> THEN port ELSE Head(codes)
  /\ codes' = IF codes = <<>> THEN <<>> ELSE Tail(codes)
  /\ LET got == process_scan_code(kb, port')
         shown == CASE got.key = NO_CHAR -> <<>>
                    [] got.key = Warning -> printk
                    [] OTHER             -> VGA_display_char
     IN  kb' = got.kb /\ stack' = Doing(shown \o Tail(Top.todo))
  /\ pic' = IF codes' = <<>> THEN pic ELSE RaiseLine(pic, 1, 1)
  /\ UNCHANGED <<irq, handlers, stage, down, used>>

SendEOI ==
  /\ Next1("EOI")
  /\ pic' = PIC_send_EOI(pic, Top.irq)
  /\ stack' = Doing(Tail(Top.todo))
  /\ UNCHANGED <<irq, handlers, stage, kb, down, codes, port, used>>

(* The flag was set when the interrupt was taken. *)
Return ==
  /\ Next1("iret")
  /\ irq' = [irq EXCEPT !.cpu = TRUE]
  /\ stack' = SubSeq(stack, 1, Depth - 1)
  /\ UNCHANGED <<pic, handlers, stage, kb, down, codes, port, used>>

-----------------------------------------------------------------------------
(* An interrupt gate clears the flag. *)
Interrupt(n, newPic) ==
  /\ irq.cpu
  /\ irq' = [irq EXCEPT !.cpu = FALSE]
  /\ pic' = newPic
  /\ stack' = Pushed(n, interrupt_handler(n))
  /\ UNCHANGED <<handlers, stage, kb, down, codes, port>>

Deliver ==
  /\ Requests1(pic) # {}
  /\ Interrupt(Acknowledged(pic).irq, Acknowledged(pic).pic)
  /\ UNCHANGED used

(* A request that is withdrawn before it is acknowledged comes as line 7,  *)
(* and is not in service.                                                  *)
Spurious ==
  /\ used.glitches < MaxGlitches
  /\ Deliverable(pic) # {}
  /\ Interrupt(IRQ39_LPT1, pic)
  /\ used' = [used EXCEPT !.glitches = @ + 1]

Shifts == {LSFT, RSFT}
(* Num lock is on: an arrow comes in a shift unless one is held. *)
Faked(key) ==
  /\ key = UP
  /\ IF key \in down THEN FakeShift \in down ELSE down \cap Shifts = {}

(* The keyboard sends codes, once port 1 is enabled. *)
Send(sent) ==
  /\ stage \in {"IRQ_enable", "run"}
  /\ used.typed < MaxTyped
  /\ used' = [used EXCEPT !.typed = @ + 1]
  /\ codes' = codes \o sent
  /\ pic' = IF codes = <<>> THEN RaiseLine(pic, 1, 1) ELSE pic
  /\ UNCHANGED <<irq, handlers, stage, stack, kb, port>>

(* A key goes down or up. *)
Type(key) ==
  /\ LET moved == {key} \cup (IF Faked(key) THEN {FakeShift} ELSE {})
     IN  down' = IF key \in down THEN down \ moved ELSE down \cup moved
  /\ Send(CodesOf(key, key \in down, Faked(key)))

(* A key that is held is repeated (the last one; here any may be). *)
Repeat(key) ==
  /\ key \in down
  /\ Send(CodesOf(key, FALSE, FALSE))
  /\ UNCHANGED down

Raise(chip, line) ==
  /\ pic' = RaiseLine(pic, chip, line)
  /\ UNCHANGED <<irq, handlers, stage, stack, kb, down, codes, port, used>>

Boot ==
  \/ SER_init
  \/ ISR_init
  \/ KB_init
  \/ EnableInterrupts
  \/ \E at \in {"SER_init", "ISR_init", "KB_init"} : Fail(at)

Execute == Message \/ ChangeStatus \/ Transmit \/ ReadKey \/ SendEOI \/ Return

Next ==
  \/ Boot
  \/ Execute
  \/ Deliver
  \/ Spurious
  \/ \E key \in KeysUsed : Type(key) \/ Repeat(key)
  \/ \E r \in Raised : Raise(r[1], r[2])

Spec == Init /\ [][Next]_vars
-----------------------------------------------------------------------------
TypeOK ==
  /\ pic \in [mask : [Chips -> SUBSET Lines], irr : [Chips -> SUBSET Lines],
              isr : [Chips -> SUBSET Lines]]
  /\ irq \in [prev : BOOLEAN, curr : BOOLEAN, cpu : BOOLEAN]
  /\ handlers \subseteq PIC1_MIN_IRQ..PIC2_MAX_IRQ
  /\ stage \in Stages
  /\ stack # <<>> /\ \A i \in DOMAIN stack : IS_PIC_IRQ(stack[i].irq) \/ i = 1
  /\ kb \in [shift : BOOLEAN, caps : BOOLEAN, ctrl : BOOLEAN, alt : BOOLEAN]
  /\ down \subseteq KeysUsed \cup {FakeShift}

Pending(c, name) == \E i \in DOMAIN c.todo : c.todo[i].op = name

(***************************************************************************)
(* A line is in service exactly while its handler has not ended it: no     *)
(* line stays blocked behind an interrupt nobody ends, and none is ended   *)
(* for another that was interrupted (irq_handler.c:162-196, pic.c:221-238).*)
(* (With the types.)                                                       *)
(***************************************************************************)
InServiceIsRunning ==
  /\ TypeOK
  /\ pic.isr[2] = {}
  /\ pic.isr[1] = {c.irq - PIC1_OFFSET :
                     c \in {stack[i] : i \in {j \in DOMAIN stack : Pending(stack[j], "EOI")}}}

(***************************************************************************)
(* A handler is not entered again while it works, before its return, so    *)
(* that the state it keeps in static variables is safe, although it may    *)
(* run with interrupts open: when it came between the sti of a section and *)
(* the assignments that follow, its own IRQ_disable() opens them.  Between *)
(* its EOI and its return it may be entered again                          *)
(* (irq_handler.c:162-196, 264-295).                                       *)
(***************************************************************************)
Handling(c) == c.irq \notin {Kernel, IRQ39_LPT1} /\ Len(c.todo) > 1

NoReentry ==
  \A i, j \in DOMAIN stack :
    stack[i].irq = stack[j].irq /\ Handling(stack[i]) /\ Handling(stack[j]) => i = j

(***************************************************************************)
(* Once interrupts can be taken, every line that can interrupt has its     *)
(* handler, the keyboard's among them, and whatever runs is a handler that *)
(* was installed, or answers a glitch.  The drivers open their lines       *)
(* before and after PIC_init(), and PIC_set_mask() never changes the masks *)
(* of the second chip: its lines are kept away by the mask of the cascade  *)
(* (pic.c:45-132, kernel_main.c:247-270).                                  *)
(***************************************************************************)
OpenLinesHandled ==
  stage \in {"IRQ_enable", "run"} =>
    /\ Deliverable(pic) \subseteq handlers
    /\ IRQ33_KEYBOARD \in Deliverable(pic)
    /\ \A i \in DOMAIN stack : stack[i].irq \in handlers \cup {Kernel, IRQ39_LPT1}

(***************************************************************************)
(* No modifier sticks: when every scan code has been processed, a shift,   *)
(* control or alt that the driver takes for pressed is held down, also     *)
(* where a code was read twice or a key repeated (a shift that is held may *)
(* be taken for released: the driver has one state for both; and an arrow  *)
(* counts as a shift where the keyboard sends one with it), and each code  *)
(* in the keyboard has, or will get, its interrupt                         *)
(* (ps2_keyboard_driver.c:308-458).                                        *)
(***************************************************************************)
KeyboardServed ==
  \/ codes = <<>>
  \/ 1 \in pic.irr[1]
  \/ \E i \in DOMAIN stack : Pending(stack[i], "read")

ModifiersHeld ==
  /\ KeyboardServed
  /\ codes = <<>> => /\ kb.shift => down \cap (Shifts \cup {FakeShift}) # {}
                     /\ kb.ctrl => CTRL \in down
                     /\ kb.alt => ALT \in down
=============================================================================
