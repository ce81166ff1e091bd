--------------------------- MODULE DevicesProofs ----------------------------
(***************************************************************************)
(* Theorems about Devices, for every set of keys, every set of lines that  *)
(* devices raise, every mask the boot loader leaves, and any number of     *)
(* interrupts, messages and key events.                                    *)
(***************************************************************************)
EXTENDS Devices, Induction

PicType == [mask : [Chips -> SUBSET Lines], irr : [Chips -> SUBSET Lines],
            isr : [Chips -> SUBSET Lines]]

-----------------------------------------------------------------------------
(* The masks.  PIC_set_mask() always reaches the first chip, and sets no    *)
(* bit there for a line of the second (pic.c:83-132).                       *)
LEMMA SetMaskOfFirst ==
  ASSUME NEW p \in PicType, NEW n \in 32..47
  PROVE  PIC_set_mask(p, n) =
           [mask |-> [p.mask EXCEPT ![1] = p.mask[1] \cup ({n - 32} \cap Lines)],
            irr |-> p.irr, isr |-> p.isr]
<1>1. IS_PIC_IRQ(n) /\ n - 32 \in 0..15 /\ n - 32 < PIC1_MIN_IRQ
  BY DEF IS_PIC_IRQ, PIC1_MIN_IRQ, PIC1_OFFSET, PIC2_MAX_IRQ, PIC2_OFFSET
<1>2. ChipOf(n - 32) = 1 /\ BitOf(n - 32) = {n - 32} \cap Lines
  BY <1>1 DEF ChipOf, BitOf
<1>3. PIC_set_mask(p, n) = [p EXCEPT !.mask[1] = @ \cup ({n - 32} \cap Lines)]
  BY <1>1, <1>2 DEF PIC_set_mask, PIC1_OFFSET
<1> QED BY <1>3 DEF PicType

LEMMA ClearMaskOfFirst ==
  ASSUME NEW p \in PicType, NEW n \in 32..47
  PROVE  PIC_clear_mask(p, n) =
           [mask |-> [p.mask EXCEPT ![1] = p.mask[1] \ ({n - 32} \cap Lines)],
            irr |-> p.irr, isr |-> p.isr]
<1>1. IS_PIC_IRQ(n) /\ n - 32 \in 0..15 /\ n - 32 < PIC1_MIN_IRQ
  BY DEF IS_PIC_IRQ, PIC1_MIN_IRQ, PIC1_OFFSET, PIC2_MAX_IRQ, PIC2_OFFSET
<1>2. ChipOf(n - 32) = 1 /\ BitOf(n - 32) = {n - 32} \cap Lines
  BY <1>1 DEF ChipOf, BitOf
<1>3. PIC_clear_mask(p, n) = [p EXCEPT !.mask[1] = @ \ ({n - 32} \cap Lines)]
  BY <1>1, <1>2 DEF PIC_clear_mask, PIC1_OFFSET
<1> QED BY <1>3 DEF PicType

(* The loop of PIC_init() masks the first chip, and leaves the second as   *)
(* the boot loader set it; the chips forget requests and services          *)
(* (pic.c:45-80).                                                          *)
LEMMA InitMasksFirst ==
  ASSUME NEW p \in PicType
  PROVE  PIC_init(p) = [mask |-> [p.mask EXCEPT ![1] = Lines],
                        irr |-> [c \in Chips |-> {}], isr |-> [c \in Chips |-> {}]]
<1> DEFINE r == PIC_remap(p)
           upTo(i) == [mask |-> [p.mask EXCEPT ![1] = p.mask[1] \cup {k \in Lines : k <= i - 32}],
                       irr |-> r.irr, isr |-> r.isr]
           Eqn(f) == [n \in 31..46 |-> IF n < 32 THEN r ELSE PIC_set_mask(f[n - 1], n)]
           Known == [n \in 31..46 |-> upTo(n)]
           found == CHOOSE f : f = Eqn(f)
<1>1. r = [mask |-> p.mask, irr |-> [c \in Chips |-> {}], isr |-> [c \in Chips |-> {}]]
  BY DEF PIC_remap
<1>2. r \in PicType
  BY <1>1 DEF PicType
<1>3. PIC_init(p) = found[46]
  BY DEF PIC_init, SetMasks, PIC1_MIN_IRQ, PIC1_OFFSET, PIC2_MAX_IRQ, PIC2_OFFSET
<1> HIDE DEF r
<1>4. \A i \in 31..46 : upTo(i) \in PicType
  BY <1>2 DEF PicType, Chips
<1>5. upTo(31) = r
  <2>1. {k \in Lines : k <= 31 - 32} = {}
    BY DEF Lines
  <2>2. [p.mask EXCEPT ![1] = p.mask[1] \cup {}] = p.mask
    BY DEF PicType
  <2> QED BY <1>1, <2>1, <2>2
<1>6. ASSUME NEW i \in 32..46 PROVE upTo(i) = PIC_set_mask(upTo(i - 1), i)
  <2> DEFINE u == upTo(i - 1)
  <2>1. i - 1 \in 31..46 /\ i \in 32..47 /\ u \in PicType
    <3>1. i - 1 \in 31..46 /\ i \in 32..47
      OBVIOUS
    <3> HIDE DEF upTo
    <3> QED BY <1>4, <3>1
  <2>2. PIC_set_mask(u, i) =
          [mask |-> [u.mask EXCEPT ![1] = u.mask[1] \cup ({i - 32} \cap Lines)],
           irr |-> u.irr, isr |-> u.isr]
    <3> HIDE DEF u
    <3> QED BY <2>1, SetMaskOfFirst
  <2>3. {k \in Lines : k <= i - 32} = {k \in Lines : k <= (i - 1) - 32} \cup ({i - 32} \cap Lines)
    <3>1. \A k \in Lines : k <= i - 32 <=> (k <= (i - 1) - 32 \/ k = i - 32)
      BY DEF Lines
    <3> QED BY <3>1
  <2>4. u.mask[1] = p.mask[1] \cup {k \in Lines : k <= (i - 1) - 32}
    BY DEF PicType, Chips
  <2>5. [u.mask EXCEPT ![1] = u.mask[1] \cup ({i - 32} \cap Lines)]
          = [p.mask EXCEPT ![1] = p.mask[1] \cup {k \in Lines : k <= i - 32}]
    BY <2>3, <2>4 DEF PicType, Chips
  <2> QED BY <2>2, <2>5
<1> HIDE DEF upTo
<1>7. Known = Eqn(Known)
  <2>1. \A n \in 31..46 : n < 32 => n = 31
    OBVIOUS
  <2>2. \A n \in 31..46 : ~(n < 32) => n \in 32..46 /\ n - 1 \in 31..46
    OBVIOUS
  <2> QED BY <1>5, <1>6, <2>1, <2>2
<1>8. found = Eqn(found)
  BY <1>7
<1> HIDE DEF found
<1>9. \A i \in 31..46 : found[i] = upTo(i)
  <2> DEFINE T == {i \in 31..46 : found[i] = upTo(i)}
  <2>1. 31 \in Int /\ 46 \in Int /\ 31 \in T
    BY <1>5, <1>8
  <2>2. ASSUME NEW i \in 31..(46 - 1), i \in T PROVE i + 1 \in T
    <3>1. i + 1 \in 32..46 /\ i + 1 \in 31..46 /\ ~(i + 1 < 32) /\ (i + 1) - 1 = i
      OBVIOUS
    <3>2. found[i + 1] = PIC_set_mask(found[(i + 1) - 1], i + 1)
      BY <1>8, <3>1
    <3> QED BY <1>6, <2>2, <3>1, <3>2
  <2> HIDE DEF T
  <2>3. \A i \in 31..46 : i \in T
    BY <2>1, <2>2, IntervalInduction
  <2> QED BY <2>3 DEF T
<1>10. upTo(46) = [mask |-> [p.mask EXCEPT ![1] = Lines],
                   irr |-> [c \in Chips |-> {}], isr |-> [c \in Chips |-> {}]]
  <2>1. {k \in Lines : k <= 46 - 32} = Lines
    BY DEF Lines
  <2>2. p.mask[1] \cup Lines = Lines
    BY DEF PicType, Chips
  <2> QED BY <1>1, <2>1, <2>2 DEF upTo
<1>11. 46 \in 31..46
  OBVIOUS
<1> QED BY <1>3, <1>9, <1>10, <1>11

-----------------------------------------------------------------------------
(***************************************************************************)
(* The inductive invariant.  What is left to do in a context ends as its   *)
(* kind says: with nothing more in the kernel (k = 0), with the return of  *)
(* an interrupt that is not, or no longer, in service (k = 1), or with the *)
(* EOI and the return of one that is (k = 2).                              *)
(***************************************************************************)
Working == IrqOps \cup {"first?", "iir", "read"}
AllOps == [op : Working \cup {"EOI", "iret"}, arg : {NoArg}]

HasForm(s, k) ==
  /\ s \in Seq(AllOps) /\ Len(s) >= k
  /\ \A i \in 1..(Len(s) - k) : s[i].op \in Working
  /\ k \in {1, 2} => s[Len(s)].op = "iret"
  /\ k = 2 => s[Len(s) - 1].op = "EOI"

(* Only the return is left to do. *)
Ending(s) == HasForm(s, 1) /\ Len(s) = 1

Context(c) ==
  \/ c.irq = Kernel /\ HasForm(c.todo, 0)
  \/ c.irq = IRQ39_LPT1 /\ HasForm(c.todo, 1)
  \/ c.irq = IRQ33_KEYBOARD /\ (Ending(c.todo) \/ HasForm(c.todo, 2))

Unended(c) == c.irq = IRQ33_KEYBOARD /\ HasForm(c.todo, 2)

Booted == stage \in {"IRQ_enable", "run"}

CodeRec == [key : AllKeys \cup {E0}, released : BOOLEAN]

Types ==
  /\ pic \in PicType
  /\ irq \in [prev : BOOLEAN, curr : BOOLEAN, cpu : BOOLEAN]
  /\ stage \in Stages
  /\ kb \in [shift : BOOLEAN, caps : BOOLEAN, ctrl : BOOLEAN, alt : BOOLEAN]
  /\ down \subseteq KeysUsed \cup {FakeShift}
  /\ codes \in Seq(CodeRec) /\ port \in CodeRec

(* Until interrupts are enabled the kernel runs alone, and only the line of *)
(* the keyboard is open when they are.                                      *)
BootInv ==
  /\ stage # "run" => stack = <<[irq |-> Kernel, todo |-> <<>>]>> /\ ~irq.cpu
  /\ ~Booted => codes = <<>>
  /\ handlers \subseteq {IRQ32_TIMER, IRQ33_KEYBOARD, IRQ36_COM1}
  /\ Booted => IRQ33_KEYBOARD \in handlers
  /\ stage = "KB_init" => pic.mask[1] = Lines
  /\ Booted => pic.mask[1] = Lines \ {1}

ContextRec == [irq : {Kernel, IRQ33_KEYBOARD, IRQ39_LPT1}, todo : Seq(AllOps)]

StackInv ==
  /\ stack \in Seq(ContextRec)
  /\ Len(stack) # 0
  /\ \A i \in 1..Len(stack) : Context(stack[i]) /\ (stack[i].irq = Kernel <=> i = 1)

ServiceInv ==
  /\ pic.isr[2] = {} /\ pic.isr[1] \subseteq {1}
  /\ 1 \in pic.isr[1] <=> \E i \in 1..Len(stack) : Unended(stack[i])
  /\ \A i, j \in 1..Len(stack) : Unended(stack[i]) /\ Unended(stack[j]) => i = j

(* A modifier after the codes cs, those of the keys K being its own, when  *)
(* it was x before: the last of its codes decides.                         *)
PressedAfter(cs, K, x) ==
  \/ x /\ \A i \in 1..Len(cs) : cs[i].key \notin K
  \/ \E i \in 1..Len(cs) : /\ cs[i].key \in K /\ ~cs[i].released
                           /\ \A j \in (i + 1)..Len(cs) : cs[j].key \notin K

(* The byte in the data port, read once more, changes no modifier. *)
Again == WithModifier(kb, port.key, ~port.released) = kb

(* A key of K is down, or an arrow with its shift. *)
Held(K) == down \cap (K \cup (IF LSFT \in K THEN {FakeShift} ELSE {})) # {}

KeysInv ==
  /\ PressedAfter(codes, Shifts, kb.shift) => Held(Shifts)
  /\ PressedAfter(codes, {CTRL}, kb.ctrl) => Held({CTRL})
  /\ PressedAfter(codes, {ALT}, kb.alt) => Held({ALT})
  /\ Again

IInv == Types /\ BootInv /\ StackInv /\ ServiceInv /\ KeyboardServed /\ KeysInv

-----------------------------------------------------------------------------
(* What is done first, and what follows. *)
LEMMA FormConcat ==
  ASSUME NEW u, NEW s, NEW k \in 0..2, HasForm(u, 0), HasForm(s, k)
  PROVE  HasForm(u \o s, k)
<1> DEFINE w == u \o s
<1>1. PICK m \in Nat : m = Len(u) /\ u \in Seq(AllOps) /\ \A i \in 1..m : u[i].op \in Working
  BY DEF HasForm
<1>2. PICK n \in Nat : n = Len(s) /\ s \in Seq(AllOps) /\ n >= k
                       /\ \A i \in 1..(n - k) : s[i].op \in Working
  BY DEF HasForm
<1>3. /\ w \in Seq(AllOps) /\ Len(w) = m + n
      /\ \A i \in 1..m : w[i] = u[i]
      /\ \A i \in 1..n : w[m + i] = s[i]
  BY <1>1, <1>2
<1> HIDE DEF w
<1>4. ASSUME NEW i \in 1..((m + n) - k) PROVE w[i].op \in Working
  <2>1. CASE i <= m
    BY <1>1, <1>3, <2>1
  <2>2. CASE ~(i <= m)
    <3>1. i - m \in 1..(n - k) /\ i - m \in 1..n /\ m + (i - m) = i
      BY <1>1, <1>2, <2>2
    <3>2. w[m + (i - m)] = s[i - m]
      BY <1>3, <3>1
    <3> QED BY <1>2, <3>1, <3>2
  <2> QED BY <2>1, <2>2
<1>5. k \in {1, 2} => w[m + n].op = "iret"
  BY <1>1, <1>2, <1>3 DEF HasForm
<1>6. k = 2 => w[(m + n) - 1].op = "EOI"
  <2>1. SUFFICES ASSUME k = 2 PROVE w[(m + n) - 1].op = "EOI"
    OBVIOUS
  <2>2. n - 1 \in 1..n /\ m + (n - 1) = (m + n) - 1
    BY <1>1, <1>2, <2>1
  <2>3. w[m + (n - 1)] = s[n - 1]
    BY <1>3, <2>2
  <2> QED BY <1>2, <2>1, <2>2, <2>3 DEF HasForm
<1>7. Len(w) >= k
  BY <1>1, <1>2, <1>3
<1>8. HasForm(w, k)
  BY <1>1, <1>2, <1>3, <1>4, <1>5, <1>6, <1>7 DEF HasForm
<1> QED BY <1>8 DEF w

(* The first operation is done: it decides the kind, if it is the EOI or   *)
(* the return.                                                             *)
LEMMA FormTail ==
  ASSUME NEW s, NEW k \in 0..2, HasForm(s, k), s # <<>>
  PROVE  /\ s[1].op \in Working => HasForm(Tail(s), k)
         /\ s[1].op = "EOI" => k = 2 /\ HasForm(Tail(s), 1)
         /\ s[1].op = "iret" => k = 1
<1> DEFINE t == Tail(s)
<1>1. PICK n \in Nat : n = Len(s) /\ s \in Seq(AllOps) /\ n >= k /\ n # 0
                       /\ \A i \in 1..(n - k) : s[i].op \in Working
  BY DEF HasForm
<1>2. t \in Seq(AllOps) /\ Len(t) = n - 1 /\ \A i \in 1..(n - 1) : t[i] = s[i + 1]
  BY <1>1
<1>3. "EOI" \notin Working /\ "iret" \notin Working /\ "EOI" # "iret"
  BY DEF Working, IrqOps
<1>4. (k \in {1, 2} => s[n].op = "iret") /\ (k = 2 => s[n - 1].op = "EOI")
  BY <1>1 DEF HasForm
<1>5. n > k => s[1].op \in Working
  BY <1>1
<1> HIDE DEF t
<1>6. ASSUME NEW j \in 0..2, j <= k, n - 1 >= j
      PROVE  /\ \A i \in 1..((n - 1) - k) : t[i].op \in Working
             /\ j \in {1, 2} => t[n - 1].op = "iret"
             /\ j = 2 => t[(n - 1) - 1].op = "EOI"
  <2>1. \A i \in 1..((n - 1) - k) : i + 1 \in 1..(n - k) /\ i \in 1..(n - 1)
    BY <1>1
  <2>2. j \in {1, 2} => t[n - 1].op = "iret"
    <3>1. SUFFICES ASSUME j \in {1, 2} PROVE t[n - 1].op = "iret"
      OBVIOUS
    <3>2. k \in {1, 2} /\ n - 1 \in 1..(n - 1) /\ (n - 1) + 1 = n
      BY <1>1, <1>6, <3>1
    <3> QED BY <1>2, <1>4, <3>2
  <2>3. j = 2 => t[(n - 1) - 1].op = "EOI"
    <3>1. SUFFICES ASSUME j = 2 PROVE t[(n - 1) - 1].op = "EOI"
      OBVIOUS
    <3>2. k = 2 /\ (n - 1) - 1 \in 1..(n - 1) /\ ((n - 1) - 1) + 1 = n - 1
      BY <1>1, <1>6, <3>1
    <3> QED BY <1>2, <1>4, <3>2
  <2> QED BY <1>1, <1>2, <2>1, <2>2, <2>3
<1>7. s[1].op \in Working => HasForm(t, k)
  <2>1. SUFFICES ASSUME s[1].op \in Working PROVE HasForm(t, k)
    OBVIOUS
  <2>2. n # k
    <3>1. CASE k = 0
      BY <1>1, <3>1
    <3>2. CASE k = 1
      BY <1>3, <1>4, <2>1, <3>2
    <3>3. CASE k = 2
      BY <1>3, <1>4, <2>1, <3>3
    <3> QED BY <3>1, <3>2, <3>3
  <2>3. n - 1 >= k
    BY <1>1, <2>2
  <2> QED BY <1>2, <1>6, <2>3 DEF HasForm
<1>8. s[1].op = "EOI" => k = 2 /\ HasForm(t, 1)
  <2>1. SUFFICES ASSUME s[1].op = "EOI" PROVE k = 2 /\ HasForm(t, 1)
    OBVIOUS
  <2>2. n = k
    BY <1>1, <1>3, <1>5, <2>1
  <2>3. k = 2 /\ n = 2
    <3>1. k # 1
      BY <1>3, <1>4, <2>1, <2>2
    <3> QED BY <1>1, <2>2, <3>1
  <2>4. t[n - 1].op = "iret"
    BY <1>6, <2>3
  <2>5. \A i \in 1..(Len(t) - 1) : t[i].op \in Working
    BY <1>2, <2>3
  <2> QED BY <1>2, <2>3, <2>4, <2>5 DEF HasForm
<1>9. s[1].op = "iret" => k = 1
  <2>1. SUFFICES ASSUME s[1].op = "iret" PROVE k = 1
    OBVIOUS
  <2>2. n = k
    BY <1>1, <1>3, <1>5, <2>1
  <2>3. k # 2
    BY <1>3, <1>4, <2>1, <2>2
  <2> QED BY <1>1, <2>2, <2>3
<1> QED BY <1>7, <1>8, <1>9 DEF t

(* An EOI is to be sent in a context of the last kind, and only there. *)
LEMMA FormPending ==
  ASSUME NEW s, NEW k \in 0..2, HasForm(s, k)
  PROVE  (\E i \in DOMAIN s : s[i].op = "EOI") <=> k = 2
<1>1. PICK n \in Nat : n = Len(s) /\ s \in Seq(AllOps) /\ n >= k /\ DOMAIN s = 1..n
                       /\ \A i \in 1..(n - k) : s[i].op \in Working
  BY DEF HasForm
<1>2. "EOI" \notin Working /\ "EOI" # "iret"
  BY DEF Working, IrqOps
<1>3. k = 2 => n - 1 \in 1..n /\ s[n - 1].op = "EOI"
  BY <1>1 DEF HasForm
<1>4. ASSUME k # 2, NEW i \in 1..n PROVE s[i].op # "EOI"
  <2>1. CASE i <= n - k
    BY <1>1, <1>2, <2>1
  <2>2. CASE ~(i <= n - k)
    <3>1. k = 1 /\ i = n
      BY <1>1, <1>4, <2>2
    <3> QED BY <1>1, <1>2, <3>1 DEF HasForm
  <2> QED BY <2>1, <2>2
<1> QED BY <1>1, <1>3, <1>4

(* The sequences of operations the calls consist of. *)
LEMMA WorkOf ==
  /\ \A name \in Working : HasForm(<<Op(name)>>, 0)
  /\ HasForm(<<>>, 0)
  /\ HasForm(IRQ_enable, 0) /\ HasForm(IRQ_disable, 0) /\ HasForm(IRQ_reenable, 0)
<1>1. ASSUME NEW name \in Working PROVE HasForm(<<Op(name)>>, 0)
  BY DEF HasForm, AllOps, Op
<1>2. HasForm(<<>>, 0)
  BY DEF HasForm
<1>3. \A name \in IrqOps : Op(name) \in AllOps /\ Op(name).op \in Working
  BY DEF Working, AllOps, Op
<1>4. ASSUME NEW x \in AllOps, NEW y \in AllOps, NEW z \in AllOps,
             x.op \in Working, y.op \in Working, z.op \in Working
      PROVE  HasForm(<<x, y, z>>, 0) /\ HasForm(<<x>>, 0)
  BY <1>4 DEF HasForm
<1>5. /\ "prev=curr" \in IrqOps /\ "curr=ENABLED" \in IrqOps /\ "curr=DISABLED" \in IrqOps
      /\ "cli" \in IrqOps /\ "sti if enabled" \in IrqOps /\ "enable if was" \in IrqOps
  BY DEF IrqOps
<1>6. HasForm(IRQ_enable, 0)
  BY <1>3, <1>4, <1>5 DEF IRQ_enable
<1>7. HasForm(IRQ_disable, 0)
  BY <1>3, <1>4, <1>5 DEF IRQ_disable
<1>8. HasForm(IRQ_reenable, 0)
  BY <1>3, <1>4, <1>5 DEF IRQ_reenable
<1> QED BY <1>1, <1>2, <1>6, <1>7, <1>8

LEMMA WorkOfPrinting ==
  HasForm(VGA_display_char, 0) /\ HasForm(printk, 0) /\ HasForm(cons_get, 0)
<1>1. HasForm(VGA_display_char, 0) /\ HasForm(cons_get, 0)
  BY WorkOf, FormConcat DEF VGA_display_char, cons_get
<1>2. "first?" \in Working
  BY DEF Working
<1>3. HasForm(VGA_display_char \o IRQ_disable, 0)
  BY <1>1, WorkOf, FormConcat
<1>4. HasForm((VGA_display_char \o IRQ_disable) \o <<Op("first?")>>, 0)
  BY <1>2, <1>3, WorkOf, FormConcat
<1>5. HasForm(((VGA_display_char \o IRQ_disable) \o <<Op("first?")>>) \o IRQ_reenable, 0)
  BY <1>4, WorkOf, FormConcat
<1> QED BY <1>1, <1>5 DEF printk

(* interrupt_handler() for the two interrupts that come (irq_handler.c:    *)
(* 162-196).                                                               *)
LEMMA HandlerForms ==
  ASSUME BootInv
  PROVE  /\ HasForm(interrupt_handler(IRQ39_LPT1), 1)
         /\ Booted => /\ HasForm(interrupt_handler(IRQ33_KEYBOARD), 2)
                      /\ interrupt_handler(IRQ33_KEYBOARD)[1].op = "read"
<1>1. IRQ39_LPT1 = 39 /\ IRQ33_KEYBOARD = 33 /\ IRQ32_TIMER = 32 /\ IRQ36_COM1 = 36
  BY DEF IRQ39_LPT1, IRQ33_KEYBOARD, IRQ32_TIMER, IRQ36_COM1, PIC1_OFFSET
<1>2. interrupt_handler(IRQ39_LPT1) = printk \o <<Op("iret")>>
  <2>1. IRQ39_LPT1 \notin handlers
    BY <1>1 DEF BootInv
  <2> QED BY <2>1 DEF interrupt_handler
<1>3. HasForm(<<Op("iret")>>, 1)
  BY DEF HasForm, AllOps, Op
<1>4. IS_PIC_IRQ(33)
  BY DEF IS_PIC_IRQ, PIC1_MIN_IRQ, PIC1_OFFSET, PIC2_MAX_IRQ, PIC2_OFFSET
<1>5. Booted => interrupt_handler(IRQ33_KEYBOARD)
                  = (<<Op("read")>> \o <<Op("EOI")>>) \o <<Op("iret")>>
  BY <1>1, <1>4 DEF BootInv, interrupt_handler, Handler
<1> DEFINE w == (<<Op("read")>> \o <<Op("EOI")>>) \o <<Op("iret")>>
<1>6. /\ Op("read") \in AllOps /\ Op("EOI") \in AllOps /\ Op("iret") \in AllOps
      /\ Op("read").op = "read" /\ Op("EOI").op = "EOI" /\ Op("iret").op = "iret"
      /\ "read" \in Working
  BY DEF AllOps, Op, Working
<1> HIDE DEF Op
<1>7. /\ w \in Seq(AllOps) /\ Len(w) = 3
      /\ w[1] = Op("read") /\ w[2] = Op("EOI") /\ w[3] = Op("iret")
  BY <1>6
<1> HIDE DEF w
<1>8. HasForm(w, 2) /\ w[1].op = "read"
  BY <1>6, <1>7 DEF HasForm
<1>9. HasForm(interrupt_handler(IRQ39_LPT1), 1)
  BY <1>2, <1>3, WorkOfPrinting, FormConcat
<1>10. Booted => interrupt_handler(IRQ33_KEYBOARD) = w
  BY <1>5 DEF w
<1> QED BY <1>8, <1>9, <1>10

-----------------------------------------------------------------------------
(* The numbers of the interrupts. *)
LEMMA Numbers ==
  /\ Kernel = 0 /\ IRQ33_KEYBOARD = 33 /\ IRQ39_LPT1 = 39
  /\ IRQ32_TIMER = 32 /\ IRQ36_COM1 = 36
  /\ \A n : IS_PIC_IRQ(n) <=> 32 <= n /\ n <= 47
  BY DEF Kernel, IRQ39_LPT1, IRQ33_KEYBOARD, IRQ32_TIMER, IRQ36_COM1, PIC1_OFFSET,
         IS_PIC_IRQ, PIC1_MIN_IRQ, PIC2_MAX_IRQ, PIC2_OFFSET

(* A context is in service or it is not. *)
LEMMA FormsDiffer ==
  ASSUME NEW s, HasForm(s, 2)
  PROVE  ~HasForm(s, 1)
<1>1. SUFFICES ASSUME HasForm(s, 1) PROVE FALSE
  OBVIOUS
<1>2. 1 \in 0..2 /\ 2 \in 0..2 /\ 1 # 2
  OBVIOUS
<1> QED BY <1>1, <1>2, FormPending

LEMMA PendingIsUnended ==
  ASSUME NEW c, Context(c)
  PROVE  /\ Pending(c, "EOI") <=> Unended(c)
         /\ Unended(c) => ~HasForm(c.todo, 1)
<1>1. 0 \in 0..2 /\ 1 \in 0..2 /\ 2 \in 0..2 /\ 0 # 2 /\ 1 # 2
  OBVIOUS
<1>2. Kernel # IRQ33_KEYBOARD /\ IRQ39_LPT1 # IRQ33_KEYBOARD
  BY Numbers
<1>3. Unended(c) => ~HasForm(c.todo, 1)
  BY FormsDiffer DEF Unended
<1>4. CASE HasForm(c.todo, 2) /\ c.irq = IRQ33_KEYBOARD
  BY <1>1, <1>4, FormPending DEF Pending, Unended
<1>5. CASE HasForm(c.todo, 1)
  BY <1>1, <1>3, <1>5, FormPending DEF Pending
<1>6. CASE HasForm(c.todo, 0) /\ c.irq = Kernel
  BY <1>1, <1>2, <1>6, FormPending DEF Pending, Unended
<1> QED BY <1>3, <1>4, <1>5, <1>6 DEF Context, Ending

(* The running context goes on in its kind. *)
LEMMA GoesOn ==
  ASSUME StackInv, NEW w \in Seq(AllOps), stack' = Doing(w), ~Ending(Top.todo),
         \A k \in 0..2 : HasForm(Top.todo, k) => HasForm(w, k)
  PROVE  /\ StackInv' /\ Len(stack') = Len(stack)
         /\ \A i \in 1..Len(stack) : /\ Unended(stack'[i]) <=> Unended(stack[i])
                                     /\ i # Len(stack) => stack'[i] = stack[i]
         /\ stack'[Len(stack)].todo = w
<1>1. PICK n \in Nat : n = Len(stack) /\ n # 0 /\ n \in 1..n
  BY DEF StackInv
<1>2. /\ stack \in Seq(ContextRec) /\ stack[n] \in ContextRec
      /\ \A i \in 1..n : Context(stack[i]) /\ (stack[i].irq = Kernel <=> i = 1)
  BY <1>1 DEF StackInv
<1>3. stack' = [stack EXCEPT ![n] = [stack[n] EXCEPT !.todo = w]]
  BY <1>1 DEF Doing, Depth
<1> DEFINE d == [stack[n] EXCEPT !.todo = w]
<1>4. d \in ContextRec /\ d.irq = stack[n].irq /\ d.todo = w
  BY <1>2 DEF ContextRec
<1> HIDE DEF d
<1>5. /\ stack' \in Seq(ContextRec) /\ Len(stack') = n /\ stack'[n] = d
      /\ \A i \in 1..n : i # n => stack'[i] = stack[i]
  BY <1>1, <1>2, <1>3, <1>4 DEF d
<1>6. (\A k \in 0..2 : HasForm(stack[n].todo, k) => HasForm(w, k)) /\ ~Ending(stack[n].todo)
  BY <1>1 DEF Top, Depth
<1>7. 0 \in 0..2 /\ 1 \in 0..2 /\ 2 \in 0..2
  OBVIOUS
<1>8. Context(d)
  BY <1>1, <1>2, <1>4, <1>6, <1>7 DEF Context
<1>9. Unended(d) <=> Unended(stack[n])
  <2>1. Unended(stack[n]) => Unended(d)
    BY <1>4, <1>6, <1>7 DEF Unended
  <2>2. ASSUME Unended(d) PROVE Unended(stack[n])
    <3>1. d.irq = IRQ33_KEYBOARD /\ ~HasForm(w, 1)
      BY <1>4, <2>2, FormsDiffer DEF Unended
    <3>2. ~Ending(stack[n].todo) /\ stack[n].irq = IRQ33_KEYBOARD
      BY <1>4, <1>6, <1>7, <3>1
    <3>3. Context(stack[n])
      BY <1>1, <1>2
    <3> QED BY <3>2, <3>3, Numbers DEF Context, Unended
  <2> QED BY <2>1, <2>2
<1>10. StackInv'
  <2>1. \A i \in 1..n : Context(stack'[i]) /\ (stack'[i].irq = Kernel <=> i = 1)
    <3>1. ASSUME NEW i \in 1..n, i # n
          PROVE  Context(stack'[i]) /\ (stack'[i].irq = Kernel <=> i = 1)
      BY <1>2, <1>5, <3>1
    <3>2. Context(stack'[n]) /\ (stack'[n].irq = Kernel <=> n = 1)
      BY <1>1, <1>2, <1>4, <1>5, <1>8
    <3> QED BY <3>1, <3>2
  <2> QED BY <1>1, <1>5, <2>1 DEF StackInv
<1> QED BY <1>1, <1>4, <1>5, <1>9, <1>10

(* The elements of a tail that something was put before. *)
LEMMA BehindConcat ==
  ASSUME NEW S, NEW u \in Seq(S), NEW s \in Seq(S), NEW j \in 2..Len(s)
  PROVE  /\ Len(u) + (j - 1) \in DOMAIN (u \o Tail(s))
         /\ (u \o Tail(s))[Len(u) + (j - 1)] = s[j]
<1> DEFINE t == Tail(s)
<1>1. PICK l \in Nat : l = Len(s) /\ j - 1 \in 1..(l - 1) /\ (j - 1) + 1 = j
  OBVIOUS
<1>2. t \in Seq(S) /\ Len(t) = l - 1 /\ t[j - 1] = s[(j - 1) + 1]
  BY <1>1
<1> HIDE DEF t
<1>3. PICK m \in Nat : m = Len(u)
  OBVIOUS
<1> DEFINE w == u \o t
<1>4. /\ DOMAIN w = 1..(m + (l - 1))
      /\ \A i \in 1..(m + (l - 1)) : w[i] = IF i <= m THEN u[i] ELSE t[i - m]
  BY <1>2, <1>3
<1>5. m + (j - 1) \in 1..(m + (l - 1)) /\ ~(m + (j - 1) <= m) /\ (m + (j - 1)) - m = j - 1
  BY <1>1, <1>3
<1> HIDE DEF w
<1>6. w[m + (j - 1)] = t[j - 1] /\ m + (j - 1) \in DOMAIN w
  BY <1>4, <1>5
<1> QED BY <1>1, <1>2, <1>3, <1>6 DEF t, w

HasRead == \E i \in 1..Len(stack) : Pending(stack[i], "read")

(* It does an operation that is neither an EOI nor a return. *)
LEMMA OpDone ==
  ASSUME StackInv, NEW u, HasForm(u, 0), Top.todo # <<>>, Head(Top.todo).op \in Working,
         stack' = Doing(u \o Tail(Top.todo))
  PROVE  /\ StackInv' /\ Len(stack') = Len(stack)
         /\ \A i \in 1..Len(stack) : Unended(stack'[i]) <=> Unended(stack[i])
         /\ Head(Top.todo).op # "read" /\ HasRead => HasRead'
<1> DEFINE s == Top.todo
           w == u \o Tail(s)
<1>1. PICK n \in Nat : n = Len(stack) /\ n # 0 /\ n \in 1..n /\ stack[n] = Top
  BY DEF StackInv, Top, Depth
<1>2. s \in Seq(AllOps) /\ u \in Seq(AllOps)
  <2>1. stack[n] \in ContextRec
    BY <1>1 DEF StackInv
  <2> QED BY <1>1, <2>1 DEF HasForm, ContextRec
<1>3. s[1] = Head(s) /\ w \in Seq(AllOps)
  BY <1>2
<1>4. ASSUME NEW k \in 0..2, HasForm(s, k) PROVE HasForm(w, k)
  <2>1. HasForm(Tail(s), k)
    BY <1>3, <1>4, FormTail
  <2> QED BY <2>1, FormConcat
<1>5. stack' = Doing(w)
  OBVIOUS
<1>6. /\ StackInv' /\ Len(stack') = n
      /\ \A i \in 1..n : /\ Unended(stack'[i]) <=> Unended(stack[i])
                         /\ i # n => stack'[i] = stack[i]
      /\ stack'[n].todo = w
  <2> HIDE DEF w
  <2>1. ~Ending(s)
    <3>1. "iret" \notin Working
      BY DEF Working, IrqOps
    <3> QED BY <1>2, <1>3, <3>1 DEF Ending, HasForm
  <2> QED BY <1>1, <1>3, <1>4, <1>5, <2>1, GoesOn
<1>8. ASSUME Head(s).op # "read", NEW i \in 1..n, Pending(stack[i], "read")
      PROVE  \E j \in 1..n : Pending(stack'[j], "read")
  <2>1. CASE i # n
    BY <1>6, <1>8, <2>1
  <2>2. CASE i = n
    <3>1. PICK j \in DOMAIN s : s[j].op = "read"
      BY <1>1, <1>8, <2>2 DEF Pending
    <3>2. j \in 2..Len(s)
      BY <1>2, <1>3, <1>8, <3>1
    <3>3. Len(u) + (j - 1) \in DOMAIN w /\ w[Len(u) + (j - 1)] = s[j]
      BY <1>2, <3>2, BehindConcat
    <3>4. Pending(stack'[n], "read")
      BY <1>6, <3>1, <3>3 DEF Pending
    <3> QED BY <1>1, <3>4
  <2> QED BY <2>1, <2>2
<1> QED BY <1>1, <1>6, <1>8 DEF HasRead

(* Only while the system runs has a context something to do. *)
LEMMA WorkMeansRun ==
  ASSUME BootInv, Top.todo # <<>>
  PROVE  stage = "run"
<1>1. SUFFICES ASSUME stage # "run" PROVE FALSE
  OBVIOUS
<1>2. stack = <<[irq |-> Kernel, todo |-> <<>>]>>
  BY <1>1 DEF BootInv
<1> QED BY <1>2 DEF Top, Depth

-----------------------------------------------------------------------------
(* The scan codes.  The last code of a modifier decides whether it counts  *)
(* as pressed: in the codes that were added, or in those before.           *)
LastPressed(cs, K) ==
  \E i \in 1..Len(cs) : /\ cs[i].key \in K /\ ~cs[i].released
                        /\ \A j \in (i + 1)..Len(cs) : cs[j].key \notin K

LEMMA PressedConcat ==
  ASSUME NEW u \in Seq(CodeRec), NEW v \in Seq(CodeRec), NEW K, NEW x,
         PressedAfter(u \o v, K, x)
  PROVE  \/ LastPressed(v, K)
         \/ PressedAfter(u, K, x) /\ \A i \in 1..Len(v) : v[i].key \notin K
<1> DEFINE w == u \o v
<1>1. PICK m \in Nat, n \in Nat : m = Len(u) /\ n = Len(v)
  OBVIOUS
<1>2. Len(w) = m + n /\ \A i \in 1..(m + n) : w[i] = IF i <= m THEN u[i] ELSE v[i - m]
  BY <1>1
<1> HIDE DEF w
<1>3. ASSUME NEW i \in 1..n PROVE m + i \in 1..(m + n) /\ w[m + i] = v[i]
  <2>1. m + i \in 1..(m + n) /\ ~(m + i <= m) /\ (m + i) - m = i
    BY <1>1
  <2> QED BY <1>2, <2>1
<1>4. ASSUME NEW i \in 1..m PROVE i \in 1..(m + n) /\ w[i] = u[i]
  <2>1. i \in 1..(m + n) /\ i <= m
    BY <1>1
  <2> QED BY <1>2, <2>1
<1>5. CASE x /\ \A i \in 1..(m + n) : w[i].key \notin K
  <2>1. PressedAfter(u, K, x)
    BY <1>1, <1>4, <1>5 DEF PressedAfter
  <2>2. \A i \in 1..n : v[i].key \notin K
    BY <1>3, <1>5
  <2> QED BY <1>1, <2>1, <2>2
<1>6. ASSUME NEW i \in 1..(m + n), w[i].key \in K, ~w[i].released,
             \A j \in (i + 1)..(m + n) : w[j].key \notin K
      PROVE  \/ LastPressed(v, K)
             \/ PressedAfter(u, K, x) /\ \A k \in 1..Len(v) : v[k].key \notin K
  <2>1. CASE i <= m
    <3>1. i \in 1..m /\ u[i].key \in K /\ ~u[i].released
      BY <1>2, <1>6, <2>1
    <3>2. ASSUME NEW j \in (i + 1)..m PROVE u[j].key \notin K
      <4>1. j \in 1..m /\ j \in (i + 1)..(m + n)
        OBVIOUS
      <4> QED BY <1>4, <1>6, <4>1
    <3>3. ASSUME NEW k \in 1..n PROVE v[k].key \notin K
      <4>1. m + k \in (i + 1)..(m + n)
        BY <2>1
      <4> QED BY <1>3, <1>6, <4>1
    <3> QED BY <1>1, <3>1, <3>2, <3>3 DEF PressedAfter
  <2>2. CASE ~(i <= m)
    <3>1. i - m \in 1..n /\ w[i] = v[i - m]
      BY <1>2, <2>2
    <3>2. ASSUME NEW j \in ((i - m) + 1)..n PROVE v[j].key \notin K
      <4>1. j \in 1..n /\ m + j \in (i + 1)..(m + n)
        BY <2>2
      <4> QED BY <1>3, <1>6, <4>1
    <3> QED BY <1>1, <1>6, <3>1, <3>2 DEF LastPressed
  <2> QED BY <2>1, <2>2
<1>7. (x /\ \A i \in 1..(m + n) : w[i].key \notin K)
      \/ \E i \in 1..(m + n) : /\ w[i].key \in K /\ ~w[i].released
                               /\ \A j \in (i + 1)..(m + n) : w[j].key \notin K
  BY <1>2 DEF PressedAfter, w
<1> QED BY <1>5, <1>6, <1>7

(* A code is processed: the driver's state says what it said. *)
LEMMA PressedTail ==
  ASSUME NEW cs \in Seq(CodeRec), cs # <<>>, NEW K, NEW x, NEW y,
         cs[1].key \in K => (y => ~cs[1].released),
         cs[1].key \notin K => (y => x),
         PressedAfter(Tail(cs), K, y)
  PROVE  PressedAfter(cs, K, x)
<1> DEFINE t == Tail(cs)
<1>1. PICK n \in Nat : n = Len(cs) /\ n # 0
  OBVIOUS
<1>2. Len(t) = n - 1 /\ \A i \in 1..(n - 1) : t[i] = cs[i + 1]
  BY <1>1
<1> HIDE DEF t
<1>3. \A j \in 2..n : j - 1 \in 1..(n - 1) /\ cs[j] = t[j - 1]
  BY <1>1, <1>2
<1>4. CASE y /\ \A i \in 1..(n - 1) : t[i].key \notin K
  <2>1. \A j \in 2..n : cs[j].key \notin K
    BY <1>3, <1>4
  <2>2. CASE cs[1].key \in K
    <3>1. 1 \in 1..n /\ \A j \in (1 + 1)..n : cs[j].key \notin K
      BY <1>1, <2>1
    <3> QED BY <1>1, <1>4, <2>2, <3>1 DEF PressedAfter
  <2>3. CASE cs[1].key \notin K
    <3>1. \A i \in 1..n : i = 1 \/ i \in 2..n
      OBVIOUS
    <3> QED BY <1>1, <1>4, <2>1, <2>3, <3>1 DEF PressedAfter
  <2> QED BY <2>2, <2>3
<1>5. ASSUME NEW i \in 1..(n - 1), t[i].key \in K, ~t[i].released,
             \A j \in (i + 1)..(n - 1) : t[j].key \notin K
      PROVE  PressedAfter(cs, K, x)
  <2>1. i + 1 \in 1..n /\ cs[i + 1] = t[i]
    BY <1>1, <1>2
  <2>2. ASSUME NEW j \in ((i + 1) + 1)..n PROVE cs[j].key \notin K
    <3>1. j - 1 \in (i + 1)..(n - 1) /\ j \in 2..n
      OBVIOUS
    <3> QED BY <1>3, <1>5, <3>1
  <2> QED BY <1>1, <1>5, <2>1, <2>2 DEF PressedAfter
<1>6. (y /\ \A i \in 1..(n - 1) : t[i].key \notin K)
      \/ \E i \in 1..(n - 1) : /\ t[i].key \in K /\ ~t[i].released
                               /\ \A j \in (i + 1)..(n - 1) : t[j].key \notin K
  BY <1>2 DEF PressedAfter, t
<1> QED BY <1>4, <1>5, <1>6

(* The codes of a key that goes down or up, for the modifier of the keys K: *)
(* they concern it if the key is one of K, or comes in a shift of K.        *)
KeyCodes(v, key, rel, faked, K) ==
  /\ v \in Seq(CodeRec) /\ v # <<>>
  /\ \A i \in 1..Len(v) : v[i].key \in K => v[i].released = rel
  /\ key \in K \/ (faked /\ LSFT \in K) => \E i \in 1..Len(v) : v[i].key \in K
  /\ \A i \in 1..Len(v) : v[i].key \in K => key \in K \/ (faked /\ LSFT \in K)

LEMMA CodesOfKey ==
  ASSUME NEW key \in AllKeys, NEW rel \in BOOLEAN, NEW faked \in BOOLEAN,
         NEW K \in SUBSET Modifiers, faked => key = UP
  PROVE  KeyCodes(CodesOf(key, rel, faked), key, rel, faked, K)
<1> DEFINE v == CodesOf(key, rel, faked)
<1>1. /\ UP \notin K /\ E0 \notin K /\ LSFT \in AllKeys /\ UP \in AllKeys
      /\ TRUE \in BOOLEAN /\ FALSE \in BOOLEAN
  BY DEF UP, E0, Modifiers, LSFT, RSFT, CAPS, CTRL, ALT, AllKeys
<1>2. \A k \in AllKeys \cup {E0}, b \in BOOLEAN :
        Code(k, b) \in CodeRec /\ Code(k, b).key = k /\ Code(k, b).released = b
  BY DEF Code, CodeRec
<1>3. CASE key # UP
  <2>1. v = <<Code(key, rel)>>
    BY <1>3 DEF CodesOf
  <2> QED BY <1>2, <1>3, <2>1 DEF KeyCodes
<1>4. CASE key = UP /\ ~faked
  <2>1. v = <<Code(E0, TRUE), Code(UP, rel)>>
    BY <1>4 DEF CodesOf, Prefixed
  <2> DEFINE a == Code(E0, TRUE)
             b == Code(UP, rel)
  <2>2. a \in CodeRec /\ b \in CodeRec /\ a.key \notin K /\ b.key \notin K
    BY <1>1, <1>2
  <2> HIDE DEF a, b
  <2>3. v = <<a, b>>
    BY <2>1 DEF a, b
  <2>4. v \in Seq(CodeRec) /\ Len(v) = 2 /\ v[1] = a /\ v[2] = b
    BY <2>2, <2>3
  <2> HIDE DEF v
  <2>5. \A i \in 1..2 : v[i].key \notin K
    BY <2>2, <2>4
  <2>6. v # <<>>
    BY <2>4
  <2> QED BY <1>1, <1>4, <2>4, <2>5, <2>6 DEF v, KeyCodes
<1>5. CASE key = UP /\ faked
  <2> DEFINE a == Code(E0, TRUE)
             b == Code(UP, rel)
             c == Code(LSFT, rel)
  <2>1. /\ a \in CodeRec /\ b \in CodeRec /\ c \in CodeRec
        /\ a.key \notin K /\ b.key \notin K /\ c.key = LSFT /\ c.released = rel
    BY <1>1, <1>2
  <2>2. v = IF rel THEN <<a, b>> \o <<a, c>> ELSE <<a, c>> \o <<a, b>>
    BY <1>5 DEF CodesOf, Prefixed
  <2> HIDE DEF a, b, c
  <2>3. /\ v \in Seq(CodeRec) /\ Len(v) = 4 /\ v[1] = a /\ v[3] = a
        /\ v[2] = (IF rel THEN b ELSE c) /\ v[4] = (IF rel THEN c ELSE b)
    <3>1. CASE rel
      <4>1. v = <<a, b>> \o <<a, c>>
        BY <2>2, <3>1
      <4> HIDE DEF v
      <4> QED BY <2>1, <3>1, <4>1
    <3>2. CASE ~rel
      <4>1. v = <<a, c>> \o <<a, b>>
        BY <2>2, <3>2
      <4> HIDE DEF v
      <4> QED BY <2>1, <3>2, <4>1
    <3> QED BY <3>1, <3>2
  <2> HIDE DEF v
  <2>4. \A i \in 1..4 : i = 1 \/ i = 2 \/ i = 3 \/ i = 4
    OBVIOUS
  <2>5. \A i \in 1..4 : v[i].key \in K => v[i] = c
    BY <2>1, <2>3, <2>4
  <2>6. \E i \in 1..4 : v[i] = c
    <3>1. 2 \in 1..4 /\ 4 \in 1..4
      OBVIOUS
    <3>2. CASE rel
      BY <2>3, <3>1, <3>2
    <3>3. CASE ~rel
      BY <2>3, <3>1, <3>3
    <3> QED BY <3>2, <3>3
  <2>7. v # <<>>
    <3>1. Len(v) = 4
      BY <2>3
    <3>2. Len(<<>>) # 4
      OBVIOUS
    <3> QED BY <3>1, <3>2
  <2> QED BY <1>1, <1>5, <2>1, <2>3, <2>5, <2>6, <2>7 DEF v, KeyCodes
<1> QED BY <1>3, <1>4, <1>5

(* A key goes down or up: what was true of the modifier of K stays true.   *)

LEMMA TypeKeepsHeld ==
  ASSUME codes \in Seq(CodeRec), NEW key \in KeysUsed, Type(key),
         NEW K \in SUBSET Modifiers, NEW x, PressedAfter(codes, K, x) => Held(K)
  PROVE  PressedAfter(codes', K, x) => Held(K)'
<1> DEFINE rel == key \in down
           faked == Faked(key)
           v == CodesOf(key, rel, faked)
           H == K \cup (IF LSFT \in K THEN {FakeShift} ELSE {})
           moved == {key} \cup (IF faked THEN {FakeShift} ELSE {})
           touched == key \in K \/ (faked /\ LSFT \in K)
<1>1. /\ codes' = codes \o v
      /\ down' = IF rel THEN down \ moved ELSE down \cup moved
      /\ (Held(K) <=> down \cap H # {}) /\ (Held(K)' <=> down' \cap H # {})
  BY DEF Type, Send, Held
<1>2. key \in AllKeys /\ rel \in BOOLEAN /\ faked \in BOOLEAN /\ (faked => key = UP)
  BY DevicesAssumption DEF Faked
<1>3. FakeShift \notin AllKeys /\ K \subseteq AllKeys
  BY DEF FakeShift, AllKeys, Modifiers, LSFT, RSFT, CAPS, CTRL, ALT, UP, Letter, Digit, Blank
<1>4. /\ v \in Seq(CodeRec) /\ v # <<>>
      /\ \A i \in 1..Len(v) : v[i].key \in K => v[i].released = rel
      /\ touched => \E i \in 1..Len(v) : v[i].key \in K
      /\ \A i \in 1..Len(v) : v[i].key \in K => touched
  <2>1. PICK b \in BOOLEAN, f \in BOOLEAN : b = rel /\ f = faked
    BY <1>2
  <2>2. KeyCodes(CodesOf(key, b, f), key, b, f, K)
    <3>1. key \in AllKeys /\ (f => key = UP)
      BY <1>2, <2>1
    <3> HIDE DEF rel, faked
    <3> QED BY <3>1, CodesOfKey
  <2>3. KeyCodes(v, key, rel, faked, K)
    BY <2>1, <2>2
  <2> HIDE DEF v, rel, faked
  <2> QED BY <2>3 DEF KeyCodes
<1>5. touched => moved \cap H # {}
  OBVIOUS
<1>6. ~touched => moved \cap H = {}
  BY <1>2, <1>3
<1> HIDE DEF v, H, moved, faked
<1>7. SUFFICES ASSUME PressedAfter(codes \o v, K, x) PROVE down' \cap H # {}
  BY <1>1
<1>8. LastPressed(v, K) \/ (PressedAfter(codes, K, x) /\ \A i \in 1..Len(v) : v[i].key \notin K)
  <2> HIDE DEF touched, rel
  <2> QED BY <1>4, <1>7, PressedConcat
<1>9. CASE LastPressed(v, K)
  <2>1. touched /\ ~rel
    BY <1>4, <1>9 DEF LastPressed
  <2> QED BY <1>1, <1>5, <2>1
<1>10. CASE PressedAfter(codes, K, x) /\ \A i \in 1..Len(v) : v[i].key \notin K
  <2>1. ~touched /\ down \cap H # {}
    BY <1>1, <1>4, <1>10
  <2> QED BY <1>1, <1>6, <2>1
<1> QED BY <1>8, <1>9, <1>10

(* A key that is held is repeated: its codes press it, or no modifier. *)
LEMMA RepeatKeepsHeld ==
  ASSUME codes \in Seq(CodeRec), NEW key \in KeysUsed, Repeat(key),
         NEW K \in SUBSET Modifiers, NEW x, PressedAfter(codes, K, x) => Held(K)
  PROVE  PressedAfter(codes', K, x) => Held(K)'
<1> DEFINE v == CodesOf(key, FALSE, FALSE)
<1>1. codes' = codes \o v /\ key \in down /\ (Held(K)' <=> Held(K))
  BY DEF Repeat, Send, Held
<1>2. v \in Seq(CodeRec) /\ \A i \in 1..Len(v) : v[i].key \in K => key \in K
  <2>1. KeyCodes(v, key, FALSE, FALSE, K)
    BY DevicesAssumption, CodesOfKey
  <2> QED BY <2>1 DEF KeyCodes
<1> HIDE DEF v
<1>3. SUFFICES ASSUME PressedAfter(codes \o v, K, x) PROVE Held(K)
  BY <1>1
<1>4. LastPressed(v, K) \/ PressedAfter(codes, K, x)
  BY <1>2, <1>3, PressedConcat
<1>5. CASE LastPressed(v, K)
  <2>1. key \in K
    BY <1>2, <1>5 DEF LastPressed
  <2> QED BY <1>1, <2>1 DEF Held
<1> QED BY <1>4, <1>5

(* A byte sets at most the modifier it names, and a second time changes    *)
(* nothing.                                                                *)
KbType == [shift : BOOLEAN, caps : BOOLEAN, ctrl : BOOLEAN, alt : BOOLEAN]

LEMMA ModifierSet ==
  ASSUME NEW b \in KbType, NEW k, NEW pressed \in BOOLEAN
  PROVE  /\ WithModifier(b, k, pressed) \in KbType
         /\ WithModifier(b, k, pressed).shift = IF k \in Shifts THEN pressed ELSE b.shift
         /\ WithModifier(b, k, pressed).ctrl = IF k \in {CTRL} THEN pressed ELSE b.ctrl
         /\ WithModifier(b, k, pressed).alt = IF k \in {ALT} THEN pressed ELSE b.alt
         /\ WithModifier(WithModifier(b, k, pressed), k, pressed) = WithModifier(b, k, pressed)
<1>1. /\ LSFT # CAPS /\ LSFT # CTRL /\ LSFT # ALT /\ RSFT # CAPS /\ RSFT # CTRL /\ RSFT # ALT
      /\ CAPS # CTRL /\ CAPS # ALT /\ CTRL # ALT
  BY DEF LSFT, RSFT, CAPS, CTRL, ALT
<1>2. CASE k \in {LSFT, RSFT}
  BY <1>1, <1>2 DEF WithModifier, Shifts, KbType
<1>3. CASE k = CAPS
  BY <1>1, <1>3 DEF WithModifier, Shifts, KbType
<1>4. CASE k = CTRL
  BY <1>1, <1>4 DEF WithModifier, Shifts, KbType
<1>5. CASE k = ALT
  BY <1>1, <1>5 DEF WithModifier, Shifts, KbType
<1>6. CASE k \notin {LSFT, RSFT, CAPS, CTRL, ALT}
  BY <1>6 DEF WithModifier, Shifts, KbType
<1> QED BY <1>2, <1>3, <1>4, <1>5, <1>6

(* The driver takes a code, or the last one again: the states follow it.   *)
LEMMA CodeTaken ==
  ASSUME Types, Again,
         port' = (IF codes = <<>> THEN port ELSE Head(codes)),
         codes' = (IF codes = <<>> THEN <<>> ELSE Tail(codes)),
         kb' = WithModifier(kb, port'.key, ~port'.released)
  PROVE  /\ PressedAfter(codes', Shifts, kb'.shift) => PressedAfter(codes, Shifts, kb.shift)
         /\ PressedAfter(codes', {CTRL}, kb'.ctrl) => PressedAfter(codes, {CTRL}, kb.ctrl)
         /\ PressedAfter(codes', {ALT}, kb'.alt) => PressedAfter(codes, {ALT}, kb.alt)
         /\ kb' \in KbType /\ Again' /\ port' \in CodeRec /\ codes' \in Seq(CodeRec)
<1>1. codes \in Seq(CodeRec) /\ port \in CodeRec /\ kb \in KbType
  BY DEF Types, KbType
<1>2. port' \in CodeRec /\ codes' \in Seq(CodeRec)
  BY <1>1
<1>3. PICK c \in CodeRec, r \in BOOLEAN : c = port' /\ r = ~c.released
  BY <1>2 DEF CodeRec
<1>4. kb' = WithModifier(kb, c.key, r)
  BY <1>3
<1>5. /\ kb' \in KbType
      /\ kb'.shift = IF c.key \in Shifts THEN r ELSE kb.shift
      /\ kb'.ctrl = IF c.key \in {CTRL} THEN r ELSE kb.ctrl
      /\ kb'.alt = IF c.key \in {ALT} THEN r ELSE kb.alt
      /\ WithModifier(kb', c.key, r) = kb'
  BY <1>1, <1>4, ModifierSet
<1>6. Again'
  BY <1>3, <1>5 DEF Again
<1>7. CASE codes = <<>>
  <2>1. port' = port /\ codes' = codes
    BY <1>7
  <2>2. kb' = kb
    BY <2>1 DEF Again
  <2> QED BY <1>2, <1>5, <1>6, <2>1, <2>2
<1>8. CASE codes # <<>>
  <2>1. c = codes[1] /\ codes' = Tail(codes)
    BY <1>1, <1>3, <1>8
  <2>2. ASSUME NEW M, NEW x, NEW y, y = (IF c.key \in M THEN r ELSE x),
               PressedAfter(Tail(codes), M, y)
        PROVE  PressedAfter(codes, M, x)
    <3>1. (codes[1].key \in M => (y => ~codes[1].released)) /\ (codes[1].key \notin M => (y => x))
      BY <1>3, <2>1, <2>2
    <3> QED BY <1>1, <1>8, <2>2, <3>1, PressedTail
  <2>3. /\ PressedAfter(codes', Shifts, kb'.shift) => PressedAfter(codes, Shifts, kb.shift)
        /\ PressedAfter(codes', {CTRL}, kb'.ctrl) => PressedAfter(codes, {CTRL}, kb.ctrl)
        /\ PressedAfter(codes', {ALT}, kb'.alt) => PressedAfter(codes, {ALT}, kb.alt)
    BY <1>5, <2>1, <2>2
  <2> QED BY <1>2, <1>5, <1>6, <2>3
<1> QED BY <1>7, <1>8

-----------------------------------------------------------------------------
(* Requests and services.                                                  *)
LEMMA RaiseKeeps ==
  ASSUME NEW p \in PicType, NEW chip \in Chips, NEW line \in Lines
  PROVE  LET q == RaiseLine(p, chip, line)
         IN  /\ q \in PicType /\ q.mask = p.mask /\ q.isr = p.isr
             /\ p.irr[1] \subseteq q.irr[1]
             /\ chip = 1 => line \in q.irr[1]
  BY DEF PicType, RaiseLine, Chips

(* With the keyboard's line open on the first chip and no other, its       *)
(* interrupt is acknowledged, and only while none of it is in service.     *)
LEMMA KeyboardAcknowledged ==
  ASSUME NEW p \in PicType, p.mask[1] = Lines \ {1}, Requests1(p) # {}
  PROVE  LET a == Acknowledged(p)
         IN  /\ a.irq = IRQ33_KEYBOARD
             /\ a.pic \in PicType /\ a.pic.mask = p.mask
             /\ 1 \notin p.isr[1] /\ a.pic.isr[2] = p.isr[2]
             /\ a.pic.isr[1] = p.isr[1] \cup {1}
<1>1. 1 \in Lines /\ Cascade \in Lines /\ Cascade # 1 /\ 1 \in Chips /\ 2 \in Chips
  BY DEF Lines, Cascade, Chips
<1>2. p.irr[1] \subseteq Lines
  BY <1>1 DEF PicType
<1> DEFINE requests == p.irr[1] \cup (IF Requests2(p) = {} THEN {} ELSE {Cascade})
<1>3. Requests1(p) = {l \in requests \ (Lines \ {1}) : \A s \in p.isr[1] : l < s}
  BY DEF Requests1, Ready
<1>4. requests \subseteq Lines
  BY <1>1, <1>2
<1> HIDE DEF requests
<1>5. Requests1(p) = {1} /\ 1 \notin p.isr[1]
  BY <1>3, <1>4
<1>6. Highest({1}) = {1}
  BY DEF Highest
<1>7. (CHOOSE l \in Highest(Requests1(p)) : TRUE) = 1
  BY <1>5, <1>6
<1>8. Acknowledged(p) = [irq |-> PIC1_OFFSET + 1, pic |-> Serve(p, 1, 1)]
  BY <1>1, <1>7 DEF Acknowledged
<1>9. /\ Serve(p, 1, 1) \in PicType /\ Serve(p, 1, 1).mask = p.mask
      /\ Serve(p, 1, 1).isr[2] = p.isr[2] /\ Serve(p, 1, 1).isr[1] = p.isr[1] \cup {1}
  <2> DEFINE q == [p EXCEPT !.irr[1] = p.irr[1] \ {1}]
  <2>1. q \in PicType /\ q.mask = p.mask /\ q.isr = p.isr
    BY <1>1 DEF PicType
  <2>2. Serve(p, 1, 1) = [q EXCEPT !.isr[1] = q.isr[1] \cup {1}]
    BY <2>1 DEF Serve
  <2> HIDE DEF q
  <2> QED BY <1>1, <2>1, <2>2 DEF PicType
<1> QED BY <1>5, <1>8, <1>9 DEF IRQ33_KEYBOARD

(* Its EOI ends its service.                                               *)
LEMMA KeyboardEnded ==
  ASSUME NEW p \in PicType, p.isr[1] = {1}
  PROVE  LET q == PIC_send_EOI(p, IRQ33_KEYBOARD)
         IN  /\ q \in PicType /\ q.mask = p.mask /\ q.irr = p.irr
             /\ q.isr[1] = {} /\ q.isr[2] = p.isr[2]
<1>1. PIC_send_EOI(p, IRQ33_KEYBOARD) = EndOfInterrupt(p, 1)
  BY Numbers DEF PIC_send_EOI, PIC1_MAX_IRQ, PIC1_OFFSET
<1>2. Highest({1}) = {1}
  BY DEF Highest
<1>3. EndOfInterrupt(p, 1) = [p EXCEPT !.isr[1] = {}]
  BY <1>2 DEF EndOfInterrupt
<1> QED BY <1>1, <1>3 DEF PicType, Chips

-----------------------------------------------------------------------------
(* The stack. *)
LEMMA ServedByHasRead ==
  ASSUME StackInv
  PROVE  KeyboardServed <=> codes = <<>> \/ 1 \in pic.irr[1] \/ HasRead
  BY DEF StackInv, KeyboardServed, HasRead

(* The running context, with nothing to do, begins something. *)
LEMMA WorkBegins ==
  ASSUME StackInv, Top.todo = <<>>, NEW w, HasForm(w, 0), stack' = Doing(w)
  PROVE  /\ StackInv' /\ Len(stack') = Len(stack) /\ (HasRead => HasRead')
         /\ \A i \in 1..Len(stack) : Unended(stack'[i]) <=> Unended(stack[i])
<1>1. PICK n \in Nat : n = Len(stack) /\ n # 0 /\ n \in 1..n /\ stack[n] = Top
  BY DEF StackInv, Top, Depth
<1>2. w \in Seq(AllOps)
  BY DEF HasForm
<1>3. \A k \in 0..2 : HasForm(<<>>, k) => k = 0
  BY DEF HasForm
<1>4. ~Ending(<<>>)
  BY DEF Ending
<1>5. /\ StackInv' /\ Len(stack') = n
      /\ \A i \in 1..n : /\ Unended(stack'[i]) <=> Unended(stack[i])
                         /\ i # n => stack'[i] = stack[i]
  BY <1>1, <1>2, <1>3, <1>4, GoesOn
<1>6. ~Pending(stack[n], "read")
  BY <1>1 DEF Pending
<1> QED BY <1>1, <1>5, <1>6 DEF HasRead

(* An interrupt is entered. *)
LEMMA Entered ==
  ASSUME StackInv, NEW n \in {IRQ33_KEYBOARD, IRQ39_LPT1}, NEW w, stack' = Pushed(n, w),
         IF n = IRQ33_KEYBOARD THEN HasForm(w, 2) ELSE HasForm(w, 1)
  PROVE  /\ StackInv' /\ Len(stack') = Len(stack) + 1 /\ (HasRead => HasRead')
         /\ \A i \in 1..Len(stack) : stack'[i] = stack[i]
         /\ stack'[Len(stack) + 1] = [irq |-> n, todo |-> w]
<1> DEFINE c == [irq |-> n, todo |-> w]
<1>1. PICK m \in Nat : m = Len(stack) /\ m # 0
  BY DEF StackInv
<1>2. w \in Seq(AllOps)
  BY DEF HasForm
<1>3. c \in ContextRec /\ c.irq = n /\ c.todo = w
  BY <1>2 DEF ContextRec
<1>4. Context(c) /\ c.irq # Kernel
  BY <1>3, Numbers DEF Context
<1>5. stack' = Append(stack, c) /\ stack \in Seq(ContextRec)
  BY DEF Pushed, StackInv
<1> HIDE DEF c
<1>6. /\ stack' \in Seq(ContextRec) /\ Len(stack') = m + 1 /\ stack'[m + 1] = c
      /\ \A i \in 1..m : stack'[i] = stack[i]
  BY <1>1, <1>3, <1>5
<1>7. \A i \in 1..m : Context(stack[i]) /\ (stack[i].irq = Kernel <=> i = 1)
  BY <1>1 DEF StackInv
<1>8. StackInv'
  <2>1. ASSUME NEW i \in 1..(m + 1)
        PROVE  Context(stack'[i]) /\ (stack'[i].irq = Kernel <=> i = 1)
    <3>1. CASE i = m + 1
      BY <1>1, <1>4, <1>6, <3>1
    <3>2. CASE i # m + 1
      <4>1. i \in 1..m
        BY <3>2
      <4> QED BY <1>6, <1>7, <4>1
    <3> QED BY <3>1, <3>2
  <2> QED BY <1>1, <1>6, <2>1 DEF StackInv
<1>9. HasRead => HasRead'
  <2>1. \A i \in 1..m : i \in 1..(m + 1)
    OBVIOUS
  <2> QED BY <1>1, <1>6, <2>1 DEF HasRead
<1> QED BY <1>1, <1>6, <1>8, <1>9 DEF c

(* It returns: it had ended its interrupt, and read its code. *)
LEMMA Returned ==
  ASSUME StackInv, Top.todo # <<>>, Head(Top.todo).op = "iret",
         stack' = SubSeq(stack, 1, Depth - 1)
  PROVE  /\ StackInv' /\ Len(stack') = Len(stack) - 1 /\ (HasRead => HasRead')
         /\ \A i \in 1..Len(stack') : stack'[i] = stack[i]
         /\ ~Unended(stack[Len(stack)])
<1> DEFINE s == Top.todo
<1>1. PICK n \in Nat : n = Len(stack) /\ n # 0 /\ n \in 1..n /\ stack[n] = Top /\ Depth = n
  BY DEF StackInv, Top, Depth
<1>2. /\ stack \in Seq(ContextRec) /\ Context(Top) /\ (Top.irq = Kernel <=> n = 1)
      /\ Top \in ContextRec
      /\ \A i \in 1..n : Context(stack[i]) /\ (stack[i].irq = Kernel <=> i = 1)
  BY <1>1 DEF StackInv
<1>3. s \in Seq(AllOps)
  BY <1>1, <1>2 DEF ContextRec
<1>4. s[1].op = "iret"
  BY <1>3
<1>5. ASSUME NEW k \in 0..2, HasForm(s, k) PROVE k = 1
  BY <1>4, <1>5, FormTail
<1>6. ~HasForm(s, 0) /\ ~HasForm(s, 2)
  <2>1. 0 \in 0..2 /\ 2 \in 0..2 /\ 0 # 1 /\ 2 # 1
    OBVIOUS
  <2> QED BY <1>5, <2>1
<1>7. n # 1 /\ ~Unended(stack[n]) /\ HasForm(s, 1)
  BY <1>1, <1>2, <1>6, Numbers DEF Context, Unended, Ending
<1>8. PICK m \in Nat : m = n - 1 /\ m # 0
  BY <1>1, <1>7
<1>9. /\ stack' \in Seq(ContextRec) /\ Len(stack') = m
      /\ \A i \in 1..m : i \in 1..n /\ stack'[i] = stack[i]
  BY <1>1, <1>2, <1>8
<1>10. StackInv'
  BY <1>2, <1>8, <1>9 DEF StackInv
<1>11. ~Pending(stack[n], "read")
  <2>1. PICK l \in Nat : l = Len(s) /\ DOMAIN s = 1..l
    BY <1>3
  <2>2. \A i \in 1..(l - 1) : s[i].op \in Working
    BY <1>7, <2>1 DEF HasForm
  <2>3. "iret" \notin Working /\ "read" # "iret"
    BY DEF Working, IrqOps
  <2>4. l <= 1
    <3>1. SUFFICES ASSUME ~(l <= 1) PROVE FALSE
      OBVIOUS
    <3>2. 1 \in 1..(l - 1)
      BY <3>1
    <3> QED BY <1>4, <2>2, <2>3, <3>2
  <2>5. \A i \in 1..l : i = 1
    BY <2>4
  <2> QED BY <1>1, <1>4, <2>1, <2>3, <2>5 DEF Pending
<1>12. HasRead => HasRead'
  <2>1. ASSUME NEW i \in 1..n, Pending(stack[i], "read") PROVE i \in 1..m
    BY <1>8, <1>11, <2>1
  <2> QED BY <1>1, <1>9, <2>1 DEF HasRead
<1> QED BY <1>1, <1>7, <1>8, <1>9, <1>10, <1>12

(* It ends its interrupt: it was in service, and is not any more. *)
LEMMA Ended ==
  ASSUME StackInv, Top.todo # <<>>, Head(Top.todo).op = "EOI",
         stack' = Doing(Tail(Top.todo))
  PROVE  /\ StackInv' /\ Len(stack') = Len(stack) /\ (HasRead => HasRead')
         /\ \A i \in 1..Len(stack) : i # Len(stack) => stack'[i] = stack[i]
         /\ Top.irq = IRQ33_KEYBOARD
         /\ Unended(stack[Len(stack)]) /\ ~Unended(stack'[Len(stack)])
<1> DEFINE s == Top.todo
           t == Tail(s)
           d == [Top EXCEPT !.todo = t]
<1>1. PICK n \in Nat : n = Len(stack) /\ n # 0 /\ n \in 1..n /\ stack[n] = Top /\ Depth = n
  BY DEF StackInv, Top, Depth
<1>2. /\ stack \in Seq(ContextRec) /\ Context(Top) /\ Top \in ContextRec
      /\ \A i \in 1..n : Context(stack[i]) /\ (stack[i].irq = Kernel <=> i = 1)
  BY <1>1 DEF StackInv
<1>3. s \in Seq(AllOps)
  BY <1>2 DEF ContextRec
<1>4. s[1].op = "EOI"
  BY <1>3
<1>5. ASSUME NEW k \in 0..2, HasForm(s, k) PROVE k = 2 /\ HasForm(t, 1)
  BY <1>4, <1>5, FormTail
<1>6. ~HasForm(s, 0) /\ ~HasForm(s, 1)
  <2>1. 0 \in 0..2 /\ 1 \in 0..2 /\ 0 # 2 /\ 1 # 2
    OBVIOUS
  <2> QED BY <1>5, <2>1
<1>7. Top.irq = IRQ33_KEYBOARD /\ HasForm(s, 2)
  BY <1>2, <1>6 DEF Context, Ending
<1>8. HasForm(t, 1) /\ ~HasForm(t, 2)
  <2>1. 2 \in 0..2
    OBVIOUS
  <2>2. HasForm(t, 1)
    BY <1>5, <1>7, <2>1
  <2> QED BY <2>2, FormsDiffer
<1>9. PICK l \in Nat : l = Len(s) /\ DOMAIN s = 1..l /\ l >= 2 /\ s[l].op = "iret"
                       /\ \A i \in 1..(l - 2) : s[i].op \in Working
  BY <1>3, <1>7 DEF HasForm
<1>10. l = 2
  <2>1. "EOI" \notin Working
    BY DEF Working, IrqOps
  <2>2. SUFFICES ASSUME l # 2 PROVE FALSE
    OBVIOUS
  <2>3. l >= 2
    BY <1>9
  <2>4. 1 \in 1..(l - 2)
    BY <2>2, <2>3
  <2> QED BY <1>4, <1>9, <2>1, <2>4
<1>11. t \in Seq(AllOps) /\ Len(t) = 1
  <2>1. Len(s) = 2 /\ s # <<>>
    BY <1>9, <1>10
  <2> HIDE DEF s
  <2> QED BY <1>3, <2>1
<1> HIDE DEF t
<1>12. d \in ContextRec /\ d.irq = IRQ33_KEYBOARD /\ d.todo = t
  BY <1>2, <1>7, <1>11 DEF ContextRec
<1>13. Context(d) /\ ~Unended(d) /\ Unended(Top)
  BY <1>7, <1>8, <1>11, <1>12 DEF Context, Unended, Ending
<1>14. stack' = [stack EXCEPT ![n] = d]
  BY <1>1 DEF Doing, t
<1> HIDE DEF d
<1>15. /\ stack' \in Seq(ContextRec) /\ Len(stack') = n /\ stack'[n] = d
       /\ \A i \in 1..n : i # n => stack'[i] = stack[i]
  BY <1>1, <1>2, <1>12, <1>14
<1>16. StackInv'
  <2>1. (stack'[n].irq = Kernel <=> n = 1) /\ Context(stack'[n])
    BY <1>1, <1>2, <1>7, <1>12, <1>13, <1>15
  <2>2. \A i \in 1..n : Context(stack'[i]) /\ (stack'[i].irq = Kernel <=> i = 1)
    BY <1>2, <1>15, <2>1
  <2> QED BY <1>1, <1>15, <2>2 DEF StackInv
<1>17. ~Pending(stack[n], "read")
  <2>1. \A i \in 1..2 : i = 1 \/ i = 2
    OBVIOUS
  <2> QED BY <1>1, <1>4, <1>9, <1>10, <2>1 DEF Pending
<1>18. HasRead => HasRead'
  BY <1>1, <1>15, <1>17 DEF HasRead
<1> QED BY <1>1, <1>7, <1>13, <1>15, <1>16, <1>18

-----------------------------------------------------------------------------
(* The invariant holds at first, and every action preserves it.  The parts *)
(* that an action leaves as they were:                                     *)
LEMMA KeysSame ==
  ASSUME KeysInv, UNCHANGED <<kb, down, codes, port>>
  PROVE  KeysInv'
  BY DEF KeysInv, Again, Held

LEMMA ServedSame ==
  ASSUME StackInv, StackInv', KeyboardServed, codes' = codes,
         1 \in pic.irr[1] => 1 \in pic'.irr[1], HasRead => HasRead'
  PROVE  KeyboardServed'
<1>1. codes = <<>> \/ 1 \in pic.irr[1] \/ HasRead
  BY ServedByHasRead
<1>2. codes' = <<>> \/ 1 \in pic'.irr[1] \/ HasRead'
  BY <1>1
<1> QED BY <1>2 DEF StackInv, KeyboardServed, HasRead

LEMMA ServiceSame ==
  ASSUME ServiceInv, pic'.isr = pic.isr, Len(stack') = Len(stack),
         \A i \in 1..Len(stack) : Unended(stack'[i]) <=> Unended(stack[i])
  PROVE  ServiceInv'
  BY DEF ServiceInv

LEMMA IdleBeforeRun ==
  ASSUME IInv, stage # "run"
  PROVE  /\ Len(stack) = 1 /\ Top.todo = <<>> /\ ~irq.cpu
         /\ ~HasRead /\ 1 \notin pic.isr[1]
         /\ \A i \in 1..Len(stack) : ~Unended(stack[i])
<1>1. stack = <<[irq |-> Kernel, todo |-> <<>>]>> /\ ~irq.cpu
  BY DEF IInv, BootInv
<1>2. Len(stack) = 1 /\ stack[1].irq = Kernel /\ stack[1].todo = <<>> /\ Top.todo = <<>>
  BY <1>1 DEF Top, Depth
<1>3. \A i \in 1..1 : ~Unended(stack[i])
  BY <1>2, Numbers DEF Unended
<1>4. ~HasRead
  BY <1>2 DEF HasRead, Pending
<1> QED BY <1>1, <1>2, <1>3, <1>4 DEF IInv, ServiceInv

LEMMA InitIInv ==
  ASSUME Init
  PROVE  IInv
<1>1. /\ pic.mask \in [Chips -> BootMasks] /\ pic.irr = [c \in Chips |-> {}]
      /\ pic.isr = [c \in Chips |-> {}] /\ pic \in PicType
  BY DevicesAssumption DEF Init, PicType
<1>2. pic.isr[1] = {} /\ pic.isr[2] = {}
  BY <1>1 DEF Chips
<1>3. Types
  <2>1. LastAnswer \in CodeRec
    BY DEF LastAnswer, Code, CodeRec, AllKeys
  <2> QED BY <1>1, <2>1 DEF Types, Init, Released, Stages
<1>4. BootInv
  BY DEF Init, BootInv, Booted
<1> DEFINE c == [irq |-> Kernel, todo |-> <<>>]
<1>5. Context(c) /\ c.irq = Kernel /\ c \in ContextRec /\ ~Unended(c)
  BY WorkOf, Numbers DEF Context, ContextRec, Unended
<1> HIDE DEF c
<1>6. stack \in Seq(ContextRec) /\ Len(stack) = 1 /\ stack[1] = c
  BY <1>5 DEF Init, c
<1>7. StackInv /\ ServiceInv
  BY <1>2, <1>5, <1>6 DEF StackInv, ServiceInv
<1>8. KeyboardServed
  BY DEF Init, KeyboardServed
<1>9. KeysInv
  <2>1. \A K : ~PressedAfter(<<>>, K, FALSE)
    BY DEF PressedAfter
  <2>2. LastAnswer.key = Digit
    BY DEF LastAnswer, Code
  <2>3. Again
    BY <2>2 DEF Again, Init, WithModifier, Digit, LSFT, RSFT, CAPS, CTRL, ALT
  <2> QED BY <2>1, <2>3 DEF Init, KeysInv, Released
<1> QED BY <1>3, <1>4, <1>7, <1>8, <1>9 DEF IInv

(* The calls of system_initialization(), up to that which enables          *)
(* interrupts (kernel_main.c:247-270).                                     *)
LEMMA InitStep ==
  ASSUME IInv, UNCHANGED <<irq, stack, kb, down, codes, port>>,
         stage # "run", stage' \in Stages \ {"run"}, ~Booted,
         pic' \in PicType, pic'.isr[1] = {}, pic'.isr[2] = {},
         handlers' \subseteq {IRQ32_TIMER, IRQ33_KEYBOARD, IRQ36_COM1},
         Booted' => IRQ33_KEYBOARD \in handlers',
         stage' = "KB_init" => pic'.mask[1] = Lines,
         Booted' => pic'.mask[1] = Lines \ {1}
  PROVE  IInv'
<1>1. Types' /\ BootInv' /\ KeyboardServed' /\ StackInv'
  <2>1. codes = <<>>
    BY DEF IInv, BootInv
  <2> QED BY <2>1 DEF IInv, Types, BootInv, KeyboardServed, StackInv, ContextRec
<1>2. ServiceInv'
  BY IdleBeforeRun DEF ServiceInv, Unended
<1>3. KeysInv'
  BY KeysSame DEF IInv
<1> QED BY <1>1, <1>2, <1>3 DEF IInv

LEMMA BootKeeps ==
  ASSUME IInv, SER_init \/ ISR_init \/ KB_init
               \/ \E at \in {"SER_init", "ISR_init", "KB_init"} : Fail(at)
  PROVE  IInv'
<1>1. /\ pic \in PicType /\ pic.isr[2] = {}
      /\ handlers \subseteq {IRQ32_TIMER, IRQ33_KEYBOARD, IRQ36_COM1}
  BY DEF IInv, Types, ServiceInv, BootInv
<1>2. ASSUME stage # "run" PROVE pic.isr[1] = {}
  BY <1>2, IdleBeforeRun DEF IInv, ServiceInv
<1>3. 32 \in 32..47 /\ 33 \in 32..47 /\ 36 \in 32..47
  OBVIOUS
<1>4. CASE SER_init
  <2>1. /\ pic' \in PicType /\ pic'.isr = pic.isr
    <3>1. pic' = PIC_clear_mask(pic, 36)
      BY <1>4, Numbers DEF SER_init
    <3>2. PIC_clear_mask(pic, 36) =
            [mask |-> [pic.mask EXCEPT ![1] = pic.mask[1] \ ({36 - 32} \cap Lines)],
             irr |-> pic.irr, isr |-> pic.isr]
      BY <1>1, <1>3, ClearMaskOfFirst
    <3> QED BY <1>1, <3>1, <3>2 DEF PicType, Chips
  <2> QED BY <1>1, <1>2, <1>4, <2>1, InitStep DEF SER_init, Stages, Booted
<1>5. CASE ISR_init
  <2> DEFINE i == PIC_init(pic)
  <2>1. /\ i = [mask |-> [pic.mask EXCEPT ![1] = Lines],
                irr |-> [c \in Chips |-> {}], isr |-> [c \in Chips |-> {}]]
    BY <1>1, InitMasksFirst
  <2>2. i \in PicType /\ i.mask[1] = Lines /\ i.isr[1] = {} /\ i.isr[2] = {}
    BY <1>1, <2>1 DEF PicType, Chips
  <2> HIDE DEF i
  <2>3. PIC_set_mask(i, 32) =
          [mask |-> [i.mask EXCEPT ![1] = i.mask[1] \cup ({32 - 32} \cap Lines)],
           irr |-> i.irr, isr |-> i.isr]
    BY <1>3, <2>2, SetMaskOfFirst
  <2>4. pic' = PIC_set_mask(i, 32)
    BY <1>5, Numbers DEF ISR_init, i
  <2>5. /\ pic' \in PicType /\ pic'.isr[1] = {} /\ pic'.isr[2] = {}
        /\ pic'.mask[1] = Lines
    BY <2>2, <2>3, <2>4 DEF PicType, Chips
  <2> QED BY <1>1, <1>5, <2>5, InitStep DEF ISR_init, Stages, Booted
<1>6. CASE KB_init
  <2>1. pic.mask[1] = Lines
    BY <1>6 DEF KB_init, IInv, BootInv
  <2>2. /\ pic' \in PicType /\ pic'.isr = pic.isr /\ pic'.mask[1] = Lines \ {1}
    <3>1. PICK p \in {pic, RaiseLine(pic, 1, 1)} : pic' = PIC_clear_mask(p, 33)
      BY <1>6, Numbers DEF KB_init
    <3>2. p \in PicType /\ p.mask = pic.mask /\ p.isr = pic.isr
      <4>1. 1 \in Chips /\ 1 \in Lines
        BY DEF Chips, Lines
      <4> QED BY <1>1, <3>1, <4>1, RaiseKeeps
    <3>3. PIC_clear_mask(p, 33) =
            [mask |-> [p.mask EXCEPT ![1] = p.mask[1] \ ({33 - 32} \cap Lines)],
             irr |-> p.irr, isr |-> p.isr]
      BY <1>3, <3>2, ClearMaskOfFirst
    <3>4. {33 - 32} \cap Lines = {1}
      BY DEF Lines
    <3> QED BY <2>1, <3>1, <3>2, <3>3, <3>4 DEF PicType, Chips
  <2> QED BY <1>1, <1>2, <1>6, <2>2, InitStep DEF KB_init, Stages, Booted
<1>7. CASE \E at \in {"SER_init", "ISR_init", "KB_init"} : Fail(at)
  <2>1. stage \in {"SER_init", "ISR_init", "KB_init"} /\ stage' = "halted"
        /\ UNCHANGED <<pic, irq, handlers, stack, kb, down, codes, port>>
    BY <1>7 DEF Fail
  <2> QED BY <1>1, <1>2, <2>1, InitStep DEF Stages, Booted
<1> QED BY <1>4, <1>5, <1>6, <1>7

(* What runs, or is interrupted, leaves the handlers and the masks.        *)
LEMMA RunFrame ==
  ASSUME Types, BootInv, Booted, stage' = "run", handlers' = handlers, pic' \in PicType,
         pic'.mask = pic.mask,
         irq' \in [prev : BOOLEAN, curr : BOOLEAN, cpu : BOOLEAN],
         kb' \in [shift : BOOLEAN, caps : BOOLEAN, ctrl : BOOLEAN, alt : BOOLEAN],
         down' = down, codes' \in Seq(CodeRec), port' \in CodeRec
  PROVE  Types' /\ BootInv'
  BY DEF Types, BootInv, Booted, Stages, CodeRec

LEMMA EnableInterruptsKeeps ==
  ASSUME IInv, EnableInterrupts
  PROVE  IInv'
<1>1. /\ Booted /\ stage # "run" /\ stage' = "run" /\ stack' = Doing(IRQ_enable \o printk)
      /\ UNCHANGED <<pic, irq, handlers, kb, down, codes, port>>
  BY DEF EnableInterrupts, Booted
<1>2. HasForm(IRQ_enable \o printk, 0)
  BY WorkOf, WorkOfPrinting, FormConcat
<1>3. /\ StackInv' /\ Len(stack') = Len(stack) /\ (HasRead => HasRead')
      /\ \A i \in 1..Len(stack) : Unended(stack'[i]) <=> Unended(stack[i])
  <2>1. Top.todo = <<>> /\ StackInv
    BY <1>1, IdleBeforeRun DEF IInv
  <2> QED BY <1>1, <1>2, <2>1, WorkBegins
<1>4. Types' /\ BootInv'
  BY <1>1, RunFrame DEF IInv, Types
<1> QED BY <1>1, <1>3, <1>4, ServiceSame, ServedSame, KeysSame DEF IInv

LEMMA MessageKeeps ==
  ASSUME IInv, Message
  PROVE  IInv'
<1>1. /\ Booted /\ stage' = "run" /\ Top.todo = <<>> /\ stack' = Doing(printk)
      /\ UNCHANGED <<pic, irq, handlers, kb, down, codes, port>>
  BY DEF Message, Booted
<1>2. /\ StackInv' /\ Len(stack') = Len(stack) /\ (HasRead => HasRead')
      /\ \A i \in 1..Len(stack) : Unended(stack'[i]) <=> Unended(stack[i])
  BY <1>1, WorkOfPrinting, WorkBegins DEF IInv
<1>3. Types' /\ BootInv'
  BY <1>1, RunFrame DEF IInv, Types
<1> QED BY <1>1, <1>2, <1>3, ServiceSame, ServedSame, KeysSame DEF IInv

(* The operations of IRQ_enable() and the like (irq_handler.c:264-295).    *)
LEMMA IrqTypes ==
  ASSUME NEW m \in [prev : BOOLEAN, curr : BOOLEAN, cpu : BOOLEAN], NEW o, o.op \in IrqOps
  PROVE  /\ DoIrq(m, o) \in [prev : BOOLEAN, curr : BOOLEAN, cpu : BOOLEAN]
         /\ HasForm(IrqCalls(m, o), 0)
<1>1. DoIrq(m, o) \in [prev : BOOLEAN, curr : BOOLEAN, cpu : BOOLEAN]
  BY DEF DoIrq, IrqOps
<1>2. IrqCalls(m, o) \in {IRQ_enable, <<>>}
  BY DEF IrqCalls
<1> QED BY <1>1, <1>2, WorkOf

LEMMA ChangeStatusKeeps ==
  ASSUME IInv, ChangeStatus
  PROVE  IInv'
<1> DEFINE o == Head(Top.todo)
<1>1. /\ Top.todo # <<>> /\ o.op \in IrqOps /\ irq' = DoIrq(irq, o)
      /\ stack' = Doing(IrqCalls(irq, o) \o Tail(Top.todo))
      /\ UNCHANGED <<pic, handlers, stage, kb, down, codes, port>>
  BY DEF ChangeStatus, Next1
<1>2. o.op \in Working /\ o.op # "read"
  BY <1>1 DEF Working, IrqOps
<1>3. irq \in [prev : BOOLEAN, curr : BOOLEAN, cpu : BOOLEAN]
  BY DEF IInv, Types
<1>4. /\ irq' \in [prev : BOOLEAN, curr : BOOLEAN, cpu : BOOLEAN]
      /\ HasForm(IrqCalls(irq, o), 0)
  BY <1>1, <1>3, IrqTypes
<1>5. stage = "run" /\ Booted
  BY <1>1, WorkMeansRun DEF IInv, Booted
<1>6. /\ StackInv' /\ Len(stack') = Len(stack) /\ (HasRead => HasRead')
      /\ \A i \in 1..Len(stack) : Unended(stack'[i]) <=> Unended(stack[i])
  <2> DEFINE u == IrqCalls(irq, o)
  <2>1. HasForm(u, 0) /\ stack' = Doing(u \o Tail(Top.todo))
    BY <1>1, <1>4
  <2> HIDE DEF u
  <2> QED BY <1>1, <1>2, <2>1, OpDone DEF IInv
<1>7. Types' /\ BootInv'
  BY <1>1, <1>4, <1>5, RunFrame DEF IInv, Types
<1> QED BY <1>1, <1>6, <1>7, ServiceSame, ServedSame, KeysSame DEF IInv

(* hw_write() is called or not. *)
LEMMA TransmitKeeps ==
  ASSUME IInv, Transmit
  PROVE  IInv'
<1>1. PICK name \in {"first?", "iir"} :
        /\ Next1(name)
        /\ \E ops \in Calls(name) : stack' = Doing(ops \o Tail(Top.todo))
  BY DEF Transmit
<1>2. /\ Top.todo # <<>> /\ Head(Top.todo).op = name
      /\ UNCHANGED <<pic, irq, handlers, stage, kb, down, codes, port>>
  BY <1>1 DEF Transmit, Next1
<1>3. PICK u \in Calls(name) : stack' = Doing(u \o Tail(Top.todo))
  BY <1>1
<1>4. HasForm(u, 0)
  BY WorkOf, WorkOfPrinting DEF Calls
<1>5. Head(Top.todo).op \in Working /\ Head(Top.todo).op # "read"
  BY <1>1, <1>2 DEF Working
<1>6. stage = "run" /\ Booted
  BY <1>2, WorkMeansRun DEF IInv, Booted
<1>7. /\ StackInv' /\ Len(stack') = Len(stack) /\ (HasRead => HasRead')
      /\ \A i \in 1..Len(stack) : Unended(stack'[i]) <=> Unended(stack[i])
  BY <1>2, <1>3, <1>4, <1>5, OpDone DEF IInv
<1>8. Types' /\ BootInv'
  BY <1>2, <1>6, RunFrame DEF IInv, Types
<1> QED BY <1>2, <1>7, <1>8, ServiceSame, ServedSame, KeysSame DEF IInv

(* ps2_keyboard_irq_handler() takes a code: the next, if any, raises the    *)
(* line (ps2_keyboard_driver.c:270-306).                                    *)
LEMMA ReadKeyKeeps ==
  ASSUME IInv, ReadKey
  PROVE  IInv'
<1> DEFINE got == process_scan_code(kb, port')
           shown == CASE got.key = NO_CHAR -> <<>>
                      [] got.key = Warning -> printk
                      [] OTHER             -> VGA_display_char
<1>1. /\ Top.todo # <<>> /\ Head(Top.todo).op = "read"
      /\ port' = (IF codes = <<>> THEN port ELSE Head(codes))
      /\ kb' = got.kb /\ stack' = Doing(shown \o Tail(Top.todo))
      /\ codes' = (IF codes = <<>> THEN <<>> ELSE Tail(codes))
      /\ pic' = IF codes' = <<>> THEN pic ELSE RaiseLine(pic, 1, 1)
      /\ UNCHANGED <<irq, handlers, stage, down>>
  BY DEF ReadKey, Next1
<1>2. HasForm(shown, 0)
  BY WorkOf, WorkOfPrinting
<1>3. Head(Top.todo).op \in Working
  BY <1>1 DEF Working
<1>4. stage = "run" /\ Booted
  BY <1>1, WorkMeansRun DEF IInv, Booted
<1>5. /\ StackInv' /\ Len(stack') = Len(stack)
      /\ \A i \in 1..Len(stack) : Unended(stack'[i]) <=> Unended(stack[i])
  <2>1. StackInv /\ stack' = Doing(shown \o Tail(Top.todo))
    BY <1>1 DEF IInv
  <2> HIDE DEF shown
  <2> QED BY <1>1, <1>2, <1>3, <2>1, OpDone
<1>6. /\ PressedAfter(codes', Shifts, kb'.shift) => PressedAfter(codes, Shifts, kb.shift)
      /\ PressedAfter(codes', {CTRL}, kb'.ctrl) => PressedAfter(codes, {CTRL}, kb.ctrl)
      /\ PressedAfter(codes', {ALT}, kb'.alt) => PressedAfter(codes, {ALT}, kb.alt)
      /\ kb' \in KbType /\ Again' /\ port' \in CodeRec /\ codes' \in Seq(CodeRec)
  <2>1. kb' = WithModifier(kb, port'.key, ~port'.released)
    BY <1>1 DEF process_scan_code
  <2>2. Types /\ Again
    BY DEF IInv, KeysInv
  <2> QED BY <1>1, <2>1, <2>2, CodeTaken
<1>7. KeysInv'
  <2>1. \A K : Held(K)' <=> Held(K)
    BY <1>1 DEF Held
  <2> QED BY <1>6, <2>1 DEF KeysInv, IInv
<1>8. /\ pic' \in PicType /\ pic'.mask = pic.mask /\ pic'.isr = pic.isr
      /\ codes' = <<>> \/ 1 \in pic'.irr[1]
  <2>1. pic \in PicType /\ 1 \in Chips /\ 1 \in Lines
    BY DEF IInv, Types, Chips, Lines
  <2> DEFINE q == RaiseLine(pic, 1, 1)
  <2>2. q \in PicType /\ q.mask = pic.mask /\ q.isr = pic.isr /\ 1 \in q.irr[1]
    BY <2>1, RaiseKeeps
  <2> HIDE DEF q
  <2>3. pic' = IF codes' = <<>> THEN pic ELSE q
    BY <1>1 DEF q
  <2> QED BY <2>1, <2>2, <2>3
<1>9. KeyboardServed'
  BY <1>8 DEF KeyboardServed
<1>10. Types' /\ BootInv'
  BY <1>1, <1>4, <1>6, <1>8, RunFrame DEF IInv, Types, KbType
<1> QED BY <1>5, <1>7, <1>8, <1>9, <1>10, ServiceSame DEF IInv

(* The EOI of the keyboard's handler (irq_handler.c:162-196,               *)
(* pic.c:221-238).                                                         *)
LEMMA SendEOIKeeps ==
  ASSUME IInv, SendEOI
  PROVE  IInv'
<1> DEFINE n == Len(stack)
<1>1. /\ Top.todo # <<>> /\ Head(Top.todo).op = "EOI"
      /\ pic' = PIC_send_EOI(pic, Top.irq) /\ stack' = Doing(Tail(Top.todo))
      /\ UNCHANGED <<irq, handlers, stage, kb, down, codes, port>>
  BY DEF SendEOI, Next1
<1>2. stage = "run" /\ Booted
  BY <1>1, WorkMeansRun DEF IInv, Booted
<1>3. /\ StackInv' /\ Len(stack') = n /\ (HasRead => HasRead')
      /\ \A i \in 1..n : i # n => stack'[i] = stack[i]
      /\ Top.irq = IRQ33_KEYBOARD
      /\ Unended(stack[n]) /\ ~Unended(stack'[n])
  BY <1>1, Ended DEF IInv
<1>4. n \in 1..n /\ pic \in PicType
  BY DEF IInv, StackInv, Types
<1>5. pic.isr[1] = {1} /\ pic.isr[2] = {}
  BY <1>3, <1>4 DEF IInv, ServiceInv
<1>6. /\ pic' \in PicType /\ pic'.mask = pic.mask /\ pic'.irr = pic.irr
      /\ pic'.isr[1] = {} /\ pic'.isr[2] = {}
  BY <1>1, <1>3, <1>4, <1>5, KeyboardEnded
<1>7. \A i \in 1..n : ~Unended(stack'[i])
  <2>1. \A i \in 1..n : i # n => ~Unended(stack[i])
    BY <1>3, <1>4 DEF IInv, ServiceInv
  <2> QED BY <1>3, <2>1 DEF Unended
<1>8. ServiceInv'
  BY <1>3, <1>6, <1>7 DEF ServiceInv
<1>9. Types' /\ BootInv'
  BY <1>1, <1>2, <1>6, RunFrame DEF IInv, Types
<1> QED BY <1>1, <1>3, <1>6, <1>8, <1>9, ServedSame, KeysSame DEF IInv

LEMMA ReturnKeeps ==
  ASSUME IInv, Return
  PROVE  IInv'
<1> DEFINE n == Len(stack)
<1>1. /\ Top.todo # <<>> /\ Head(Top.todo).op = "iret"
      /\ irq' = [irq EXCEPT !.cpu = TRUE] /\ stack' = SubSeq(stack, 1, Depth - 1)
      /\ UNCHANGED <<pic, handlers, stage, kb, down, codes, port>>
  BY DEF Return, Next1
<1>2. stage = "run" /\ Booted
  BY <1>1, WorkMeansRun DEF IInv, Booted
<1>3. /\ StackInv' /\ Len(stack') = n - 1 /\ (HasRead => HasRead')
      /\ \A i \in 1..Len(stack') : stack'[i] = stack[i]
      /\ ~Unended(stack[n])
  BY <1>1, Returned DEF IInv
<1>4. n \in Nat
  BY DEF IInv, StackInv
<1>5. ServiceInv'
  <2>1. \A i \in 1..(n - 1) : i \in 1..n /\ (Unended(stack'[i]) <=> Unended(stack[i]))
    BY <1>3, <1>4
  <2>2. \A i \in 1..n : Unended(stack[i]) => i \in 1..(n - 1)
    BY <1>3, <1>4
  <2>3. (\E i \in 1..(n - 1) : Unended(stack'[i])) <=> (\E i \in 1..n : Unended(stack[i]))
    BY <2>1, <2>2
  <2> QED BY <1>1, <1>3, <2>1, <2>3 DEF IInv, ServiceInv
<1>6. Types' /\ BootInv'
  <2>1. irq' \in [prev : BOOLEAN, curr : BOOLEAN, cpu : BOOLEAN]
    BY <1>1 DEF IInv, Types
  <2> QED BY <1>1, <1>2, <2>1, RunFrame DEF IInv, Types
<1> QED BY <1>1, <1>3, <1>5, <1>6, ServedSame, KeysSame DEF IInv

(* An interrupt is taken only while the system runs. *)
LEMMA TakenWhileRunning ==
  ASSUME IInv, irq.cpu
  PROVE  /\ stage = "run" /\ Booted
         /\ [irq EXCEPT !.cpu = FALSE] \in [prev : BOOLEAN, curr : BOOLEAN, cpu : BOOLEAN]
         /\ pic \in PicType /\ pic.mask[1] = Lines \ {1}
  BY DEF IInv, BootInv, Booted, Types

(* The keyboard interrupts: its line goes in service, its handler has yet  *)
(* to end it (irq_handler.c:162-196).                                      *)
LEMMA DeliverKeeps ==
  ASSUME IInv, Deliver
  PROVE  IInv'
<1> DEFINE n == Len(stack)
           a == Acknowledged(pic)
           w == interrupt_handler(IRQ33_KEYBOARD)
<1>1. /\ Requests1(pic) # {} /\ irq.cpu /\ irq' = [irq EXCEPT !.cpu = FALSE]
      /\ pic' = a.pic /\ stack' = Pushed(a.irq, interrupt_handler(a.irq))
      /\ UNCHANGED <<handlers, stage, kb, down, codes, port>>
  BY DEF Deliver, Interrupt
<1>2. /\ stage = "run" /\ Booted
      /\ irq' \in [prev : BOOLEAN, curr : BOOLEAN, cpu : BOOLEAN]
      /\ pic \in PicType /\ pic.mask[1] = Lines \ {1}
  BY <1>1, TakenWhileRunning
<1>3. /\ a.irq = IRQ33_KEYBOARD
      /\ a.pic \in PicType /\ a.pic.mask = pic.mask
      /\ 1 \notin pic.isr[1] /\ a.pic.isr[2] = pic.isr[2]
      /\ a.pic.isr[1] = pic.isr[1] \cup {1}
  BY <1>1, <1>2, KeyboardAcknowledged
<1>4. HasForm(w, 2) /\ w[1].op = "read"
  BY <1>2, HandlerForms DEF IInv
<1> HIDE DEF a, w
<1>5. stack' = Pushed(IRQ33_KEYBOARD, w)
  BY <1>1, <1>3 DEF w
<1>6. /\ StackInv' /\ Len(stack') = n + 1
      /\ \A i \in 1..n : stack'[i] = stack[i]
      /\ stack'[n + 1] = [irq |-> IRQ33_KEYBOARD, todo |-> w]
  BY <1>4, <1>5, Entered DEF IInv
<1>7. n \in Nat /\ n + 1 \in 1..(n + 1)
  BY DEF IInv, StackInv
<1>8. Unended(stack'[n + 1]) /\ Pending(stack'[n + 1], "read")
  <2>1. 1 \in DOMAIN w
    BY <1>4 DEF HasForm
  <2> QED BY <1>4, <1>6, <2>1 DEF Unended, Pending
<1>9. \A i \in 1..(n + 1) : Unended(stack'[i]) <=> i = n + 1
  <2>1. \A i \in 1..n : ~Unended(stack[i])
    BY <1>3 DEF IInv, ServiceInv
  <2>2. \A i \in 1..(n + 1) : i # n + 1 => i \in 1..n
    BY <1>7
  <2>3. \A i \in 1..n : i # n + 1 /\ ~Unended(stack'[i])
    BY <1>6, <1>7, <2>1
  <2> QED BY <1>8, <2>2, <2>3
<1>10. ServiceInv'
  <2>1. pic'.isr[2] = {} /\ pic'.isr[1] = {1}
    BY <1>1, <1>3 DEF IInv, ServiceInv
  <2> QED BY <1>6, <1>7, <1>9, <2>1 DEF ServiceInv
<1>11. KeyboardServed'
  <2>1. n + 1 \in DOMAIN stack'
    BY <1>6, <1>7 DEF StackInv
  <2> QED BY <1>8, <2>1 DEF KeyboardServed
<1>12. Types' /\ BootInv'
  BY <1>1, <1>2, <1>3, RunFrame DEF IInv, Types
<1> QED BY <1>1, <1>6, <1>10, <1>11, <1>12, KeysSame DEF IInv

LEMMA SpuriousKeeps ==
  ASSUME IInv, Spurious
  PROVE  IInv'
<1> DEFINE n == Len(stack)
           w == interrupt_handler(IRQ39_LPT1)
<1>1. /\ irq.cpu /\ irq' = [irq EXCEPT !.cpu = FALSE]
      /\ pic' = pic /\ stack' = Pushed(IRQ39_LPT1, w)
      /\ UNCHANGED <<handlers, stage, kb, down, codes, port>>
  BY DEF Spurious, Interrupt
<1>2. /\ stage = "run" /\ Booted
      /\ irq' \in [prev : BOOLEAN, curr : BOOLEAN, cpu : BOOLEAN]
      /\ pic \in PicType
  BY <1>1, TakenWhileRunning
<1>3. HasForm(w, 1)
  BY HandlerForms DEF IInv
<1> HIDE DEF w
<1>4. /\ StackInv' /\ Len(stack') = n + 1 /\ (HasRead => HasRead')
      /\ \A i \in 1..n : stack'[i] = stack[i]
      /\ stack'[n + 1] = [irq |-> IRQ39_LPT1, todo |-> w]
  BY <1>1, <1>3, Entered, Numbers DEF IInv
<1>5. n \in Nat /\ ~Unended(stack'[n + 1])
  BY <1>4, Numbers DEF IInv, StackInv, Unended
<1>6. ServiceInv'
  <2>1. \A i \in 1..n : i \in 1..(n + 1) /\ (Unended(stack'[i]) <=> Unended(stack[i]))
    BY <1>4, <1>5
  <2>2. \A i \in 1..(n + 1) : Unended(stack'[i]) => i \in 1..n
    BY <1>5
  <2>3. (\E i \in 1..(n + 1) : Unended(stack'[i])) <=> (\E i \in 1..n : Unended(stack[i]))
    BY <2>1, <2>2
  <2> QED BY <1>1, <1>4, <2>1, <2>2, <2>3 DEF IInv, ServiceInv
<1>7. Types' /\ BootInv'
  BY <1>1, <1>2, RunFrame DEF IInv, Types
<1> QED BY <1>1, <1>4, <1>6, <1>7, ServedSame, KeysSame DEF IInv

(* The keyboard sends codes: the first to wait raises the line. *)
LEMMA SendKeeps ==
  ASSUME IInv, NEW v \in Seq(CodeRec), Send(v),
         down' \subseteq KeysUsed \cup {FakeShift},
         \A K \in SUBSET Modifiers :
           \A x : (PressedAfter(codes, K, x) => Held(K)) => (PressedAfter(codes', K, x) => Held(K)')
  PROVE  IInv'
<1> DEFINE q == RaiseLine(pic, 1, 1)
<1>1. /\ Booted /\ codes' = codes \o v
      /\ pic' = (IF codes = <<>> THEN q ELSE pic)
      /\ UNCHANGED <<irq, handlers, stage, stack, kb, port>>
  BY DEF Send, Booted
<1>2. codes \in Seq(CodeRec) /\ pic \in PicType /\ 1 \in Chips /\ 1 \in Lines
  BY DEF IInv, Types, Chips, Lines
<1>3. q \in PicType /\ q.mask = pic.mask /\ q.isr = pic.isr /\ 1 \in q.irr[1]
  BY <1>2, RaiseKeeps
<1> HIDE DEF q
<1>4. /\ pic' \in PicType /\ pic'.mask = pic.mask /\ pic'.isr = pic.isr
      /\ codes = <<>> => 1 \in pic'.irr[1]
      /\ codes # <<>> => pic' = pic
  BY <1>1, <1>2, <1>3
<1>5. codes' \in Seq(CodeRec)
  BY <1>1, <1>2
<1>6. KeyboardServed'
  BY <1>1, <1>4 DEF IInv, KeyboardServed
<1>7. KeysInv'
  <2>1. /\ Shifts \in SUBSET Modifiers
        /\ {CTRL} \in SUBSET Modifiers /\ {ALT} \in SUBSET Modifiers
    BY DEF Shifts, Modifiers
  <2>2. Again'
    BY <1>1 DEF IInv, KeysInv, Again
  <2>3. /\ PressedAfter(codes', Shifts, kb.shift) => Held(Shifts)'
        /\ PressedAfter(codes', {CTRL}, kb.ctrl) => Held({CTRL})'
        /\ PressedAfter(codes', {ALT}, kb.alt) => Held({ALT})'
    BY <2>1 DEF IInv, KeysInv
  <2> QED BY <1>1, <2>2, <2>3 DEF KeysInv
<1>8. Types' /\ BootInv' /\ StackInv' /\ ServiceInv'
  BY <1>1, <1>4, <1>5 DEF IInv, Types, BootInv, Booted, StackInv, ServiceInv,
    Stages, ContextRec, CodeRec
<1> QED BY <1>6, <1>7, <1>8 DEF IInv

(* A key goes down or up, or is repeated; and a device raises its line. *)
LEMMA TypeKeeps ==
  ASSUME IInv, NEW key \in KeysUsed, Type(key)
  PROVE  IInv'
<1> DEFINE rel == key \in down
           faked == Faked(key)
<1>1. PICK b \in BOOLEAN, f \in BOOLEAN : b = rel /\ f = faked
  <2>1. rel \in BOOLEAN /\ faked \in BOOLEAN
    BY DEF Faked
  <2> HIDE DEF rel, faked
  <2> QED BY <2>1
<1> DEFINE v == CodesOf(key, b, f)
<1>2. Send(v)
  BY <1>1 DEF Type
<1>3. v \in Seq(CodeRec)
  <2>1. key \in AllKeys /\ (f => key = UP) /\ {} \in SUBSET Modifiers
    BY <1>1, DevicesAssumption DEF Faked
  <2>2. KeyCodes(v, key, b, f, {})
    BY <2>1, CodesOfKey
  <2> QED BY <2>2 DEF KeyCodes
<1>4. down' \subseteq KeysUsed \cup {FakeShift}
  BY DEF Type, IInv, Types
<1>5. ASSUME NEW K \in SUBSET Modifiers, NEW x, PressedAfter(codes, K, x) => Held(K)
      PROVE  PressedAfter(codes', K, x) => Held(K)'
  <2>1. codes \in Seq(CodeRec)
    BY DEF IInv, Types
  <2> QED BY <1>5, <2>1, TypeKeepsHeld
<1> HIDE DEF v
<1> QED BY <1>2, <1>3, <1>4, <1>5, SendKeeps

LEMMA RepeatKeeps ==
  ASSUME IInv, NEW key \in KeysUsed, Repeat(key)
  PROVE  IInv'
<1> DEFINE v == CodesOf(key, FALSE, FALSE)
<1>1. Send(v)
  BY DEF Repeat
<1>2. v \in Seq(CodeRec)
  <2>1. {} \in SUBSET Modifiers
    OBVIOUS
  <2>2. KeyCodes(v, key, FALSE, FALSE, {})
    BY <2>1, DevicesAssumption, CodesOfKey
  <2> QED BY <2>2 DEF KeyCodes
<1>3. down' \subseteq KeysUsed \cup {FakeShift}
  BY DEF Repeat, IInv, Types
<1>4. ASSUME NEW K \in SUBSET Modifiers, NEW x, PressedAfter(codes, K, x) => Held(K)
      PROVE  PressedAfter(codes', K, x) => Held(K)'
  <2>1. codes \in Seq(CodeRec)
    BY DEF IInv, Types
  <2> QED BY <1>4, <2>1, RepeatKeepsHeld
<1> HIDE DEF v
<1> QED BY <1>1, <1>2, <1>3, <1>4, SendKeeps

LEMMA RaisedKeeps ==
  ASSUME IInv, NEW r \in Raised, Raise(r[1], r[2])
  PROVE  IInv'
<1> DEFINE q == RaiseLine(pic, r[1], r[2])
<1>1. pic' = q /\ UNCHANGED <<irq, handlers, stage, stack, kb, down, codes, port>>
  BY DEF Raise
<1>2. pic \in PicType /\ r[1] \in Chips /\ r[2] \in Lines
  BY DevicesAssumption DEF IInv, Types
<1>3. q \in PicType /\ q.mask = pic.mask /\ q.isr = pic.isr /\ pic.irr[1] \subseteq q.irr[1]
  BY <1>2, RaiseKeeps
<1> HIDE DEF q
<1>4. Types' /\ BootInv' /\ StackInv' /\ ServiceInv'
  BY <1>1, <1>3 DEF IInv, Types, BootInv, Booted, StackInv, ServiceInv, Stages, ContextRec, CodeRec
<1>5. KeyboardServed'
  BY <1>1, <1>3 DEF IInv, KeyboardServed
<1> QED BY <1>1, <1>4, <1>5, KeysSame DEF IInv

LEMMA NextKeepsIInv ==
  ASSUME IInv, [Next]_vars
  PROVE  IInv'
<1>1. CASE Boot
  BY <1>1, BootKeeps, EnableInterruptsKeeps DEF Boot
<1>2. CASE Execute
  BY <1>2, MessageKeeps, ChangeStatusKeeps, TransmitKeeps, ReadKeyKeeps, SendEOIKeeps,
     ReturnKeeps DEF Execute
<1>3. CASE Deliver
  BY <1>3, DeliverKeeps
<1>4. CASE Spurious
  BY <1>4, SpuriousKeeps
<1>5. CASE \E key \in KeysUsed : Type(key) \/ Repeat(key)
  BY <1>5, TypeKeeps, RepeatKeeps
<1>6. CASE \E r \in Raised : Raise(r[1], r[2])
  BY <1>6, RaisedKeeps
<1>7. CASE UNCHANGED vars
  BY <1>7, ServiceSame, KeysSame DEF vars, IInv, Types, BootInv, Booted, StackInv, Stages,
    ContextRec, CodeRec, KeyboardServed
<1> QED BY <1>1, <1>2, <1>3, <1>4, <1>5, <1>6, <1>7 DEF Next

LEMMA Invariance ==
  Spec => []IInv
<1>1. Init => IInv
  BY InitIInv
<1>2. IInv /\ [Next]_vars => IInv'
  BY NextKeepsIInv
<1> QED BY <1>1, <1>2, PTL DEF Spec

-----------------------------------------------------------------------------
(***************************************************************************)
(* A line is in service exactly while its handler has not ended it,        *)
(* however interrupts, messages and key events follow each other           *)
(* (irq_handler.c:162-196, pic.c:221-238).                                 *)
(***************************************************************************)
THEOREM ServiceFollowsHandlers == Spec => []InServiceIsRunning
<1>1. ASSUME IInv PROVE InServiceIsRunning
  <2>1. TypeOK
    <3>1. /\ stack # <<>>
          /\ \A i \in DOMAIN stack : IS_PIC_IRQ(stack[i].irq) \/ i = 1
      <4>1. /\ DOMAIN stack = 1..Len(stack) /\ Len(stack) # 0
            /\ \A i \in 1..Len(stack) : Context(stack[i]) /\ (stack[i].irq = Kernel <=> i = 1)
        BY <1>1 DEF IInv, StackInv
      <4> QED BY <4>1, Numbers DEF Context
    <3>2. handlers \subseteq PIC1_MIN_IRQ..PIC2_MAX_IRQ
      BY <1>1 DEF IInv, BootInv, IRQ33_KEYBOARD, IRQ32_TIMER, IRQ36_COM1, PIC1_OFFSET,
        PIC1_MIN_IRQ, PIC2_MAX_IRQ, PIC2_OFFSET
    <3> QED BY <1>1, <3>1, <3>2 DEF IInv, Types, TypeOK, PicType
  <2>2. \A i \in DOMAIN stack : Pending(stack[i], "EOI") <=> Unended(stack[i])
    BY <1>1, PendingIsUnended DEF IInv, StackInv
  <2> DEFINE open == {stack[i] : i \in {j \in DOMAIN stack : Pending(stack[j], "EOI")}}
  <2>3. \A c \in open : c.irq - PIC1_OFFSET = 1
    BY <2>2 DEF Unended, IRQ33_KEYBOARD, PIC1_OFFSET
  <2>4. open # {} <=> \E i \in DOMAIN stack : Unended(stack[i])
    BY <2>2
  <2> HIDE DEF open
  <2>5. pic.isr[1] \subseteq {1} /\ (1 \in pic.isr[1] <=> open # {}) /\ pic.isr[2] = {}
    BY <1>1, <2>4 DEF IInv, ServiceInv, StackInv
  <2>6. pic.isr[1] = {c.irq - PIC1_OFFSET : c \in open}
    BY <2>3, <2>5
  <2> QED BY <2>1, <2>5, <2>6 DEF InServiceIsRunning, open
<1> QED BY <1>1, Invariance, PTL

(***************************************************************************)
(* A handler is never entered while it works, although a section of the    *)
(* handler itself may open interrupts (irq_handler.c:162-196, 264-295).    *)
(***************************************************************************)
THEOREM HandlersNeverReentered == Spec => []NoReentry
<1>1. ASSUME IInv PROVE NoReentry
  <2>1. ASSUME NEW i \in DOMAIN stack, Handling(stack[i]) PROVE Unended(stack[i])
    <3>1. Context(stack[i])
      BY <1>1 DEF IInv, StackInv
    <3>2. ~Ending(stack[i].todo)
      <4>1. stack[i] \in ContextRec
        BY <1>1 DEF IInv, StackInv
      <4>2. PICK s \in Seq(AllOps) : s = stack[i].todo
        BY <4>1 DEF ContextRec
      <4>3. PICK l \in Nat : l = Len(s)
        OBVIOUS
      <4>4. l > 1
        BY <2>1, <4>2, <4>3 DEF Handling
      <4>5. ~Ending(s)
        BY <4>3, <4>4 DEF Ending
      <4> QED BY <4>2, <4>5
    <3> QED BY <2>1, <3>1, <3>2 DEF Handling, Context, Unended
  <2>2. \A i, j \in DOMAIN stack : Unended(stack[i]) /\ Unended(stack[j]) => i = j
    BY <1>1 DEF IInv, ServiceInv, StackInv
  <2> QED BY <2>1, <2>2 DEF NoReentry
<1> QED BY <1>1, Invariance, PTL

(***************************************************************************)
(* Once interrupts are enabled, every line that can interrupt has its      *)
(* handler, and nothing else runs, whatever masks the boot loader left and *)
(* whatever devices raise (pic.c:45-132, kernel_main.c:247-270).           *)
(***************************************************************************)
THEOREM OpenLinesAreHandled == Spec => []OpenLinesHandled
<1>1. ASSUME IInv PROVE OpenLinesHandled
  <2>1. SUFFICES ASSUME Booted
                 PROVE  /\ Deliverable(pic) = {IRQ33_KEYBOARD} /\ IRQ33_KEYBOARD \in handlers
                        /\ \A i \in DOMAIN stack :
                             stack[i].irq \in {Kernel, IRQ33_KEYBOARD, IRQ39_LPT1}
    BY DEF OpenLinesHandled, Booted
  <2>2. pic.mask[1] = Lines \ {1} /\ IRQ33_KEYBOARD \in handlers
    BY <1>1, <2>1 DEF IInv, BootInv
  <2>3. Cascade \in pic.mask[1] /\ Lines \ (pic.mask[1] \cup {Cascade}) = {1}
    BY <2>2 DEF Cascade, Lines
  <2>4. Deliverable(pic) = {IRQ33_KEYBOARD}
    BY <2>3 DEF Deliverable, IRQ33_KEYBOARD
  <2>5. \A i \in DOMAIN stack : stack[i].irq \in {Kernel, IRQ33_KEYBOARD, IRQ39_LPT1}
    BY <1>1 DEF IInv, StackInv, Context
  <2> QED BY <2>2, <2>4, <2>5
<1> QED BY <1>1, Invariance, PTL

(***************************************************************************)
(* No shift, control or alt sticks, and no scan code waits without an      *)
(* interrupt, whatever keys go down and up or are repeated, and whenever   *)
(* the handler runs, also where no code waits                              *)
(* (ps2_keyboard_driver.c:279-290, 308-458).                               *)
(***************************************************************************)
THEOREM NoModifierSticks == Spec => []ModifiersHeld
<1>1. ASSUME IInv PROVE ModifiersHeld
  <2>1. \A K, x : x => PressedAfter(<<>>, K, x)
    BY DEF PressedAfter
  <2>2. ASSUME codes = <<>>
        PROVE  /\ kb.shift => Held(Shifts)
               /\ kb.ctrl => Held({CTRL})
               /\ kb.alt => Held({ALT})
    BY <1>1, <2>1, <2>2 DEF IInv, KeysInv
  <2>3. LSFT \in Shifts /\ LSFT # CTRL /\ LSFT # ALT
    BY DEF Shifts, LSFT, CTRL, ALT
  <2>4. /\ Held(Shifts) <=> down \cap (Shifts \cup {FakeShift}) # {}
        /\ Held({CTRL}) <=> CTRL \in down
        /\ Held({ALT}) <=> ALT \in down
    BY <2>3 DEF Held
  <2> QED BY <1>1, <2>2, <2>4 DEF IInv, ModifiersHeld
<1> QED BY <1>1, Invariance, PTL
=============================================================================
