-------------------------------- MODULE Pic ---------------------------------
(***************************************************************************)
(* The pair of 8259 interrupt controllers and src/ISR/pic.c, as operators  *)
(* on a record of three functions from a chip (1 or 2) to a set of lines   *)
(* in 0..7:                                                                *)
(*   mask - the data port: the lines that are masked                       *)
(*   irr  - the lines that request service                                 *)
(*   isr  - the lines in service                                           *)
(* The second chip is connected to line 2 of the first.                    *)
(***************************************************************************)
EXTENDS Integers, FiniteSets

PIC1_OFFSET == 32
PIC1_MIN_IRQ == PIC1_OFFSET
PIC1_MAX_IRQ == PIC1_OFFSET + 7
PIC2_OFFSET == PIC1_OFFSET + 8
PIC2_MAX_IRQ == PIC2_OFFSET + 7

IRQ32_TIMER == PIC1_OFFSET
IRQ33_KEYBOARD == PIC1_OFFSET + 1
IRQ36_COM1 == PIC1_OFFSET + 4
IRQ39_LPT1 == PIC1_OFFSET + 7

Chips == {1, 2}
Lines == 0..7
Cascade == 2

IS_PIC_IRQ(irq) == PIC1_MIN_IRQ <= irq /\ irq <= PIC2_MAX_IRQ

(***************************************************************************)
(* PIC_set_mask() and the like subtract PIC1_OFFSET from the IRQ and then  *)
(* compare it with PIC1_MIN_IRQ, to which that offset belongs: the chip is *)
(* always the first.  The mask is a byte, so 1 << n is 0 there for n > 7.  *)
(***************************************************************************)
ChipOf(n) == IF n < PIC1_MIN_IRQ THEN 1 ELSE 2
BitOf(n) == {IF n < PIC1_MIN_IRQ THEN n ELSE n - 8} \cap Lines

PIC_set_mask(p, irq) ==
  LET n == irq - PIC1_OFFSET
  IN  IF IS_PIC_IRQ(irq) THEN [p EXCEPT !.mask[ChipOf(n)] = @ \cup BitOf(n)] ELSE p

PIC_clear_mask(p, irq) ==
  LET n == irq - PIC1_OFFSET
  IN  IF IS_PIC_IRQ(irq) THEN [p EXCEPT !.mask[ChipOf(n)] = @ \ BitOf(n)] ELSE p

(* PIC_remap(): the masks are saved and restored, the chips forget the rest. *)
PIC_remap(p) ==
  [mask |-> p.mask, irr |-> [c \in Chips |-> {}], isr |-> [c \in Chips |-> {}]]

SetMasks(p, from, to) ==
  LET upTo[irq \in (from - 1)..to] ==
        IF irq < from THEN p ELSE PIC_set_mask(upTo[irq - 1], irq)
  IN  upTo[to]

\* mutated: the loop ends with the first chip, and before its last line
InitOneShort(p) == SetMasks(PIC_remap(p), PIC1_MIN_IRQ, PIC1_MAX_IRQ - 1)

(* PIC_init(): the loop stops before PIC2_MAX_IRQ. *)
PIC_init(p) == SetMasks(PIC_remap(p), PIC1_MIN_IRQ, PIC2_MAX_IRQ - 1)

Highest(lines) == {l \in lines : \A k \in lines : l <= k}

(* A non-specific EOI ends the service of the line with highest priority. *)
EndOfInterrupt(p, chip) == [p EXCEPT !.isr[chip] = @ \ Highest(@)]

\* mutated: the offset is subtracted before the range is checked
EOIOutOfRange(p, irq) ==
  IF irq - PIC1_OFFSET < PIC1_MIN_IRQ \/ irq - PIC1_OFFSET > PIC2_MAX_IRQ THEN p
  ELSE EndOfInterrupt(p, 1)

PIC_send_EOI(p, irq) ==
  IF ~IS_PIC_IRQ(irq) THEN p
  ELSE EndOfInterrupt(IF irq > PIC1_MAX_IRQ THEN EndOfInterrupt(p, 2) ELSE p, 1)

-----------------------------------------------------------------------------
(* The chips.  A line may interrupt when it is not masked and no line of   *)
(* the same or a higher priority is in service.                            *)
Ready(p, chip, requests) ==
  {l \in requests \ p.mask[chip] : \A s \in p.isr[chip] : l < s}

Requests2(p) == Ready(p, 2, p.irr[2])

Requests1(p) ==
  Ready(p, 1, p.irr[1] \cup (IF Requests2(p) = {} THEN {} ELSE {Cascade}))

RaiseLine(p, chip, line) == [p EXCEPT !.irr[chip] = @ \cup {line}]

(* The processor acknowledges the request with the highest priority. *)
Serve(p, chip, line) ==
  [p EXCEPT !.irr[chip] = @ \ {line}, !.isr[chip] = @ \cup {line}]

Acknowledged(p) ==
  LET one == CHOOSE l \in Highest(Requests1(p)) : TRUE
      two == CHOOSE l \in Highest(Requests2(p)) : TRUE
  IN  IF one = Cascade
      THEN [irq |-> PIC2_OFFSET + two, pic |-> Serve(Serve(p, 1, Cascade), 2, two)]
      ELSE [irq |-> PIC1_OFFSET + one, pic |-> Serve(p, 1, one)]

(* The interrupts that can reach the processor, as the masks stand. *)
Deliverable(p) ==
  {PIC1_OFFSET + l : l \in Lines \ (p.mask[1] \cup {Cascade})}
    \cup (IF Cascade \in p.mask[1] THEN {}
          ELSE {PIC2_OFFSET + l : l \in Lines \ p.mask[2]})
=============================================================================
