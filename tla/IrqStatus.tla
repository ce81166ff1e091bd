----------------------------- MODULE IrqStatus ------------------------------
(***************************************************************************)
(* The critical sections of the kernel, src/ISR/irq_handler.c, as the      *)
(* operations that IRQ_enable(), IRQ_disable() and IRQ_reenable() consist  *)
(* of: an interrupt can arrive between two of them.  They act on a record  *)
(* m with the fields                                                       *)
(*   prev, curr - IRQ_status_prev, IRQ_status_curr (TRUE is ENABLED)       *)
(*   cpu        - the interrupt flag of the processor                      *)
(***************************************************************************)
EXTENDS Sequences

NoArg == "nul"
Op(name) == [op |-> name, arg |-> NoArg]
OpOf(name, x) == [op |-> name, arg |-> x]

(* IRQ_enable() executes cli and IRQ_disable() executes sti.               *)
IRQ_enable == <<Op("prev=curr"), Op("curr=ENABLED"), Op("cli")>>

IRQ_disable == <<Op("sti if enabled"), Op("prev=curr"), Op("curr=DISABLED")>>
IRQ_reenable == <<Op("enable if was")>>

IrqOps == {"prev=curr", "curr=ENABLED", "curr=DISABLED", "cli",
           "sti if enabled", "enable if was"}

DoIrq(m, o) ==
  CASE o.op = "prev=curr"      -> [m EXCEPT !.prev = m.curr]
    [] o.op = "curr=ENABLED"   -> [m EXCEPT !.curr = TRUE]
    [] o.op = "curr=DISABLED"  -> [m EXCEPT !.curr = FALSE]
    [] o.op = "cli"            -> [m EXCEPT !.cpu = FALSE]
    [] o.op = "sti if enabled" -> [m EXCEPT !.cpu = m.curr \/ @]
    [] o.op = "enable if was"  -> m

(* What an operation calls: IRQ_reenable() may call IRQ_enable(). *)
IrqCalls(m, o) ==
  IF o.op = "enable if was" /\ m.prev /\ ~m.curr THEN IRQ_enable ELSE <<>>
=============================================================================
