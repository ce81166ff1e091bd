------------------------------ MODULE RRSched ------------------------------
(***************************************************************************)
(* The round-robin scheduler of lib/ksched.c: its three entry points as    *)
(* actions over the pointer-level list of SchedList.                       *)
(*                                                                         *)
(* Callers keep the contract of the scheduler tuple (kproc.h): a thread is *)
(* admitted while outside the pool and removed while inside it.  KProc     *)
(* models the kernel's own caller, which does not.                         *)
(*                                                                         *)
(* order is an auxiliary variable: the threads in the order a reader of    *)
(* the comments expects, updated beside the pointers and read by no guard. *)
(***************************************************************************)
EXTENDS SchedList

VARIABLES
  list,     (* ll_head, ll_tail, ll_len and the links of every thread *)
  served,   (* what the latest call of rr_next() returned *)
  halted,   (* validate_ll() found a broken list and halted the system *)
  order     (* auxiliary: the queue that list should stand for *)

vars == <<list, served, halted, order>>

Queue == INSTANCE RunQueue WITH queue <- order

InPool(t) == t \in Queue!Members(order)

Init ==
  /\ list \in {EmptyList(n, p) : n, p \in [Thread -> Link]}
  /\ served = NULL
  /\ halted = FALSE
  /\ order = <<>>

(* Every entry point starts with validate_ll(), which returns or halts. *)
Halt == halted' = TRUE /\ UNCHANGED <<list, served, order>>

rr_admit(t) ==
  /\ ~halted
  /\ ~InPool(t)
  /\ IF validate_ll(list)
     THEN /\ list' = Admitted(list, t)
          /\ order' = Append(order, t)
          /\ UNCHANGED <<served, halted>>
     ELSE Halt

rr_remove(t) ==
  /\ ~halted
  /\ InPool(t)
  /\ IF validate_ll(list)
     THEN /\ list' = Removed(list, t)
          /\ \E i \in 1..Len(order) :
               order[i] = t /\ order' = Queue!WithoutAt(order, i)
          /\ UNCHANGED <<served, halted>>
     ELSE Halt

rr_next ==
  /\ ~halted
  /\ IF validate_ll(list)
     THEN /\ served' = Served(list)
          /\ list' = Rotated(list)
          /\ order' = Queue!ToTheBack(order)
          /\ UNCHANGED halted
     ELSE Halt

(* A thread record outside the pool is freed and its memory comes back from *)
(* kmalloc(), which clears nothing: its links hold anything.                *)
Recycle(t) ==
  /\ ~halted
  /\ ~InPool(t)
  /\ \E n, p \in Link :
       list' = [list EXCEPT !.next[t] = n, !.prev[t] = p]
  /\ UNCHANGED <<served, halted, order>>

Next ==
  \/ \E t \in Thread : rr_admit(t) \/ rr_remove(t) \/ Recycle(t)
  \/ rr_next

Spec == Init /\ [][Next]_vars

(* PROC_run(), which calls rr_next(), "is to be called in a loop" (kproc.h). *)
FairSpec == Spec /\ WF_vars(rr_next)

-----------------------------------------------------------------------------
TypeOK ==
  /\ list \in List
  /\ served \in Link
  /\ halted \in BOOLEAN
  /\ order \in Seq(Thread)

(***************************************************************************)
(* The pointers represent the queue: whatever the links of a thread held   *)
(* when it was admitted, and in whatever order threads came and went, the  *)
(* list reads the same from both ends and holds exactly the pool, in the   *)
(* order of service (lib/ksched.c as a whole).                             *)
(***************************************************************************)
Represents == IsList(list, order)

(***************************************************************************)
(* As long as callers keep the contract, no assertion of validate_ll()     *)
(* fires: the system is never halted by the scheduler (ksched.c:30-63).    *)
(***************************************************************************)
NeverHalts == ~halted /\ validate_ll(list)

(***************************************************************************)
(* The scheduler implements the queue of RunQueue, for the queue read off  *)
(* the pointers (no auxiliary variable): each entry point is one step of   *)
(* the abstract scheduler and answers what it answers.                     *)
(***************************************************************************)
Abstract == INSTANCE RunQueue WITH queue <- QueueOf(list)

ImplementsQueue == Abstract!QSpec

(***************************************************************************)
(* No starvation: a thread in the pool is served, unless it is removed     *)
(* first, however other threads are admitted and removed meanwhile.        *)
(***************************************************************************)
EveryThreadServed ==
  \A t \in Thread : InPool(t) ~> (served = t \/ ~InPool(t))
=============================================================================
