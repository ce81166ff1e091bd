----------------------------- MODULE Allocator -----------------------------
(***************************************************************************)
(* What kmalloc.h promises of kmalloc(), kcalloc() and kfree(): a request  *)
(* is answered with an interval of memory, at least as long as asked for,  *)
(* that is disjoint from every interval handed out and not yet freed.      *)
(***************************************************************************)
EXTENDS Integers

CONSTANT Sizes      (* the sizes callers ask for *)

VARIABLES
  held,  (* the intervals handed out: [start, size] records *)
  out    (* the number of pointers handed out and not freed *)

avars == <<held, out>>

Words(i) == i.start .. (i.start + i.size - 1)

Disjoint(i, j) == Words(i) \cap Words(j) = {}

AInit == held = {} /\ out = 0

Alloc(i) ==
  /\ \E n \in Sizes : i.size >= n
  /\ \A j \in held : Disjoint(i, j)
  /\ held' = held \cup {i}
  /\ out' = out + 1

Free(i) ==
  /\ i \in held
  /\ held' = held \ {i}
  /\ out' = out - 1

(* The intervals are read off the step, so that TLC need not guess them. *)
ANext ==
  \/ \E i \in held' \ held : Alloc(i)
  \/ \E i \in held \ held' : Free(i)

ASpec == AInit /\ [][ANext]_avars
=============================================================================
