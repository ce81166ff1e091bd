----------------------------- MODULE SchedList -----------------------------
(***************************************************************************)
(* The intrusive doubly linked list of lib/ksched.c: the pool of threads   *)
(* of the round-robin scheduler, at the level of its pointers.             *)
(*                                                                         *)
(* A list is the record of the three globals (ll_head, ll_tail, ll_len)    *)
(* and of the two link fields every thread record carries (sched_next and  *)
(* sched_prev, which are sched_one and sched_two of kproc.h).  The link    *)
(* fields are total functions: a thread outside the pool has links too,    *)
(* and they hold whatever its memory held.                                 *)
(*                                                                         *)
(* The operators map a list to the list a call leaves, so that the modules *)
(* of the callers (KProc) can chain calls the way the code does.           *)
(***************************************************************************)
EXTENDS Naturals, Sequences

CONSTANTS
  Thread,   (* the addresses of thread records *)
  NULL      (* the null pointer *)

ASSUME NullAssumption == NULL \notin Thread

Link == Thread \cup {NULL}

List ==
  [head : Link, tail : Link, len : Nat,
   next : [Thread -> Link], prev : [Thread -> Link]]

(* The pool before any call, over records whose links are arbitrary. *)
EmptyList(next, prev) ==
  [head |-> NULL, tail |-> NULL, len |-> 0, next |-> next, prev |-> prev]

(***************************************************************************)
(* Mutated forms of the operators below: plausible slips in ksched.c that  *)
(* the properties of RRSched and KProc must notice.                        *)
(***************************************************************************)
\* the old tail is not linked to the new thread
AdmittedUnlinked(l, t) ==
  IF l.len = 0
  THEN [l EXCEPT !.head = t, !.tail = t, !.len = 1,
                 !.next[t] = NULL, !.prev[t] = NULL]
  ELSE [l EXCEPT !.tail = t, !.len = @ + 1, !.prev[t] = l.tail]

\* the tail survives the removal of the only thread
CutOutKeepingTail(l, t) ==
  CASE l.len = 1 -> [l EXCEPT !.head = NULL]
    [] l.len # 1 /\ t = l.head ->
         [l EXCEPT !.head = l.next[t], !.prev[l.next[t]] = NULL]
    [] l.len # 1 /\ t # l.head /\ t = l.tail ->
         [l EXCEPT !.tail = l.prev[t], !.next[l.prev[t]] = NULL]
    [] OTHER -> [l EXCEPT !.next[l.prev[t]] = l.next[t],
                          !.prev[l.next[t]] = l.prev[t]]

\* a middle thread is cut out of the forward chain only
CutOutOneWay(l, t) ==
  CASE l.len = 1 -> [l EXCEPT !.head = NULL, !.tail = NULL]
    [] l.len # 1 /\ t = l.head ->
         [l EXCEPT !.head = l.next[t], !.prev[l.next[t]] = NULL]
    [] l.len # 1 /\ t # l.head /\ t = l.tail ->
         [l EXCEPT !.tail = l.prev[t], !.next[l.prev[t]] = NULL]
    [] OTHER -> [l EXCEPT !.next[l.prev[t]] = l.next[t]]

\* the length is decremented once too often
RemovedTwice(l, t) ==
  [l EXCEPT !.head = IF l.len = 1 THEN NULL ELSE l.head,
            !.tail = IF l.len = 1 THEN NULL ELSE l.tail,
            !.len = @ - 2]

\* the tail pointer does not follow the served thread
RotatedKeepingTail(l) ==
  IF l.len \in {0, 1} THEN l
  ELSE [l EXCEPT !.head = l.next[l.head],
                 !.next[l.tail] = l.head, !.next[l.head] = NULL,
                 !.prev[l.next[l.head]] = NULL, !.prev[l.head] = l.tail]

\* a list of two threads is left alone too
RotatedFromThree(l) ==
  IF l.len \in {0, 1, 2} THEN l
  ELSE [l EXCEPT !.head = l.next[l.head], !.tail = l.head,
                 !.next[l.tail] = l.head, !.next[l.head] = NULL,
                 !.prev[l.next[l.head]] = NULL, !.prev[l.head] = l.tail]

(***************************************************************************)
(* validate_ll() returns (TRUE) or halts the system (FALSE).               *)
(***************************************************************************)
validate_ll(l) ==
  /\ (l.head = NULL) = (l.tail = NULL)
  /\ (l.head = NULL) = (l.len = 0)
  /\ l.head = l.tail /\ l.head # NULL => l.len = 1

(***************************************************************************)
(* rr_admit().  The links of the new thread are reset only when the list   *)
(* is empty: otherwise its sched_next keeps what its memory held.          *)
(***************************************************************************)
Admitted(l, t) ==
  IF l.len = 0
  THEN [head |-> t, tail |-> t, len |-> l.len + 1,
        next |-> [l.next EXCEPT ![t] = NULL],
        prev |-> [l.prev EXCEPT ![t] = NULL]]
  ELSE [head |-> l.head, tail |-> t, len |-> l.len + 1,
        next |-> [l.next EXCEPT ![l.tail] = t],
        prev |-> [l.prev EXCEPT ![t] = l.tail]]

(***************************************************************************)
(* rr_remove(): the list with the victim cut out, then with the victim's   *)
(* own links cleared and the length decremented.                           *)
(***************************************************************************)
CutOut(l, t) ==
  CASE l.len = 1 ->
         [l EXCEPT !.head = NULL, !.tail = NULL]
    [] l.len # 1 /\ t = l.head ->
         [l EXCEPT !.head = l.next[t],
                   !.prev = [l.prev EXCEPT ![l.next[t]] = NULL]]
    [] l.len # 1 /\ t # l.head /\ t = l.tail ->
         [l EXCEPT !.tail = l.prev[t],
                   !.next = [l.next EXCEPT ![l.prev[t]] = NULL]]
    [] OTHER ->
         [l EXCEPT !.next = [l.next EXCEPT ![l.prev[t]] = l.next[t]],
                   !.prev = [l.prev EXCEPT ![l.next[t]] = l.prev[t]]]

Removed(l, t) ==
  IF l.len = 0 THEN l
  ELSE LET c == CutOut(l, t)
       IN  [head |-> c.head, tail |-> c.tail, len |-> l.len - 1,
            next |-> [c.next EXCEPT ![t] = NULL],
            prev |-> [c.prev EXCEPT ![t] = NULL]]

(***************************************************************************)
(* rr_next(): what it returns, and the list it leaves.  A list of one      *)
(* thread is left alone.                                                   *)
(***************************************************************************)
Served(l) == IF l.len = 0 THEN NULL ELSE l.head

Rotated(l) ==
  IF l.len \in {0, 1} THEN l
  ELSE LET first == l.head
           second == l.next[first]
       IN  [head |-> second, tail |-> first, len |-> l.len,
            next |-> [[l.next EXCEPT ![l.tail] = first] EXCEPT ![first] = NULL],
            prev |-> [[l.prev EXCEPT ![second] = NULL] EXCEPT ![first] = l.tail]]

-----------------------------------------------------------------------------
(***************************************************************************)
(* What a list means: IsList(l, q) says that l is the representation of    *)
(* the sequence q of distinct threads, first served first.  It constrains  *)
(* neither the links of threads outside q nor the sched_next of its last   *)
(* thread, which rr_admit leaves uninitialised.                            *)
(***************************************************************************)
IsDistinct(q) == \A i, j \in 1..Len(q) : q[i] = q[j] => i = j

IsList(l, q) ==
  /\ IsDistinct(q)
  /\ l.len = Len(q)
  /\ Len(q) = 0 => l.head = NULL /\ l.tail = NULL
  /\ Len(q) # 0 => /\ l.head = q[1]
                   /\ l.tail = q[Len(q)]
                   /\ l.prev[q[1]] = NULL
  /\ \A i \in 1..(Len(q) - 1) : /\ l.next[q[i]] = q[i + 1]
                                /\ l.prev[q[i + 1]] = q[i]

(* The threads met by following sched_next from the head, n of them.  A    *)
(* walk that falls off the list stays at NULL.                             *)
Walk(l, n) ==
  LET at[i \in 1..n] ==
        IF i = 1 THEN l.head
        ELSE IF at[i - 1] = NULL THEN NULL ELSE l.next[at[i - 1]]
  IN  at

(* The queue a list stands for. *)
QueueOf(l) == Walk(l, l.len)
=============================================================================
