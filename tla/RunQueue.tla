------------------------------ MODULE RunQueue ------------------------------
(***************************************************************************)
(* What a round-robin scheduler promises (the scheduler tuple of kproc.h,  *)
(* its comments on admit, remove and next): a first-in first-out queue of  *)
(* threads in which choosing the next thread sends it to the back.         *)
(***************************************************************************)
EXTENDS Naturals, Sequences

CONSTANTS
  Thread,   (* the threads *)
  NULL      (* the answer of next() when the pool is empty *)

VARIABLES
  queue,    (* the pool, the next thread to serve first *)
  served    (* the answer of the latest call of next() *)

qvars == <<queue, served>>

Members(q) == {q[i] : i \in 1..Len(q)}

(* q without its i-th thread, and q with its first thread moved last. *)
WithoutAt(q, i) ==
  [j \in 1..(Len(q) - 1) |-> IF j < i THEN q[j] ELSE q[j + 1]]

ToTheBack(q) ==
  [j \in 1..Len(q) |-> IF j = Len(q) THEN q[1] ELSE q[j + 1]]

QInit == queue = <<>> /\ served = NULL

Admit(t) ==
  /\ t \notin Members(queue)
  /\ queue' = Append(queue, t)
  /\ UNCHANGED served

Remove(t) ==
  \E i \in 1..Len(queue) :
    /\ queue[i] = t
    /\ queue' = WithoutAt(queue, i)
    /\ UNCHANGED served

ServeNone ==
  /\ queue = <<>>
  /\ served' = NULL
  /\ UNCHANGED queue

ServeFirst ==
  /\ queue # <<>>
  /\ served' = queue[1]
  /\ queue' = ToTheBack(queue)

QNext ==
  \/ \E t \in Thread : Admit(t) \/ Remove(t)
  \/ ServeNone
  \/ ServeFirst

QSpec == QInit /\ [][QNext]_qvars
=============================================================================
