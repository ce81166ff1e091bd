---------------------------- MODULE KProcProofs ----------------------------
(***************************************************************************)
(* Theorems about KProc, for every set of thread records and every number  *)
(* of creations.                                                           *)
(***************************************************************************)
EXTENDS KProc, Induction, FiniteSetTheorems

(***************************************************************************)
(* The scheduler's list: what its pointers are after each operation.       *)
(***************************************************************************)
(* Following sched_next from the head meets the threads that are linked.   *)
LEMMA WalkIsQueue ==
  ASSUME NEW l, NEW q \in Seq(Thread), Len(q) # 0 => l.head = q[1],
         \A i \in 1..(Len(q) - 1) : l.next[q[i]] = q[i + 1]
  PROVE  Walk(l, Len(q)) = q
<1>1. PICK n \in Nat : n = Len(q)
  OBVIOUS
<1>2. \A i \in 1..n : q[i] # NULL
  BY <1>1, NullAssumption
<1>3. WalkAlong(l.head, l.next, NULL, n) = [i \in 1..n |-> q[i]]
  <2>1. PICK first, next : first = l.head /\ next = l.next
    OBVIOUS
  <2>2. /\ n # 0 => first = q[1]
        /\ \A i \in 1..(n - 1) : next[q[i]] = q[i + 1]
    BY <1>1, <2>1
  <2>3. WalkAlong(first, next, NULL, n) = [i \in 1..n |-> q[i]]
    BY <1>2, <2>2, WalkMeets
  <2> QED BY <2>1, <2>3
<1>4. Walk(l, n) = WalkAlong(l.head, l.next, NULL, n)
  BY DEF Walk, WalkAlong
<1>5. q = [i \in 1..n |-> q[i]]
  BY <1>1
<1> QED BY <1>1, <1>3, <1>4, <1>5

(* A write to a link field; with NULL in the place of a thread it changes   *)
(* nothing.                                                                 *)
LEMMA WriteLink ==
  ASSUME NEW f \in [Thread -> Link], NEW a \in Link, NEW x \in Link
  PROVE  /\ [f EXCEPT ![a] = x] \in [Thread -> Link]
         /\ \A c \in Thread : [f EXCEPT ![a] = x][c] = IF c = a THEN x ELSE f[c]
  OBVIOUS

(* The operations keep the types, whatever the list looks like. *)
LEMMA AdmittedIsList ==
  ASSUME NEW l \in List, NEW t \in Thread
  PROVE  Admitted(l, t) \in List
<1>1. /\ l.next \in [Thread -> Link] /\ l.prev \in [Thread -> Link] /\ l.len + 1 \in Nat
      /\ l.head \in Link /\ l.tail \in Link /\ t \in Link /\ NULL \in Link
  BY DEF List, Link
<1>2. /\ [l.next EXCEPT ![t] = NULL] \in [Thread -> Link]
      /\ [l.prev EXCEPT ![t] = NULL] \in [Thread -> Link]
      /\ [l.next EXCEPT ![l.tail] = t] \in [Thread -> Link]
      /\ [l.prev EXCEPT ![t] = l.tail] \in [Thread -> Link]
  BY <1>1, WriteLink
<1>3. CASE l.len = 0
  BY <1>1, <1>2, <1>3 DEF Admitted, List
<1>4. CASE l.len # 0
  BY <1>1, <1>2, <1>4 DEF Admitted, List
<1> QED BY <1>3, <1>4

LEMMA RotatedIsList ==
  ASSUME NEW l \in List, validate_ll(l)
  PROVE  Rotated(l) \in List
<1>1. CASE l.len \in {0, 1}
  BY <1>1 DEF Rotated
<1>2. CASE l.len \notin {0, 1}
  <2> DEFINE first == l.head
             second == l.next[first]
             f == [l.next EXCEPT ![l.tail] = first]
             g == [l.prev EXCEPT ![second] = NULL]
  <2>1. /\ l.next \in [Thread -> Link] /\ l.prev \in [Thread -> Link] /\ l.len \in Nat
        /\ first \in Thread /\ first \in Link /\ l.tail \in Link /\ NULL \in Link
    BY <1>2 DEF List, Link, validate_ll
  <2>2. second \in Link
    BY <2>1
  <2>3. f \in [Thread -> Link] /\ g \in [Thread -> Link]
    BY <2>1, <2>2, WriteLink
  <2> HIDE DEF f, g
  <2>4. /\ [f EXCEPT ![first] = NULL] \in [Thread -> Link]
        /\ [g EXCEPT ![first] = l.tail] \in [Thread -> Link]
    BY <2>1, <2>3, WriteLink
  <2>5. Rotated(l) = [head |-> second, tail |-> first, len |-> l.len,
                      next |-> [f EXCEPT ![first] = NULL],
                      prev |-> [g EXCEPT ![first] = l.tail]]
    BY <1>2 DEF Rotated, f, g
  <2> QED BY <2>1, <2>2, <2>4, <2>5 DEF List
<1> QED BY <1>1, <1>2

LEMMA CutOutIsList ==
  ASSUME NEW l \in List, NEW t \in Thread
  PROVE  CutOut(l, t) \in List
<1>1. /\ l.next \in [Thread -> Link] /\ l.prev \in [Thread -> Link] /\ l.len \in Nat
      /\ l.head \in Link /\ l.tail \in Link /\ t \in Link /\ NULL \in Link
      /\ l = [head |-> l.head, tail |-> l.tail, len |-> l.len,
              next |-> l.next, prev |-> l.prev]
  BY DEF List, Link
<1>2. l.next[t] \in Link /\ l.prev[t] \in Link
  BY <1>1
<1>3. /\ [l.prev EXCEPT ![l.next[t]] = NULL] \in [Thread -> Link]
      /\ [l.next EXCEPT ![l.prev[t]] = NULL] \in [Thread -> Link]
      /\ [l.next EXCEPT ![l.prev[t]] = l.next[t]] \in [Thread -> Link]
      /\ [l.prev EXCEPT ![l.next[t]] = l.prev[t]] \in [Thread -> Link]
  BY <1>1, <1>2, WriteLink
<1>4. CASE l.len = 1
  BY <1>1, <1>4 DEF CutOut, List
<1>5. CASE l.len # 1 /\ t = l.head
  BY <1>1, <1>2, <1>3, <1>5 DEF CutOut, List
<1>6. CASE l.len # 1 /\ t # l.head /\ t = l.tail
  BY <1>1, <1>2, <1>3, <1>6 DEF CutOut, List
<1>7. CASE l.len # 1 /\ t # l.head /\ t # l.tail
  <2>1. CutOut(l, t) = [l EXCEPT !.next = [l.next EXCEPT ![l.prev[t]] = l.next[t]],
                                 !.prev = [l.prev EXCEPT ![l.next[t]] = l.prev[t]]]
    BY <1>7 DEF CutOut
  <2> QED BY <1>1, <1>3, <2>1 DEF List
<1> QED BY <1>4, <1>5, <1>6, <1>7

LEMMA RemovedIsList ==
  ASSUME NEW l \in List, NEW t \in Thread
  PROVE  Removed(l, t) \in List
<1>1. CASE l.len = 0
  BY <1>1 DEF Removed
<1>2. CASE l.len # 0
  <2>1. PICK c \in List : c = CutOut(l, t)
    BY CutOutIsList
  <2>2. /\ c.next \in [Thread -> Link] /\ c.prev \in [Thread -> Link]
        /\ c.head \in Link /\ c.tail \in Link /\ l.len - 1 \in Nat
        /\ t \in Link /\ NULL \in Link
    BY <1>2 DEF List, Link
  <2>3. /\ [c.next EXCEPT ![t] = NULL] \in [Thread -> Link]
        /\ [c.prev EXCEPT ![t] = NULL] \in [Thread -> Link]
    BY <2>2, WriteLink
  <2>4. Removed(l, t) = [head |-> c.head, tail |-> c.tail, len |-> l.len - 1,
                         next |-> [c.next EXCEPT ![t] = NULL],
                         prev |-> [c.prev EXCEPT ![t] = NULL]]
    BY <1>2, <2>1 DEF Removed
  <2> QED BY <2>2, <2>3, <2>4 DEF List
<1> QED BY <1>1, <1>2

-----------------------------------------------------------------------------
(***************************************************************************)
(* A list whose forward links go through q, and whose length exceeds q's   *)
(* by extra: what PROC_run() makes of a list when it admits a thread that  *)
(* is in it.  Only forward links: sched_prev is read by rr_remove() alone. *)
(***************************************************************************)
Chain(l, q, extra) ==
  /\ l \in List /\ q \in Seq(Thread) /\ extra \in Nat
  /\ IsDistinct(q)
  /\ l.len = Len(q) + extra
  /\ Len(q) = 0 => extra = 0 /\ l.head = NULL /\ l.tail = NULL
  /\ Len(q) # 0 => l.head = q[1] /\ l.tail = q[Len(q)]
  /\ \A i \in 1..(Len(q) - 1) : l.next[q[i]] = q[i + 1]

(* Following sched_next in a chain. *)
LEMMA ChainWalk ==
  ASSUME NEW l, NEW q, NEW extra, Chain(l, q, extra)
  PROVE  Walk(l, Len(q)) = q
  BY WalkIsQueue DEF Chain

(* q with its first thread moved to the back. *)
Turned(q) == [j \in 1..Len(q) |-> IF j = Len(q) THEN q[1] ELSE q[j + 1]]

InSeq(t, q) == \E i \in 1..Len(q) : q[i] = t

(* validate_ll() notices an excess only in a list of one thread. *)
LEMMA ChainValid ==
  ASSUME NEW l, NEW q, NEW extra, Chain(l, q, extra)
  PROVE  validate_ll(l) <=> ~(Len(q) = 1 /\ extra > 0)
<1>1. Len(q) \in Nat /\ extra \in Nat /\ l.len = Len(q) + extra
      /\ \A i \in 1..Len(q) : q[i] \in Thread
  BY DEF Chain
<1>2. CASE Len(q) = 0
  BY <1>1, <1>2 DEF Chain, validate_ll
<1>3. CASE Len(q) # 0
  <2>1. 1 \in 1..Len(q) /\ Len(q) \in 1..Len(q)
    BY <1>1, <1>3
  <2>2. l.head = q[1] /\ l.tail = q[Len(q)] /\ l.head # NULL /\ l.tail # NULL
    BY <1>1, <1>3, <2>1, NullAssumption DEF Chain
  <2>3. l.head = l.tail <=> Len(q) = 1
    BY <2>1, <2>2 DEF Chain, IsDistinct
  <2> QED BY <1>1, <1>3, <2>2, <2>3 DEF validate_ll
<1> QED BY <1>2, <1>3

(* rr_admit() of a thread that is not in the chain puts it last. *)
LEMMA ChainAdmit ==
  ASSUME NEW l, NEW q, NEW extra, Chain(l, q, extra), NEW t \in Thread, ~InSeq(t, q)
  PROVE  Chain(Admitted(l, t), Append(q, t), extra)
<1> DEFINE r == Admitted(l, t)
           p == Append(q, t)
<1>0. PICK n \in Nat : n = Len(q)
  BY DEF Chain
<1>1. /\ p \in Seq(Thread) /\ Len(p) = n + 1 /\ p[n + 1] = t
      /\ \A i \in 1..n : p[i] = q[i] /\ q[i] \in Thread /\ q[i] # t
  BY <1>0 DEF Chain, InSeq
<1>2. l \in List /\ l.next \in [Thread -> Link] /\ extra \in Nat /\ l.len = n + extra
  BY <1>0 DEF Chain, List
<1>3. r \in List
  BY <1>2, AdmittedIsList
<1>4. IsDistinct(p)
  <2>1. \A i, j \in 1..n : q[i] = q[j] => i = j
    BY <1>0 DEF Chain, IsDistinct
  <2>2. SUFFICES ASSUME NEW i \in 1..(n + 1), NEW j \in 1..(n + 1), p[i] = p[j]
                 PROVE  i = j
    BY <1>1 DEF IsDistinct
  <2>3. (i = n + 1 \/ i \in 1..n) /\ (j = n + 1 \/ j \in 1..n)
    OBVIOUS
  <2> QED BY <1>1, <2>1, <2>2, <2>3
<1>5. CASE n = 0
  <2>1. extra = 0 /\ l.len = 0
    BY <1>0, <1>2, <1>5 DEF Chain
  <2>2. r.head = t /\ r.tail = t /\ r.len = 1
    BY <2>1 DEF Admitted
  <2> QED BY <1>1, <1>3, <1>4, <1>5, <2>1, <2>2 DEF Chain
<1>6. CASE n # 0
  <2>1. l.tail = q[n] /\ l.head = q[1] /\ n \in 1..n /\ 1 \in 1..n /\ l.len # 0
    BY <1>0, <1>2, <1>6 DEF Chain
  <2>2. /\ r.head = q[1] /\ r.tail = t /\ r.len = l.len + 1
        /\ r.next = [l.next EXCEPT ![q[n]] = t]
    BY <2>1 DEF Admitted
  <2>3. ASSUME NEW i \in 1..n PROVE r.next[p[i]] = p[i + 1]
    <3>1. CASE i = n
      BY <3>1, <1>1, <1>2, <2>1, <2>2
    <3>2. CASE i # n
      <4>1. i \in 1..(n - 1) /\ i + 1 \in 1..n
        BY <3>2
      <4>2. l.next[q[i]] = q[i + 1] /\ q[i] # q[n]
        BY <1>0, <3>2, <4>1, <2>1 DEF Chain, IsDistinct
      <4> QED BY <4>1, <4>2, <1>1, <1>2, <2>2
    <3> QED BY <3>1, <3>2
  <2>4. r.head = p[1] /\ r.tail = p[n + 1] /\ r.len = (n + 1) + extra
    BY <1>1, <1>2, <2>1, <2>2
  <2> HIDE DEF r, p
  <2>5. Len(p) # 0 /\ Len(p) - 1 = n /\ r.len = Len(p) + extra
        /\ r.tail = p[Len(p)]
    BY <1>1, <2>4
  <2>6. Chain(r, p, extra)
    BY <1>1, <1>2, <1>3, <1>4, <2>3, <2>4, <2>5 DEF Chain
  <2> QED BY <2>6 DEF r, p
<1> QED BY <1>5, <1>6

(* rr_admit() of the last thread of a chain makes it one longer, and only  *)
(* that: the link it writes is behind the last thread.                     *)
LEMMA ChainReadmit ==
  ASSUME NEW l, NEW q, NEW extra, Chain(l, q, extra), Len(q) # 0
  PROVE  Chain(Admitted(l, q[Len(q)]), q, extra + 1)
<1> DEFINE t == q[Len(q)]
           r == Admitted(l, t)
<1>0. PICK n \in Nat : n = Len(q)
  BY DEF Chain
<1>1. /\ l \in List /\ l.next \in [Thread -> Link] /\ extra \in Nat /\ l.len = n + extra
      /\ \A i \in 1..n : q[i] \in Thread
  BY <1>0 DEF Chain, List
<1>2. t = q[n] /\ t \in Thread /\ l.tail = t /\ l.head = q[1] /\ l.len # 0
  BY <1>0, <1>1 DEF Chain
<1>3. r \in List
  BY <1>1, <1>2, AdmittedIsList
<1>4. /\ r.head = q[1] /\ r.tail = t /\ r.len = l.len + 1
      /\ r.next = [l.next EXCEPT ![t] = t]
  BY <1>2 DEF Admitted
<1>5. ASSUME NEW i \in 1..(n - 1) PROVE r.next[q[i]] = q[i + 1]
  <2>1. i \in 1..n /\ n \in 1..n /\ i # n
    OBVIOUS
  <2>2. q[i] # t /\ l.next[q[i]] = q[i + 1]
    BY <1>0, <1>2, <2>1 DEF Chain, IsDistinct
  <2> QED BY <1>1, <1>4, <2>1, <2>2
<1> HIDE DEF r, t
<1>6. /\ q \in Seq(Thread) /\ IsDistinct(q) /\ extra + 1 \in Nat
      /\ r.len = Len(q) + (extra + 1)
  BY <1>0, <1>1, <1>4 DEF Chain
<1> QED BY <1>0, <1>2, <1>3, <1>4, <1>5, <1>6 DEF Chain, r, t

(* The links and the memory of a thread that is not in the chain are its own. *)
LEMMA ChainElsewhere ==
  ASSUME NEW l, NEW q, NEW extra, Chain(l, q, extra), NEW t \in Thread, ~InSeq(t, q),
         NEW n \in Link, NEW p \in Link
  PROVE  Chain([l EXCEPT !.next[t] = n, !.prev[t] = p], q, extra)
<1> DEFINE f == [l.next EXCEPT ![t] = n]
           r == [l EXCEPT !.next[t] = n, !.prev[t] = p]
<1>1. l \in List /\ l.next \in [Thread -> Link]
      /\ \A i \in 1..Len(q) : q[i] \in Thread /\ q[i] # t
  BY DEF Chain, List, InSeq
<1>2. f \in [Thread -> Link] /\ \A i \in 1..Len(q) : f[q[i]] = l.next[q[i]]
  BY <1>1
<1>3. /\ r.head = l.head /\ r.tail = l.tail /\ r.len = l.len /\ r.next = f
      /\ r \in List
  BY <1>1 DEF List
<1> HIDE DEF r
<1>6. \A i \in 1..(Len(q) - 1) : r.next[q[i]] = q[i + 1]
  <2>1. Len(q) \in Nat
    BY DEF Chain
  <2>2. \A i \in 1..(Len(q) - 1) : i \in 1..Len(q)
    BY <2>1
  <2> QED BY <1>2, <1>3, <2>2 DEF Chain
<1>7. Chain(r, q, extra)
  BY <1>3, <1>6 DEF Chain
<1> QED BY <1>7 DEF r

LEMMA TurnedIsSeq ==
  ASSUME NEW q \in Seq(Thread), NEW n \in Nat, Len(q) = n, IsDistinct(q)
  PROVE  /\ Turned(q) \in Seq(Thread) /\ Len(Turned(q)) = n
         /\ \A i \in 1..n : Turned(q)[i] = IF i = n THEN q[1] ELSE q[i + 1]
         /\ IsDistinct(Turned(q))
         /\ \A t : InSeq(t, Turned(q)) <=> InSeq(t, q)
<1> DEFINE p == Turned(q)
<1>1. \A j \in 1..n : (IF j = n THEN q[1] ELSE q[j + 1]) \in Thread
  OBVIOUS
<1>2. p = [j \in 1..n |-> IF j = n THEN q[1] ELSE q[j + 1]]
  BY DEF Turned
<1>3. p \in [1..n -> Thread]
  BY <1>1, <1>2
<1>4. /\ p \in Seq(Thread) /\ Len(p) = n
      /\ \A i \in 1..n : p[i] = IF i = n THEN q[1] ELSE q[i + 1]
  BY <1>2, <1>3
<1> HIDE DEF p
<1>5. \A i, j \in 1..n : q[i] = q[j] => i = j
  BY DEF IsDistinct
<1>6. IsDistinct(p)
  <2>1. SUFFICES ASSUME NEW i \in 1..n, NEW j \in 1..n, p[i] = p[j] PROVE i = j
    BY <1>4 DEF IsDistinct
  <2>2. CASE i = n /\ j = n
    BY <2>2
  <2>3. CASE i = n /\ j # n
    <3>1. q[1] = q[j + 1] /\ 1 \in 1..n /\ j + 1 \in 1..n
      BY <1>4, <2>1, <2>3
    <3> QED BY <1>5, <3>1
  <2>4. CASE i # n /\ j = n
    <3>1. q[i + 1] = q[1] /\ 1 \in 1..n /\ i + 1 \in 1..n
      BY <1>4, <2>1, <2>4
    <3> QED BY <1>5, <3>1
  <2>5. CASE i # n /\ j # n
    <3>1. q[i + 1] = q[j + 1] /\ i + 1 \in 1..n /\ j + 1 \in 1..n
      BY <1>4, <2>1, <2>5
    <3>2. i + 1 = j + 1
      BY <1>5, <3>1
    <3> QED BY <3>2
  <2> QED BY <2>2, <2>3, <2>4, <2>5
<1>7. ASSUME NEW t PROVE InSeq(t, p) <=> InSeq(t, q)
  <2>1. ASSUME NEW i \in 1..n, p[i] = t PROVE \E j \in 1..n : q[j] = t
    <3>1. CASE i = n
      BY <1>4, <2>1, <3>1
    <3>2. CASE i # n
      BY <1>4, <2>1, <3>2
    <3> QED BY <3>1, <3>2
  <2>2. ASSUME NEW j \in 1..n, q[j] = t PROVE \E i \in 1..n : p[i] = t
    <3>1. CASE j = 1
      BY <1>4, <2>2, <3>1
    <3>2. CASE j # 1
      <4>1. j - 1 \in 1..n /\ j - 1 # n /\ (j - 1) + 1 = j
        BY <3>2
      <4> QED BY <1>4, <2>2, <4>1
    <3> QED BY <3>1, <3>2
  <2> QED BY <1>4, <2>1, <2>2 DEF InSeq
<1> QED BY <1>4, <1>6, <1>7 DEF p

(* rr_next() turns the chain. *)
LEMMA ChainRotate ==
  ASSUME NEW l, NEW q, NEW extra, Chain(l, q, extra), validate_ll(l), Len(q) # 0
  PROVE  Chain(Rotated(l), Turned(q), extra) /\ Served(l) = q[1]
<1> DEFINE r == Rotated(l)
           p == Turned(q)
<1>0. PICK n \in Nat : n = Len(q)
  BY DEF Chain
<1>1. /\ l \in List /\ l.next \in [Thread -> Link] /\ extra \in Nat /\ l.len = n + extra
      /\ \A i \in 1..n : q[i] \in Thread
      /\ n # 0 /\ l.len # 0 /\ l.head = q[1] /\ l.tail = q[n]
  BY <1>0 DEF Chain, List
<1>2. /\ p \in Seq(Thread) /\ Len(p) = n
      /\ \A i \in 1..n : p[i] = IF i = n THEN q[1] ELSE q[i + 1]
      /\ IsDistinct(p)
  BY <1>0, TurnedIsSeq DEF Chain
<1>3. r \in List
  BY <1>1, RotatedIsList
<1>4. Served(l) = q[1]
  BY <1>1 DEF Served
<1>5. CASE n = 1
  <2>0. ~(Len(q) = 1 /\ extra > 0)
    BY ChainValid
  <2>1. extra = 0 /\ l.len = 1
    BY <1>0, <1>1, <1>5, <2>0
  <2>2. r = l
    BY <2>1 DEF Rotated
  <2> HIDE DEF p, r
  <2>3. p = q
    <3>1. q \in Seq(Thread) /\ p \in Seq(Thread) /\ Len(p) = 1 /\ Len(q) = 1
      BY <1>0, <1>2, <1>5 DEF Chain
    <3>2. p[1] = q[1]
      BY <1>2, <1>5
    <3> QED BY <3>1, <3>2
  <2> QED BY <1>4, <2>2, <2>3 DEF p, r
<1>6. CASE n > 1
  <2>1. /\ 1 \in 1..(n - 1) /\ n \in 1..n /\ 1 \in 1..n /\ 2 \in 1..n
        /\ l.len \notin {0, 1}
    BY <1>1, <1>6
  <2>2. l.next[q[1]] = q[2]
    BY <1>0, <2>1 DEF Chain
  <2>3. /\ r.head = q[2] /\ r.tail = q[1] /\ r.len = l.len
        /\ r.next = [[l.next EXCEPT ![q[n]] = q[1]] EXCEPT ![q[1]] = NULL]
    BY <1>1, <2>1, <2>2 DEF Rotated
  <2>4. \A i, j \in 1..n : q[i] = q[j] => i = j
    BY <1>0 DEF Chain, IsDistinct
  <2>5. ASSUME NEW i \in 1..(n - 1) PROVE r.next[p[i]] = p[i + 1]
    <3>1. i \in 1..n /\ i + 1 \in 1..n /\ i # n /\ p[i] = q[i + 1] /\ q[i + 1] # q[1]
          /\ q[i + 1] \in Thread
      <4>1. i \in 1..n /\ i + 1 \in 1..n /\ i # n /\ i + 1 # 1
        OBVIOUS
      <4> QED BY <4>1, <1>1, <1>2, <2>1, <2>4
    <3>2. r.next[p[i]] = [l.next EXCEPT ![q[n]] = q[1]][q[i + 1]]
      BY <1>1, <2>1, <2>3, <3>1
    <3>3. CASE i + 1 = n
      BY <1>1, <1>2, <2>1, <3>1, <3>2, <3>3
    <3>4. CASE i + 1 # n
      <4>1. i + 1 \in 1..(n - 1) /\ (i + 1) + 1 = i + 2 /\ q[i + 1] # q[n]
        BY <3>1, <3>4, <2>1, <2>4
      <4>2. l.next[q[i + 1]] = q[i + 2]
        BY <1>0, <4>1 DEF Chain
      <4>3. p[i + 1] = q[i + 2]
        BY <1>2, <3>1, <3>4, <4>1
      <4> QED BY <1>1, <3>1, <3>2, <4>1, <4>2, <4>3
    <3> QED BY <3>3, <3>4
  <2>6. r.head = p[1] /\ r.tail = p[n]
    BY <1>2, <1>6, <2>1, <2>3
  <2> HIDE DEF p, r
  <2>7. Chain(r, p, extra)
    BY <1>1, <1>2, <1>3, <2>3, <2>5, <2>6 DEF Chain
  <2> QED BY <1>4, <2>7 DEF p, r
<1> QED BY <1>1, <1>5, <1>6

(* q without its first thread. *)
Rest(q) == [j \in 1..(Len(q) - 1) |-> q[j + 1]]

LEMMA RestIsSeq ==
  ASSUME NEW q \in Seq(Thread), NEW n \in Nat, Len(q) = n, n # 0
  PROVE  /\ Rest(q) \in Seq(Thread) /\ Len(Rest(q)) = n - 1
         /\ \A i \in 1..(n - 1) : Rest(q)[i] = q[i + 1]
<1> DEFINE p == Rest(q)
<1>1. p = [j \in 1..(n - 1) |-> q[j + 1]] /\ \A j \in 1..(n - 1) : q[j + 1] \in Thread
  BY DEF Rest
<1>2. p \in [1..(n - 1) -> Thread] /\ n - 1 \in Nat
  BY <1>1
<1> HIDE DEF p
<1>3. p \in Seq(Thread) /\ Len(p) = n - 1 /\ \A i \in 1..(n - 1) : p[i] = q[i + 1]
  BY <1>1, <1>2
<1> QED BY <1>3 DEF p

(* An iteration of the transfer takes the first thread out of the chain:    *)
(* rr_next() turns the chain, and rr_remove() cuts its last thread off,     *)
(* whose sched_prev is the only one that is read, and was just written.     *)
LEMMA ChainHandOver ==
  ASSUME NEW l, NEW q, NEW extra, Chain(l, q, extra), Len(q) # 0,
         Len(q) = 1 => extra = 0
  PROVE  Chain(Removed(Rotated(l), q[1]), Rest(q), extra)
<1> DEFINE r == Rotated(l)
           t == q[1]
           c == Removed(r, t)
           p == Rest(q)
<1>0. PICK n \in Nat : n = Len(q)
  BY DEF Chain
<1>1. /\ l \in List /\ l.next \in [Thread -> Link] /\ l.prev \in [Thread -> Link]
      /\ extra \in Nat /\ l.len = n + extra
      /\ \A i \in 1..n : q[i] \in Thread
      /\ n # 0 /\ l.len # 0 /\ l.head = t /\ l.tail = q[n] /\ 1 \in 1..n /\ n \in 1..n
      /\ t \in Thread
  BY <1>0 DEF Chain, List
<1>2. validate_ll(l)
  <2>1. validate_ll(l) <=> ~(Len(q) = 1 /\ extra > 0)
    BY ChainValid
  <2>2. ~(Len(q) = 1 /\ extra > 0)
    BY <1>1
  <2> QED BY <2>1, <2>2
<1>3. r \in List /\ c \in List
  BY <1>1, <1>2, RotatedIsList, RemovedIsList
<1>4. \A i, j \in 1..n : q[i] = q[j] => i = j
  BY <1>0 DEF Chain, IsDistinct
<1>5. p \in Seq(Thread) /\ Len(p) = n - 1 /\ \A i \in 1..(n - 1) : p[i] = q[i + 1]
  BY <1>0, <1>1, RestIsSeq DEF Chain
<1> HIDE DEF p
<1>6. IsDistinct(p)
  <2>1. SUFFICES ASSUME NEW i \in 1..(n - 1), NEW j \in 1..(n - 1), p[i] = p[j]
                 PROVE  i = j
    BY <1>5 DEF IsDistinct
  <2>2. i + 1 \in 1..n /\ j + 1 \in 1..n /\ q[i + 1] = q[j + 1]
    BY <1>5, <2>1
  <2>3. i + 1 = j + 1
    BY <1>4, <2>2
  <2> QED BY <2>3
<1>7. CASE n = 1
  <2>1. l.len = 1 /\ extra = 0
    BY <1>0, <1>1, <1>7
  <2>2. c.head = NULL /\ c.tail = NULL /\ c.len = 0
    BY <2>1 DEF Rotated, Removed, CutOut
  <2> HIDE DEF c, r
  <2>3. Chain(c, p, extra)
    BY <1>1, <1>3, <1>5, <1>6, <1>7, <2>1, <2>2 DEF Chain
  <2> QED BY <2>3 DEF c, r, p
<1>8. CASE n > 1
  <2>1. 1 \in 1..(n - 1) /\ 2 \in 1..n /\ l.len \notin {0, 1} /\ q[n] # t /\ q[2] # t
    BY <1>1, <1>4, <1>8
  <2>2. l.next[t] = q[2] /\ q[2] \in Thread /\ q[n] \in Thread
    BY <1>0, <1>1, <2>1 DEF Chain
  <2> DEFINE f == [[l.next EXCEPT ![q[n]] = t] EXCEPT ![t] = NULL]
             g == [[l.prev EXCEPT ![q[2]] = NULL] EXCEPT ![t] = q[n]]
  <2>3. r.head = q[2] /\ r.tail = t /\ r.len = l.len /\ r.next = f /\ r.prev = g
    BY <1>1, <2>1, <2>2 DEF Rotated
  <2>4. f \in [Thread -> Link] /\ g[t] = q[n]
        /\ \A u \in Thread : u # t => f[u] = IF u = q[n] THEN t ELSE l.next[u]
    BY <1>1, <2>1, <2>2 DEF Link
  <2> HIDE DEF f, g
  <2>5. CutOut(r, t) = [r EXCEPT !.tail = q[n], !.next = [f EXCEPT ![q[n]] = NULL]]
    BY <2>1, <2>3, <2>4 DEF CutOut
  <2>6. /\ c.head = q[2] /\ c.tail = q[n] /\ c.len = l.len - 1
        /\ c.next = [[f EXCEPT ![q[n]] = NULL] EXCEPT ![t] = NULL]
    <3> DEFINE o == CutOut(r, t)
    <3>1. o.head = q[2] /\ o.tail = q[n] /\ o.next = [f EXCEPT ![q[n]] = NULL]
      BY <1>3, <2>3, <2>5 DEF List
    <3> HIDE DEF o
    <3>2. c = [head |-> o.head, tail |-> o.tail, len |-> r.len - 1,
               next |-> [o.next EXCEPT ![t] = NULL],
               prev |-> [o.prev EXCEPT ![t] = NULL]]
      BY <2>1, <2>3 DEF Removed, o
    <3> QED BY <2>3, <3>1, <3>2
  <2>7. \A u \in Thread : u # t /\ u # q[n] => c.next[u] = l.next[u]
    BY <2>2, <2>4, <2>6
  <2>8. ASSUME NEW i \in 1..(n - 2) PROVE c.next[p[i]] = p[i + 1]
    <3>1. /\ i + 1 \in 1..n /\ i + 1 \in 1..(n - 1) /\ i \in 1..(n - 1)
          /\ (i + 1) + 1 = i + 2 /\ i + 1 # 1 /\ i + 1 # n
      BY <1>8
    <3>2. q[i + 1] \in Thread /\ q[i + 1] # t /\ q[i + 1] # q[n]
      BY <1>1, <1>4, <3>1
    <3>3. l.next[q[i + 1]] = q[i + 2]
      BY <1>0, <3>1 DEF Chain
    <3>4. p[i] = q[i + 1] /\ p[i + 1] = q[i + 2]
      BY <1>5, <3>1
    <3> QED BY <2>7, <3>2, <3>3, <3>4
  <2> HIDE DEF c, r
  <2>9. c.head = p[1] /\ c.tail = p[n - 1] /\ c.len = (n - 1) + extra
    <3>1. n - 1 \in 1..(n - 1) /\ (n - 1) + 1 = n /\ 1 + 1 = 2
      BY <1>8
    <3>2. p[1] = q[2] /\ p[n - 1] = q[n]
      BY <1>5, <2>1, <3>1
    <3>3. (n + extra) - 1 = (n - 1) + extra
      BY <1>1
    <3> QED BY <1>1, <2>6, <3>2, <3>3
  <2>10. (n - 1) - 1 = n - 2 /\ n - 1 # 0
    BY <1>8
  <2>11. Chain(c, p, extra)
    BY <1>1, <1>3, <1>5, <1>6, <2>8, <2>9, <2>10 DEF Chain
  <2> QED BY <2>11 DEF c, r, p
<1> QED BY <1>1, <1>7, <1>8

-----------------------------------------------------------------------------
(* The inductive invariant: the pids of live threads are different, and     *)
(* were all given out: a counter that only grows gives none of them again.  *)
Pids ==
  /\ pid \in [Thread -> Nat] /\ pid_cnt \in Nat
  /\ live \subseteq Thread \cup {Main}

PidsGiven ==
  \A t \in live \ {Main} : pid[t] \in 1..pid_cnt

IInv == Pids /\ PidsGiven /\ PidsUnique

(* The initial state has no thread (kproc.c:24-42). *)
LEMMA InitIInv == Init => IInv
  BY DEF Init, IInv, Pids, PidsGiven, PidsUnique

(* The main thread is not an element of Thread. *)
LEMMA MainIsNoThread == Main \notin Thread
  BY MainAssumption DEF Link

(* A creation gives the next pid (kproc.c:165-199). *)
LEMMA CreateKeepsIInv ==
  ASSUME NEW t \in Thread, IInv, PROC_create_kthread(t)
  PROVE  IInv'
<1>1. t \notin live /\ t # Main
  BY MainIsNoThread DEF PROC_create_kthread
<1>2. live' = live \cup {t} /\ pid_cnt' = pid_cnt + 1
      /\ pid' = [pid EXCEPT ![t] = pid_cnt + 1]
  BY DEF PROC_create_kthread
<1>3. Pids'
  BY <1>2 DEF IInv, Pids
<1>4. pid'[t] = pid_cnt + 1 /\ \A u \in live \ {Main} : pid'[u] = pid[u]
  BY <1>1, <1>2 DEF IInv, Pids
<1>5. \A u \in live \ {Main} : pid'[u] \in 1..pid_cnt
  BY <1>4 DEF IInv, PidsGiven
<1>6. PidsGiven'
  <2>1. SUFFICES ASSUME NEW u \in live' \ {Main}
                 PROVE  pid'[u] \in 1..pid_cnt'
    BY DEF PidsGiven
  <2>2. CASE u = t
    BY <2>2, <1>2, <1>4 DEF IInv, Pids
  <2>3. CASE u # t
    BY <2>1, <2>3, <1>2, <1>5 DEF IInv, Pids
  <2> QED BY <2>2, <2>3
<1>7. PidsUnique'
  <2>1. SUFFICES ASSUME NEW u \in live' \ {Main}, NEW v \in live' \ {Main}
                 PROVE  pid'[u] # 0 /\ (pid'[u] = pid'[v] => u = v)
    BY DEF PidsUnique
  <2>2. pid'[u] # 0
    BY <1>6 DEF PidsGiven
  <2>3. CASE u = t /\ v = t
    BY <2>2, <2>3
  <2>4. CASE u = t /\ v # t
    BY <2>1, <2>2, <2>4, <1>2, <1>4, <1>5 DEF IInv, Pids
  <2>5. CASE u # t /\ v = t
    BY <2>1, <2>2, <2>5, <1>2, <1>4, <1>5 DEF IInv, Pids
  <2>6. CASE u # t /\ v # t
    BY <2>1, <2>2, <2>6, <1>2, <1>4 DEF IInv, PidsUnique
  <2> QED BY <2>3, <2>4, <2>5, <2>6
<1> QED BY <1>3, <1>6, <1>7 DEF IInv

(* The other operations only take threads away, or add the main thread. *)
LEMMA NoNewThreadKeepsIInv ==
  ASSUME IInv, pid' = pid, pid_cnt' = pid_cnt, live' \subseteq live \cup {Main}
  PROVE  IInv'
  BY DEF IInv, Pids, PidsGiven, PidsUnique

LEMMA NextKeepsIInv == IInv /\ [Next]_vars => IInv'
<1> SUFFICES ASSUME IInv, [Next]_vars PROVE IInv'
  OBVIOUS
<1>1. ASSUME NEW t \in Thread, PROC_create_kthread(t) PROVE IInv'
  BY <1>1, CreateKeepsIInv
<1>2. ASSUME NEW t \in Thread, AdmitThread(t) PROVE IInv'
  BY <1>2, NoNewThreadKeepsIInv DEF AdmitThread
<1>3. CASE PROC_run
  BY <1>3, NoNewThreadKeepsIInv DEF PROC_run
<1>4. CASE PROC_reschedule
  BY <1>4, NoNewThreadKeepsIInv DEF PROC_reschedule, threads
<1>5. CASE kexit
  BY <1>5, NoNewThreadKeepsIInv DEF kexit
<1>6. CASE PROC_set_scheduler
  BY <1>6, NoNewThreadKeepsIInv DEF PROC_set_scheduler, InstallScheduler, ReplaceScheduler, threads
<1>7. CASE UNCHANGED vars
  BY <1>7, NoNewThreadKeepsIInv DEF vars, threads
<1> QED BY <1>1, <1>2, <1>3, <1>4, <1>5, <1>6, <1>7 DEF Next

(***************************************************************************)
(* Live threads never share a pid, nor have the pid of the main thread,    *)
(* whatever is created, destroyed and scheduled (kproc.c:38, 174, 227).    *)
(***************************************************************************)
THEOREM PidsStayUnique == Spec => []PidsUnique
<1>1. IInv => PidsUnique
  BY DEF IInv
<1> QED BY InitIInv, NextKeepsIInv, <1>1, PTL DEF Spec

-----------------------------------------------------------------------------
(***************************************************************************)
(* The scheduled threads.  As long as no thread was destroyed and none was *)
(* handed over, the pool is a chain of the scheduled threads, longer by    *)
(* the threads that PROC_run() admitted once more.                         *)
(***************************************************************************)
Members(q) == {q[i] : i \in 1..Len(q)}

Untouched == ~destroyed /\ other = <<>>

Pool(l, A, extra) == \E q : Chain(l, q, extra) /\ A = Members(q)

PoolInv ==
  /\ TypeOK
  /\ admitted \subseteq live
  /\ other # <<>> => ~Running
  /\ Untouched => Pool(list, admitted, reruns)

(* A sequence of distinct threads has as many members as elements. *)
LEMMA MembersCounted ==
  ASSUME NEW q \in Seq(Thread), IsDistinct(q)
  PROVE  IsFiniteSet(Members(q)) /\ Cardinality(Members(q)) = Len(q)
<1> DEFINE n == Len(q)
           A == Members(q)
           f == [i \in 1..n |-> q[i]]
<1>1. n \in Nat /\ IsFiniteSet(1..n) /\ Cardinality(1..n) = n
  <2>1. n \in Nat /\ 1 \in Int
    OBVIOUS
  <2> HIDE DEF n
  <2>2. IsFiniteSet(1..n) /\ Cardinality(1..n) = IF 1 > n THEN 0 ELSE n - 1 + 1
    BY <2>1, FS_Interval
  <2> QED BY <2>1, <2>2
<1>2. f \in Bijection(1..n, A)
  <2>1. f \in [1..n -> A] /\ \A a \in A : \E i \in 1..n : f[i] = a
    BY DEF Members
  <2>2. \A i, j \in 1..n : f[i] = f[j] => i = j
    BY DEF IsDistinct
  <2> QED BY <2>1, <2>2 DEF Bijection, Injection, Surjection, IsInjective
<1>3. ExistsBijection(1..n, A)
  BY <1>2 DEF ExistsBijection
<1> HIDE DEF A, n
<1>4. IsFiniteSet(A) /\ Cardinality(A) = Cardinality(1..n)
  BY <1>1, <1>3, FS_Bijection
<1> QED BY <1>1, <1>4 DEF A, n

(* The walk over the pool meets the scheduled threads. *)
LEMMA PoolWalk ==
  ASSUME NEW l, NEW q, NEW extra, Chain(l, q, extra)
  PROVE  /\ Cardinality(Members(q)) = Len(q)
         /\ Walk(l, Cardinality(Members(q))) = q
  BY ChainWalk, MembersCounted DEF Chain

(* The pool of an initial state is empty. *)
LEMMA InitPool == Init => PoolInv
<1> SUFFICES ASSUME Init PROVE PoolInv
  OBVIOUS
<1>1. TypeOK
  <2>1. list \in List
    BY DEF Init, EmptyList, List, Link
  <2>2. other \in Seq(Link \cup {Main})
    BY DEF Init
  <2>3. pid \in [Thread -> 0..MaxPid] /\ pid_cnt \in 0..MaxPid /\ reruns \in Nat
    BY BoundsAssumption DEF Init
  <2> QED BY <2>1, <2>2, <2>3 DEF Init, TypeOK, Link
<1>2. Chain(list, <<>>, 0) /\ {} = Members(<<>>)
  BY <1>1 DEF Init, TypeOK, EmptyList, Chain, IsDistinct, Members
<1>3. Pool(list, admitted, reruns)
  BY <1>2 DEF Init, Pool
<1> QED BY <1>1, <1>3 DEF PoolInv, Init

(* A record that is not scheduled may get any links (kproc.c:165-199). *)
LEMMA CreateKeepsPool ==
  ASSUME NEW t \in Thread, PoolInv, PROC_create_kthread(t)
  PROVE  PoolInv'
<1>1. PICK n \in Link, p \in Link : list' = [list EXCEPT !.next[t] = n, !.prev[t] = p]
  BY DEF PROC_create_kthread
<1>2. /\ t \notin admitted
      /\ live' = live \cup {t} /\ pid_cnt' = pid_cnt + 1
      /\ pid' = [pid EXCEPT ![t] = pid_cnt + 1] /\ pid_cnt < MaxPid
      /\ UNCHANGED <<halted, setup, curr, admitted, reruns, destroyed, active, replaced, other>>
  BY DEF PROC_create_kthread, PoolInv, transfer
<1>3. TypeOK'
  <2>1. list' \in List
    BY <1>1 DEF PoolInv, TypeOK, List
  <2>2. pid_cnt' \in 0..MaxPid /\ pid' \in [Thread -> 0..MaxPid]
    BY <1>2, BoundsAssumption DEF PoolInv, TypeOK
  <2> QED BY <1>2, <2>1, <2>2 DEF PoolInv, TypeOK
<1>4. Untouched' => Pool(list, admitted, reruns)'
  <2>1. SUFFICES ASSUME Untouched PROVE Pool(list', admitted, reruns)
    BY <1>2 DEF Untouched
  <2>2. PICK q : Chain(list, q, reruns) /\ admitted = Members(q)
    BY <2>1 DEF PoolInv, Pool
  <2>3. ~InSeq(t, q)
    BY <1>2, <2>2 DEF InSeq, Members
  <2>4. Chain(list', q, reruns)
    BY <1>1, <2>2, <2>3, ChainElsewhere
  <2> QED BY <2>2, <2>4 DEF Pool
<1> QED BY <1>2, <1>3, <1>4 DEF PoolInv, Running

(* rr_admit() of a thread that is not scheduled (ksched.c:68-95). *)
LEMMA PoolAdmit ==
  ASSUME NEW l, NEW A, NEW extra, Pool(l, A, extra), NEW t \in Thread, t \notin A
  PROVE  Pool(Admitted(l, t), A \cup {t}, extra)
<1>1. PICK q : Chain(l, q, extra) /\ A = Members(q)
  BY DEF Pool
<1>2. ~InSeq(t, q)
  BY <1>1 DEF InSeq, Members
<1>3. Chain(Admitted(l, t), Append(q, t), extra)
  BY <1>1, <1>2, ChainAdmit
<1>4. Members(Append(q, t)) = A \cup {t}
  <2>1. PICK n \in Nat : q \in Seq(Thread) /\ Len(q) = n
    BY <1>1 DEF Chain
  <2> DEFINE p == Append(q, t)
  <2>2. Len(p) = n + 1 /\ p[n + 1] = t /\ \A i \in 1..n : p[i] = q[i]
    BY <2>1
  <2> HIDE DEF p
  <2>3. 1..(n + 1) = (1..n) \cup {n + 1}
    OBVIOUS
  <2>4. Members(p) = {q[i] : i \in 1..n} \cup {t}
    BY <2>2, <2>3 DEF Members
  <2> QED BY <1>1, <2>1, <2>4 DEF Members, p
<1> QED BY <1>3, <1>4 DEF Pool

(* rr_next() on a pool that validate_ll() accepts (ksched.c:141-160). *)
LEMMA PoolRotate ==
  ASSUME NEW l, NEW A, NEW extra, Pool(l, A, extra), validate_ll(l)
  PROVE  Pool(Rotated(l), A, extra)
<1>1. PICK q : Chain(l, q, extra) /\ A = Members(q)
  BY DEF Pool
<1>2. CASE Len(q) = 0
  <2>1. l.len = 0
    BY <1>1, <1>2 DEF Chain
  <2> QED BY <2>1 DEF Rotated
<1>3. CASE Len(q) # 0
  <2>1. Chain(Rotated(l), Turned(q), extra)
    BY <1>1, <1>3, ChainRotate
  <2>2. PICK n \in Nat : q \in Seq(Thread) /\ Len(q) = n /\ IsDistinct(q)
    BY <1>1 DEF Chain
  <2>3. Len(Turned(q)) = n /\ \A t : InSeq(t, Turned(q)) <=> InSeq(t, q)
    BY <2>2, TurnedIsSeq
  <2>4. \A p, t : InSeq(t, p) <=> t \in Members(p)
    BY DEF InSeq, Members
  <2>5. Members(Turned(q)) = A
    BY <1>1, <2>3, <2>4
  <2> QED BY <2>1, <2>5 DEF Pool
<1> QED BY <1>2, <1>3

(* A thread is scheduled once, by its creator. *)
LEMMA AdmitKeepsPool ==
  ASSUME NEW t \in Thread, PoolInv, AdmitThread(t)
  PROVE  PoolInv'
<1>1. /\ UNCHANGED <<setup, live, pid, pid_cnt, curr, reruns, destroyed, active, replaced, other>>
      /\ t \in live \ admitted /\ Running
  BY DEF AdmitThread, transfer
<1>2. CASE validate_ll(list)
  <2>1. list' = Admitted(list, t) /\ admitted' = admitted \cup {t} /\ halted' = halted
    BY <1>2 DEF AdmitThread
  <2>2. TypeOK'
    <3>1. list' \in List
      BY <2>1, AdmittedIsList DEF PoolInv, TypeOK
    <3> QED BY <1>1, <2>1, <3>1 DEF PoolInv, TypeOK
  <2>3. Untouched => Pool(list', admitted', reruns)
    BY <1>1, <2>1, PoolAdmit DEF PoolInv
  <2> QED BY <1>1, <2>1, <2>2, <2>3 DEF PoolInv, Untouched, Running
<1>3. CASE ~validate_ll(list)
  <2>1. list' = list /\ admitted' = admitted /\ halted' = TRUE
    BY <1>3 DEF AdmitThread
  <2> QED BY <1>1, <2>1 DEF PoolInv, TypeOK, Untouched, Running
<1> QED BY <1>2, <1>3

(* What active_sched->next() does to the pool. *)
LEMMA RescheduleKeepsPool ==
  ASSUME TypeOK, Reschedule
  PROVE  /\ list' \in List /\ curr' \in Link \cup {Main} /\ halted' \in BOOLEAN
         /\ \A A, extra : Pool(list, A, extra) => Pool(list', A, extra)
<1>1. CASE validate_ll(list)
  <2>1. curr' = Served(list) /\ list' = Rotated(list) /\ halted' = halted
    BY <1>1 DEF Reschedule
  <2>2. list' \in List
    BY <1>1, <2>1, RotatedIsList DEF TypeOK
  <2>3. Served(list) \in Link
    BY DEF Served, TypeOK, List, Link
  <2> QED BY <1>1, <2>1, <2>2, <2>3, PoolRotate DEF TypeOK
<1>2. CASE ~validate_ll(list)
  BY <1>2 DEF Reschedule, TypeOK
<1> QED BY <1>1, <1>2

(* PROC_run() admits the thread it chose, which is the last of the chain,  *)
(* once more (kproc.c:142-163).                                            *)
LEMMA RunKeepsPool ==
  ASSUME PoolInv, PROC_run
  PROVE  PoolInv'
<1>1. /\ setup' = TRUE /\ Running
      /\ UNCHANGED <<pid, pid_cnt, admitted, destroyed, replaced, other>> /\ active' = TRUE
      /\ live' \in {live, live \cup {Main}}
  BY DEF PROC_run, transfer
<1>2. CASE ~validate_ll(list)
  <2>1. list' = list /\ reruns' = reruns /\ halted' = TRUE /\ curr' \in {curr, Main}
    BY <1>2 DEF PROC_run
  <2> QED BY <1>1, <2>1 DEF PoolInv, TypeOK, Untouched, Running
<1>3. CASE validate_ll(list) /\ Served(list) = NULL
  <2>1. list' = list /\ reruns' = reruns /\ halted' = halted /\ curr' = NULL
    BY <1>3 DEF PROC_run
  <2> QED BY <1>1, <2>1 DEF PoolInv, TypeOK, Untouched, Running, Link
<1>4. CASE validate_ll(list) /\ Served(list) # NULL
  <2> DEFINE chosen == Rotated(list)
  <2>1. /\ curr' = Served(list)
        /\ IF validate_ll(chosen)
           THEN list' = Admitted(chosen, curr') /\ reruns' = reruns + 1 /\ halted' = halted
           ELSE list' = chosen /\ halted' = TRUE /\ reruns' = reruns
    BY <1>4 DEF PROC_run
  <2>2. curr' \in Thread
    BY <1>4, <2>1 DEF Served, PoolInv, TypeOK, List, Link
  <2>3. chosen \in List
    BY <1>4, RotatedIsList DEF PoolInv, TypeOK
  <2>4. TypeOK'
    <3>1. list' \in List
      BY <2>1, <2>2, <2>3, AdmittedIsList
    <3>2. reruns' \in Nat /\ halted' \in BOOLEAN
      <4>1. reruns \in Nat /\ halted \in BOOLEAN
        BY DEF PoolInv, TypeOK
      <4>2. CASE validate_ll(chosen)
        BY <2>1, <4>1, <4>2
      <4>3. CASE ~validate_ll(chosen)
        BY <2>1, <4>1, <4>3
      <4> QED BY <4>2, <4>3
    <3> QED BY <1>1, <2>2, <3>1, <3>2 DEF PoolInv, TypeOK, Link
  <2>5. ASSUME Untouched PROVE Pool(list', admitted, reruns')
    <3>1. PICK q : Chain(list, q, reruns) /\ admitted = Members(q)
      BY <2>5 DEF PoolInv, Pool
    <3>2. Len(q) # 0
      BY <3>1, <1>4 DEF Chain, Served
    <3>3. Chain(chosen, Turned(q), reruns) /\ Served(list) = q[1]
      BY <1>4, <3>1, <3>2, ChainRotate
    <3>4. PICK n \in Nat : q \in Seq(Thread) /\ Len(q) = n /\ IsDistinct(q)
      BY <3>1 DEF Chain
    <3>5. /\ Len(Turned(q)) = n /\ Turned(q)[n] = q[1]
          /\ \A t : InSeq(t, Turned(q)) <=> InSeq(t, q)
      <4>1. n \in 1..n
        BY <3>2, <3>4
      <4> QED BY <3>4, <4>1, TurnedIsSeq
    <3>6. admitted = Members(Turned(q))
      <4>1. \A p, t : InSeq(t, p) <=> t \in Members(p)
        BY DEF InSeq, Members
      <4> QED BY <3>1, <3>5, <4>1
    <3>7. CASE validate_ll(chosen)
      <4>1. Chain(Admitted(chosen, curr'), Turned(q), reruns + 1)
        BY <2>1, <3>2, <3>3, <3>4, <3>5, ChainReadmit
      <4> QED BY <2>1, <3>6, <3>7, <4>1 DEF Pool
    <3>8. CASE ~validate_ll(chosen)
      BY <2>1, <3>3, <3>6, <3>8 DEF Pool
    <3> QED BY <3>7, <3>8
  <2> QED BY <1>1, <2>4, <2>5 DEF PoolInv, Untouched, Running
<1> QED BY <1>2, <1>3, <1>4

(* yield() only turns the pool (kproc.c:202-216). *)
LEMMA YieldKeepsPool ==
  ASSUME PoolInv, PROC_reschedule
  PROVE  PoolInv'
<1>1. /\ UNCHANGED <<setup, live, pid, pid_cnt, admitted, reruns, destroyed, active, replaced, other>>
      /\ Running /\ TypeOK /\ Reschedule
  BY DEF PROC_reschedule, threads, transfer, PoolInv
<1>2. /\ list' \in List /\ curr' \in Link \cup {Main} /\ halted' \in BOOLEAN
      /\ \A A, extra : Pool(list, A, extra) => Pool(list', A, extra)
  BY <1>1, RescheduleKeepsPool
<1> QED BY <1>1, <1>2 DEF PoolInv, TypeOK, Untouched, Running

(* kexit() of the main thread leaves the pool complete (kproc.c:227-246). *)
LEMMA ExitKeepsPool ==
  ASSUME PoolInv, kexit
  PROVE  PoolInv'
<1>1. /\ UNCHANGED <<setup, pid, pid_cnt, reruns, active, replaced, other>>
      /\ Running /\ TypeOK /\ Reschedule
      /\ live' = live \ {curr} /\ admitted' = admitted \ {curr}
      /\ destroyed' = (destroyed \/ curr # Main)
  BY DEF kexit, transfer, PoolInv
<1>2. /\ list' \in List /\ curr' \in Link \cup {Main} /\ halted' \in BOOLEAN
      /\ \A A, extra : Pool(list, A, extra) => Pool(list', A, extra)
  BY <1>1, RescheduleKeepsPool
<1>3. TypeOK'
  BY <1>1, <1>2 DEF TypeOK
<1>4. Untouched' => Untouched /\ admitted' = admitted
  BY <1>1, MainIsNoThread DEF Untouched, TypeOK
<1> QED BY <1>1, <1>2, <1>3, <1>4 DEF PoolInv, Running

-----------------------------------------------------------------------------
(***************************************************************************)
(* ReplaceScheduler().  The states of its loop are those of HandOver.    *)
(***************************************************************************)
LoopState == [list : List, other : Seq(Link \cup {Main}), halted : BOOLEAN]

(* The current thread is handed over before the loop. *)
First == IF curr = NULL THEN <<>> ELSE <<curr>>

(* f is the sequence of the states of the loop, and the call leaves the last. *)
Loop(f) ==
  /\ f \in [0..(list.len + 1) -> LoopState]
  /\ f[0] = [list |-> list, other |-> First, halted |-> FALSE]
  /\ \A k \in 1..(list.len + 1) : f[k] = HandOver(f[k - 1])
  /\ list' = f[list.len + 1].list
  /\ other' = f[list.len + 1].other
  /\ halted' = f[list.len + 1].halted
  /\ replaced' = ~f[list.len + 1].halted

(* An iteration keeps the types (kproc.c:88-101). *)
LEMMA HandOverTyped ==
  ASSUME NEW s \in LoopState
  PROVE  HandOver(s) \in LoopState
<1>1. s.list \in List /\ s.other \in Seq(Link \cup {Main}) /\ s.halted \in BOOLEAN
  BY DEF LoopState
<1>2. CASE s.halted \/ ~validate_ll(s.list)
  BY <1>1, <1>2 DEF HandOver, LoopState
<1>3. CASE ~s.halted /\ validate_ll(s.list) /\ Served(s.list) = NULL
  BY <1>1, <1>3 DEF HandOver
<1>4. CASE ~s.halted /\ validate_ll(s.list) /\ Served(s.list) # NULL
  <2> DEFINE th == Served(s.list)
             left == Rotated(s.list)
             kept == IF validate_ll(left) THEN Removed(left, th) ELSE left
  <2>1. th \in Thread
    BY <1>1, <1>4 DEF Served, List, Link
  <2>2. left \in List
    BY <1>1, <1>4, RotatedIsList
  <2>3. kept \in List
    BY <2>1, <2>2, RemovedIsList
  <2>4. Append(s.other, th) \in Seq(Link \cup {Main})
    BY <1>1, <2>1 DEF Link
  <2>5. HandOver(s) = [list |-> kept, other |-> Append(s.other, th),
                       halted |-> ~validate_ll(left)]
    BY <1>4 DEF HandOver
  <2>6. (~validate_ll(left)) \in BOOLEAN
    OBVIOUS
  <2> HIDE DEF kept, th, left
  <2> QED BY <2>3, <2>4, <2>5, <2>6 DEF LoopState
<1> QED BY <1>2, <1>3, <1>4

(* The loop has a sequence of states. *)
LEMMA LoopExists ==
  ASSUME TypeOK, ReplaceScheduler
  PROVE  \E f : Loop(f)
<1> DEFINE n == list.len + 1
           s0 == [list |-> list, other |-> First, halted |-> FALSE]
           Step == [k \in 0..n |-> [s \in LoopState |-> HandOver(s)]]
           States(f) == [k \in 0..n |-> IF k = 0 THEN s0 ELSE HandOver(f[k - 1])]
           after == CHOOSE f : f = States(f)
<1>1. n \in Nat /\ n \in Int /\ 0 \in Int /\ 0 <= n /\ n \in 0..n /\ 0 \in 0..n
  BY DEF TypeOK, List
<1>2. s0 \in LoopState
  <2>1. First \in Seq(Link \cup {Main})
    <3>1. CASE curr = NULL
      BY <3>1 DEF First
    <3>2. CASE curr # NULL
      BY <3>2 DEF First, TypeOK
    <3> QED BY <3>1, <3>2
  <2> QED BY <2>1 DEF TypeOK, LoopState
<1>3. Stepwise(Step, 0, n, LoopState)
  <2>1. \A k \in (0 + 1)..n : k \in 0..n
    OBVIOUS
  <2> QED BY <2>1, HandOverTyped DEF Stepwise
<1>4. list' = after[n].list /\ other' = after[n].other
      /\ halted' = after[n].halted /\ replaced' = ~after[n].halted
  BY DEF ReplaceScheduler, First
<1> HIDE DEF n, s0, Step
<1>5. PICK f : Follows(f, 0, n, LoopState, s0, Step)
  BY <1>1, <1>2, <1>3, PrimitiveRecursion
<1>6. ASSUME NEW k \in 1..n PROVE f[k] = HandOver(f[k - 1])
  <2>1. k \in (0 + 1)..n /\ k \in 0..n /\ k - 1 \in 0..n
    BY <1>1
  <2> QED BY <1>5, <2>1 DEF Step, Follows
<1>7. f = States(f)
  <2>1. \A k \in 0..n : k # 0 => k \in 1..n
    BY <1>1
  <2> QED BY <1>5, <1>6, <2>1 DEF Follows
<1>8. after = States(after)
  BY <1>7
<1> HIDE DEF after
<1>9. \A k \in 0..n : after[k] = f[k]
  <2> DEFINE T == {k \in 0..n : after[k] = f[k]}
  <2>1. 0 \in T
    BY <1>1, <1>5, <1>8 DEF Follows
  <2>2. ASSUME NEW k \in 0..(n - 1), k \in T PROVE k + 1 \in T
    <3>1. k + 1 \in 1..n /\ k + 1 \in 0..n /\ (k + 1) - 1 = k /\ k + 1 # 0
      BY <1>1
    <3>2. after[k + 1] = HandOver(after[k])
      BY <1>8, <3>1
    <3> QED BY <1>6, <2>2, <3>1, <3>2
  <2> HIDE DEF T
  <2>3. \A k \in 0..n : k \in T
    BY <1>1, <2>1, <2>2, IntervalInduction
  <2> QED BY <2>3 DEF T
<1> QED BY <1>1, <1>4, <1>5, <1>6, <1>9 DEF Loop, Follows, n, s0

(* The call halts or replaces the scheduler; a call that hands nothing over *)
(* leaves the pool alone.                                                   *)
LEMMA TransferKeepsPool ==
  ASSUME PoolInv, ReplaceScheduler
  PROVE  PoolInv'
<1>1. PICK f : Loop(f)
  BY LoopExists DEF PoolInv
<1> DEFINE n == list.len + 1
<1>2. /\ n \in Nat /\ n \in Int /\ 0 \in Int /\ n \in 0..n /\ 0 \in 0..n
      /\ f \in [0..n -> LoopState]
      /\ f[0] = [list |-> list, other |-> First, halted |-> FALSE]
      /\ \A k \in 1..n : f[k] = HandOver(f[k - 1])
      /\ list' = f[n].list /\ other' = f[n].other
      /\ halted' = f[n].halted /\ replaced' = ~f[n].halted
  BY <1>1 DEF Loop, PoolInv, TypeOK, List
<1>3. UNCHANGED <<setup, curr, live, pid, pid_cnt, admitted, reruns, destroyed, active>>
      /\ Running
  BY DEF ReplaceScheduler, threads
<1> HIDE DEF n
<1>4. f[n] \in LoopState
  BY <1>2
<1>5. TypeOK'
  <2>1. list' \in List /\ other' \in Seq(Link \cup {Main}) /\ halted' \in BOOLEAN
        /\ replaced' \in BOOLEAN
    BY <1>2, <1>4 DEF LoopState
  <2> QED BY <1>3, <2>1 DEF PoolInv, TypeOK
<1>6. ~Running'
  BY <1>2 DEF Running
<1>7. other' = <<>> => list' = list /\ other = <<>>
  <2> DEFINE T == {k \in 0..n : f[k].other = <<>> => f[k].list = list}
  <2>1. 0 \in T
    BY <1>2
  <2>2. ASSUME NEW k \in 0..(n - 1), k \in T PROVE k + 1 \in T
    <3>1. k \in 0..n /\ k + 1 \in 0..n /\ f[k + 1] = HandOver(f[k]) /\ f[k] \in LoopState
      <4>1. k \in 0..n /\ k + 1 \in 1..n /\ k + 1 \in 0..n /\ (k + 1) - 1 = k
        BY <1>2
      <4> QED BY <1>2, <4>1
    <3> DEFINE s == f[k]
               th == Served(s.list)
    <3> HIDE DEF s, th
    <3>2. s.other \in Seq(Link \cup {Main}) /\ f[k + 1] = HandOver(s)
          /\ (s.other = <<>> => s.list = list)
          /\ s = [list |-> s.list, other |-> s.other, halted |-> s.halted]
      BY <2>2, <3>1 DEF s, LoopState
    <3>3. CASE s.halted \/ ~validate_ll(s.list)
      BY <3>1, <3>2, <3>3 DEF HandOver
    <3>4. CASE ~(s.halted \/ ~validate_ll(s.list)) /\ th = NULL
      BY <3>1, <3>2, <3>4 DEF HandOver, th
    <3>5. CASE ~(s.halted \/ ~validate_ll(s.list)) /\ th # NULL
      <4>1. f[k + 1].other = Append(s.other, th)
        BY <3>2, <3>5 DEF HandOver, th
      <4>2. Len(Append(s.other, th)) = Len(s.other) + 1 /\ Len(s.other) \in Nat
        BY <3>2
      <4>3. Append(s.other, th) # <<>>
        <5> DEFINE p == Append(s.other, th)
        <5>1. Len(p) # Len(<<>>)
          BY <4>2
        <5> HIDE DEF p
        <5>2. p # <<>>
          BY <5>1
        <5> QED BY <5>2 DEF p
      <4> QED BY <3>1, <4>1, <4>3
    <3> QED BY <3>3, <3>4, <3>5
  <2> HIDE DEF T
  <2>3. \A k \in 0..n : k \in T
    BY <1>2, <2>1, <2>2, IntervalInduction
  <2>4. n \in T
    BY <1>2, <2>3
  <2>5. other = <<>>
    BY <1>3 DEF PoolInv
  <2> QED BY <1>2, <2>4, <2>5 DEF T
<1>8. Untouched' => Pool(list', admitted', reruns')
  BY <1>3, <1>7 DEF Untouched, PoolInv
<1> QED BY <1>3, <1>5, <1>6, <1>8 DEF PoolInv

(* Without a transfer the pool stays (kproc.c:55-68). *)
LEMMA InstallKeepsPool ==
  ASSUME PoolInv, InstallScheduler
  PROVE  PoolInv'
<1>1. /\ UNCHANGED <<list, halted, setup, curr, live, pid, pid_cnt, admitted, reruns,
                     destroyed, other>>
      /\ active' \in BOOLEAN /\ replaced' \in BOOLEAN /\ other = <<>>
  BY DEF InstallScheduler, threads, PoolInv
<1> QED BY <1>1 DEF PoolInv, TypeOK, Untouched

LEMMA NextKeepsPool == PoolInv /\ [Next]_vars => PoolInv'
<1> SUFFICES ASSUME PoolInv, [Next]_vars PROVE PoolInv'
  OBVIOUS
<1>1. ASSUME NEW t \in Thread, PROC_create_kthread(t) PROVE PoolInv'
  BY <1>1, CreateKeepsPool
<1>2. ASSUME NEW t \in Thread, AdmitThread(t) PROVE PoolInv'
  BY <1>2, AdmitKeepsPool
<1>3. CASE PROC_run
  BY <1>3, RunKeepsPool
<1>4. CASE PROC_reschedule
  BY <1>4, YieldKeepsPool
<1>5. CASE kexit
  BY <1>5, ExitKeepsPool
<1>6. CASE PROC_set_scheduler
  BY <1>6, InstallKeepsPool, TransferKeepsPool DEF PROC_set_scheduler
<1>7. CASE UNCHANGED vars
  BY <1>7 DEF vars, threads, transfer, PoolInv, TypeOK, Untouched, Running
<1> QED BY <1>1, <1>2, <1>3, <1>4, <1>5, <1>6, <1>7 DEF Next

LEMMA PoolAlways == Spec => []PoolInv
  BY InitPool, NextKeepsPool, PTL DEF Spec

(***************************************************************************)
(* Until a thread is destroyed or handed over, the list meets every        *)
(* scheduled thread, and no other, however often PROC_run() admitted one   *)
(* again (kproc.c:142-163).                                                *)
(***************************************************************************)
THEOREM RotationStaysComplete == Spec => []RotationComplete
<1>1. ASSUME PoolInv PROVE RotationComplete
  <2>1. SUFFICES ASSUME Untouched
                 PROVE  {Walk(list, Cardinality(admitted))[i] :
                           i \in 1..Cardinality(admitted)} = admitted
    BY <1>1 DEF RotationComplete, PoolInv, Untouched
  <2>2. PICK q : Chain(list, q, reruns) /\ admitted = Members(q)
    BY <1>1, <2>1 DEF PoolInv, Pool
  <2>3. Cardinality(admitted) = Len(q) /\ Walk(list, Cardinality(admitted)) = q
    BY <2>2, PoolWalk
  <2> QED BY <2>2, <2>3 DEF Members
<1> QED BY <1>1, PoolAlways, PTL

-----------------------------------------------------------------------------
(* An iteration on a chain that validate_ll() accepts hands its first      *)
(* thread over (kproc.c:88-101).                                           *)
LEMMA HandOverFirst ==
  ASSUME NEW s, NEW q, NEW extra, ~s.halted, Chain(s.list, q, extra), Len(q) # 0,
         Len(q) = 1 => extra = 0
  PROVE  /\ ~HandOver(s).halted
         /\ HandOver(s).other = Append(s.other, q[1])
         /\ Chain(HandOver(s).list, Rest(q), extra)
<1> DEFINE l == s.list
           left == Rotated(l)
<1>1. PICK n \in Nat : q \in Seq(Thread) /\ Len(q) = n /\ IsDistinct(q)
  BY DEF Chain
<1>2. q[1] \in Thread /\ q[1] # NULL
  BY <1>1, NullAssumption
<1>3. validate_ll(l)
  <2>1. validate_ll(l) <=> ~(Len(q) = 1 /\ extra > 0)
    BY ChainValid
  <2>2. ~(Len(q) = 1 /\ extra > 0)
    OBVIOUS
  <2> QED BY <2>1, <2>2
<1>4. Chain(left, Turned(q), extra) /\ Served(l) = q[1]
  BY <1>3, ChainRotate
<1>5. validate_ll(left)
  <2>1. Len(Turned(q)) = n
    BY <1>1, TurnedIsSeq
  <2>2. validate_ll(left) <=> ~(n = 1 /\ extra > 0)
    BY <1>4, <2>1, ChainValid
  <2>3. ~(n = 1 /\ extra > 0)
    BY <1>1
  <2> QED BY <2>2, <2>3
<1>6. Chain(Removed(left, q[1]), Rest(q), extra)
  BY ChainHandOver
<1>7. HandOver(s) = [list |-> Removed(left, q[1]), other |-> Append(s.other, q[1]),
                     halted |-> FALSE]
  BY <1>2, <1>3, <1>4, <1>5 DEF HandOver
<1> QED BY <1>6, <1>7

(* The loop on a chain of n threads: after k iterations that were accepted *)
(* it has handed over the first k threads, in their order.                 *)
HandedOver(s, q, k, extra) ==
  /\ ~s.halted
  /\ \E p \in Seq(Thread) :
       /\ Chain(s.list, p, extra)
       /\ Len(p) = Len(q) - k
       /\ \A i \in 1..(Len(q) - k) : p[i] = q[k + i]
  /\ Len(s.other) = Len(First) + k
  /\ s.other \in Seq(Link \cup {Main})
  /\ \A i \in 1..Len(First) : s.other[i] = First[i]
  /\ \A i \in 1..k : s.other[Len(First) + i] = q[i]

LEMMA HandedOverStep ==
  ASSUME NEW s \in LoopState, NEW q \in Seq(Thread), NEW k \in 0..(Len(q) - 1), NEW extra,
         First \in Seq(Link \cup {Main}),
         HandedOver(s, q, k, extra), k = Len(q) - 1 => extra = 0
  PROVE  HandedOver(HandOver(s), q, k + 1, extra)
<1> DEFINE n == Len(q)
           m == Len(First)
           r == HandOver(s)
<1>1. PICK p \in Seq(Thread) :
        /\ Chain(s.list, p, extra) /\ Len(p) = n - k
        /\ \A i \in 1..(n - k) : p[i] = q[k + i]
  BY DEF HandedOver
<1>2. n \in Nat /\ m \in Nat /\ k \in Nat /\ n - k \in Nat /\ n - k # 0
      /\ (n - k = 1 => extra = 0) /\ ~s.halted
  BY DEF HandedOver
<1>3. /\ ~r.halted /\ r.other = Append(s.other, p[1])
      /\ Chain(r.list, Rest(p), extra)
  <2>1. ~s.halted /\ Chain(s.list, p, extra) /\ Len(p) # 0 /\ (Len(p) = 1 => extra = 0)
    BY <1>1, <1>2
  <2> QED BY <2>1, HandOverFirst
<1>4. p[1] = q[k + 1] /\ p[1] \in Thread
  BY <1>1, <1>2
<1>5. /\ Rest(p) \in Seq(Thread) /\ Len(Rest(p)) = n - (k + 1)
      /\ \A i \in 1..(n - (k + 1)) : Rest(p)[i] = q[(k + 1) + i]
  <2>1. /\ Rest(p) \in Seq(Thread) /\ Len(Rest(p)) = (n - k) - 1
        /\ \A i \in 1..((n - k) - 1) : Rest(p)[i] = p[i + 1]
    BY <1>1, <1>2, RestIsSeq
  <2>2. (n - k) - 1 = n - (k + 1)
    BY <1>2
  <2>3. \A j \in 1..(n - (k + 1)) : j + 1 \in 1..(n - k) /\ k + (j + 1) = (k + 1) + j
    BY <1>2
  <2>4. \A j \in 1..(n - (k + 1)) : p[j + 1] = q[(k + 1) + j]
    BY <1>1, <2>3
  <2> QED BY <2>1, <2>2, <2>4
<1>6. /\ r.other \in Seq(Link \cup {Main}) /\ Len(r.other) = m + (k + 1)
      /\ \A i \in 1..(m + k) : r.other[i] = s.other[i]
      /\ r.other[m + (k + 1)] = q[k + 1]
  <2>1. s.other \in Seq(Link \cup {Main}) /\ Len(s.other) = m + k
        /\ p[1] \in Link \cup {Main} /\ (m + k) + 1 = m + (k + 1)
    BY <1>2, <1>4 DEF HandedOver, Link
  <2> QED BY <1>3, <1>4, <2>1
<1>7. \A i \in 1..m : r.other[i] = First[i]
  <2>1. \A i \in 1..m : i \in 1..(m + k)
    BY <1>2
  <2> QED BY <1>6, <2>1 DEF HandedOver
<1>8. ASSUME NEW i \in 1..(k + 1) PROVE r.other[m + i] = q[i]
  <2>1. CASE i = k + 1
    BY <1>6, <2>1
  <2>2. CASE i # k + 1
    <3>1. i \in 1..k /\ m + i \in 1..(m + k)
      BY <1>2, <2>2
    <3> QED BY <1>6, <3>1 DEF HandedOver
  <2> QED BY <2>1, <2>2
<1> HIDE DEF r
<1>9. HandedOver(r, q, k + 1, extra)
  BY <1>3, <1>5, <1>6, <1>7, <1>8 DEF HandedOver
<1> QED BY <1>9 DEF r

(* The whole call, until a thread is destroyed (kproc.c:52-104). *)
LEMMA TransferOfChain ==
  ASSUME PoolInv, ReplaceScheduler, NEW q \in Seq(Thread), Chain(list, q, reruns)
  PROVE  IF reruns = 0
         THEN replaced' /\ QueueOf(list') = <<>> /\ other' = First \o q
         ELSE halted'
<1> DEFINE n == Len(q)
           m == Len(First)
<1>1. PICK f : Loop(f)
  BY LoopExists DEF PoolInv
<1>2. /\ n \in Nat /\ reruns \in Nat /\ list.len = n + reruns
      /\ f \in [0..(n + reruns + 1) -> LoopState]
      /\ f[0] = [list |-> list, other |-> First, halted |-> FALSE]
      /\ \A k \in 1..(n + reruns + 1) : f[k] = HandOver(f[k - 1])
      /\ list' = f[n + reruns + 1].list /\ other' = f[n + reruns + 1].other
      /\ halted' = f[n + reruns + 1].halted /\ replaced' = ~f[n + reruns + 1].halted
  <2>1. n \in Nat /\ reruns \in Nat /\ list.len = n + reruns
    BY DEF Chain
  <2> QED BY <1>1, <2>1 DEF Loop
<1>3. First \in Seq(Link \cup {Main}) /\ m \in Nat
  <2>1. CASE curr = NULL
    BY <2>1 DEF First
  <2>2. CASE curr # NULL
    BY <2>2 DEF First, PoolInv, TypeOK
  <2> QED BY <2>1, <2>2
<1>4. HandedOver(f[0], q, 0, reruns)
  <2>1. Len(q) - 0 = Len(q) /\ \A i \in 1..Len(q) : q[i] = q[0 + i]
    BY <1>2
  <2>2. f[0].list = list /\ f[0].other = First /\ f[0].halted = FALSE
        /\ Len(First) + 0 = Len(First)
    BY <1>2, <1>3
  <2> QED BY <1>3, <2>1, <2>2 DEF HandedOver
<1> HIDE DEF n, m
<1>5. ASSUME NEW b \in 0..n, b = n => reruns = 0
      PROVE  HandedOver(f[b], q, b, reruns)
  <2> DEFINE T == {k \in 0..b : HandedOver(f[k], q, k, reruns)}
  <2>1. 0 \in Int /\ b \in Int /\ 0 \in T
    BY <1>2, <1>4
  <2>2. ASSUME NEW k \in 0..(b - 1), k \in T PROVE k + 1 \in T
    <3>1. /\ k + 1 \in 0..b /\ k + 1 \in 1..(n + reruns + 1) /\ (k + 1) - 1 = k
          /\ k \in 0..(n - 1) /\ k \in 0..(n + reruns + 1)
          /\ (k = n - 1 => b = n)
      BY <1>2
    <3>2. f[k] \in LoopState /\ f[k + 1] = HandOver(f[k]) /\ HandedOver(f[k], q, k, reruns)
      BY <1>2, <2>2, <3>1
    <3>3. HandedOver(HandOver(f[k]), q, k + 1, reruns)
      BY <1>3, <1>5, <3>1, <3>2, HandedOverStep DEF n
    <3> QED BY <3>1, <3>2, <3>3
  <2> HIDE DEF T
  <2>3. \A k \in 0..b : k \in T
    BY <2>1, <2>2, IntervalInduction
  <2>4. b \in 0..b
    BY <1>2
  <2> QED BY <2>3, <2>4 DEF T
<1>6. CASE reruns = 0
  <2>1. HandedOver(f[n], q, n, 0)
    <3>1. n \in 0..n
      BY <1>2
    <3> QED BY <1>5, <1>6, <3>1
  <2>2. PICK p \in Seq(Thread) : Chain(f[n].list, p, 0) /\ Len(p) = 0
    <3>1. PICK p \in Seq(Thread) : Chain(f[n].list, p, 0) /\ Len(p) = Len(q) - n
      BY <2>1 DEF HandedOver
    <3>2. Len(q) - n = 0
      BY <1>2 DEF n
    <3> QED BY <3>1, <3>2
  <2>3. f[n].list.len = 0 /\ QueueOf(f[n].list) = <<>>
    <3>1. f[n].list.len = 0
      BY <2>2 DEF Chain
    <3>2. Walk(f[n].list, 0) = p
      BY <2>2, ChainWalk
    <3>3. p = <<>>
      BY <2>2
    <3> QED BY <3>1, <3>2, <3>3 DEF QueueOf
  <2>4. f[n + 1] = f[n]
    <3>1. f[n + 1] = HandOver(f[n])
      <4>1. n + 1 \in 1..(n + reruns + 1) /\ (n + 1) - 1 = n
        BY <1>2
      <4> QED BY <1>2, <4>1
    <3>2. validate_ll(f[n].list)
      <4>1. validate_ll(f[n].list) <=> ~(Len(p) = 1 /\ 0 > 0)
        BY <2>2, ChainValid
      <4> QED BY <4>1
    <3>3. Served(f[n].list) = NULL /\ ~f[n].halted
      BY <2>1, <2>3 DEF Served, HandedOver
    <3> QED BY <3>1, <3>2, <3>3 DEF HandOver
  <2>5. n + reruns + 1 = n + 1
    BY <1>2, <1>6
  <2>6. other' = First \o q
    <3>1. /\ other' \in Seq(Link \cup {Main}) /\ Len(other') = m + n
          /\ \A i \in 1..m : other'[i] = First[i]
          /\ \A i \in 1..n : other'[m + i] = q[i]
      BY <1>2, <2>1, <2>4, <2>5 DEF HandedOver, n, m
    <3> DEFINE w == First \o q
    <3>2. /\ w \in Seq(Link \cup {Main}) /\ Len(w) = m + n
          /\ \A i \in 1..(m + n) : w[i] = IF i <= m THEN First[i] ELSE q[i - m]
      <4>1. q \in Seq(Link \cup {Main})
        BY DEF Link
      <4> QED BY <1>2, <1>3, <4>1 DEF m, n
    <3> HIDE DEF w
    <3>3. ASSUME NEW i \in 1..(m + n) PROVE other'[i] = w[i]
      <4>1. CASE i <= m
        <5>1. i \in 1..m
          BY <1>3, <4>1
        <5> QED BY <3>1, <3>2, <4>1, <5>1
      <4>2. CASE ~(i <= m)
        <5>1. i - m \in 1..n /\ m + (i - m) = i
          BY <1>2, <1>3, <4>2
        <5>2. other'[m + (i - m)] = q[i - m]
          BY <3>1, <5>1
        <5> QED BY <3>2, <4>2, <5>1, <5>2
      <4> QED BY <4>1, <4>2
    <3>4. m + n \in Nat
      BY <1>2, <1>3
    <3>5. other' = w
      BY <3>1, <3>2, <3>3, <3>4
    <3> QED BY <3>5 DEF w
  <2>7. ~f[n].halted
    BY <2>1 DEF HandedOver
  <2>8. replaced' /\ QueueOf(list') = <<>>
    BY <1>2, <2>3, <2>4, <2>5, <2>7
  <2> QED BY <1>6, <2>6, <2>8
<1>7. CASE reruns # 0
  <2>1. n # 0
    BY <1>7 DEF Chain, n
  <2>2. /\ n - 1 \in 0..n /\ n - 1 # n /\ n - (n - 1) = 1
        /\ n \in 1..(n + reruns + 1) /\ n \in Int /\ n + reruns + 1 \in Int
        /\ n <= n + reruns + 1 /\ n + reruns + 1 \in n..(n + reruns + 1)
    BY <1>2, <2>1
  <2>3. HandedOver(f[n - 1], q, n - 1, reruns)
    BY <1>5, <2>2
  <2>4. PICK p \in Seq(Thread) : Chain(f[n - 1].list, p, reruns) /\ Len(p) = 1
    BY <2>2, <2>3 DEF HandedOver, n
  <2>5. ~validate_ll(f[n - 1].list)
    <3>1. validate_ll(f[n - 1].list) <=> ~(Len(p) = 1 /\ reruns > 0)
      BY <2>4, ChainValid
    <3> QED BY <1>2, <1>7, <2>4, <3>1
  <2>6. f[n].halted
    <3>1. f[n] = HandOver(f[n - 1]) /\ n - 1 \in 0..(n + reruns + 1)
      BY <1>2, <2>2
    <3>2. f[n - 1] \in LoopState
      BY <1>2, <3>1
    <3> QED BY <2>5, <3>1, <3>2 DEF HandOver, LoopState
  <2> DEFINE T == {k \in n..(n + reruns + 1) : f[k].halted}
  <2>7. n \in T
    BY <2>2, <2>6
  <2>8. ASSUME NEW k \in n..((n + reruns + 1) - 1), k \in T PROVE k + 1 \in T
    <3>1. /\ k + 1 \in n..(n + reruns + 1) /\ k + 1 \in 1..(n + reruns + 1)
          /\ (k + 1) - 1 = k /\ k \in 0..(n + reruns + 1)
      BY <1>2
    <3>2. f[k + 1] = HandOver(f[k]) /\ f[k] \in LoopState /\ f[k].halted
      BY <1>2, <2>8, <3>1
    <3>3. f[k + 1].halted
      BY <3>2 DEF HandOver, LoopState
    <3> QED BY <3>1, <3>3
  <2> HIDE DEF T
  <2>9. \A k \in n..(n + reruns + 1) : k \in T
    <3>1. PICK b : b = n + reruns + 1
      OBVIOUS
    <3>2. n \in Int /\ b \in Int
      BY <1>2, <3>1
    <3>3. \A k \in n..(b - 1) : k \in T => k + 1 \in T
      BY <2>8, <3>1
    <3>4. \A k \in n..b : k \in T
      BY <2>7, <3>2, <3>3, IntervalInduction
    <3> QED BY <3>1, <3>4
  <2>10. f[n + reruns + 1].halted
    BY <2>2, <2>9 DEF T
  <2> QED BY <1>2, <1>7, <2>10
<1> QED BY <1>6, <1>7

(* What a transfer hands over ends with the queue of the old scheduler. *)
LEMMA EndsWithQueue ==
  ASSUME NEW q \in Seq(Thread), NEW out, out = First \o q
  PROVE  /\ Len(out) - Len(q) \in {0, 1}
         /\ [i \in 1..Len(q) |-> out[Len(out) - Len(q) + i]] = q
<1> DEFINE m == Len(First)
           k == Len(q)
<1>1. k \in Nat /\ q = [i \in 1..k |-> q[i]]
  OBVIOUS
<1>2. m \in {0, 1} /\ Len(out) = m + k /\ \A i \in 1..k : out[m + i] = q[i]
  <2>1. CASE curr = NULL
    BY <2>1 DEF First
  <2>2. CASE curr # NULL
    <3>1. First = <<curr>> /\ m = 1 /\ out = <<curr>> \o q
      BY <2>2 DEF First
    <3>2. Len(out) = 1 + k /\ \A i \in 1..k : out[1 + i] = q[i]
      BY <3>1
    <3> QED BY <3>1, <3>2
  <2> QED BY <2>1, <2>2
<1> HIDE DEF m, k
<1>3. Len(out) - k = m
  BY <1>1, <1>2
<1>4. [i \in 1..k |-> out[m + i]] = q
  BY <1>1, <1>2
<1>5. Len(out) - k \in {0, 1} /\ [i \in 1..k |-> out[Len(out) - k + i]] = q
  BY <1>2, <1>3, <1>4
<1> QED BY <1>5 DEF k

(***************************************************************************)
(* A change of the scheduler that completes leaves the old list empty and  *)
(* has handed over every scheduled thread in the order of next(), behind   *)
(* at most the current one, until a thread is destroyed (kproc.c:46-104).  *)
(***************************************************************************)
THEOREM TransferStaysWhole == Spec => TransferWhole
<1> DEFINE Whole ==
             LET n     == Cardinality(admitted)
                 first == Len(other') - n
             IN  /\ first \in {0, 1}
                 /\ [i \in 1..n |-> other'[first + i]] = Walk(list, n)
                 /\ QueueOf(list') = <<>>
<1>1. ASSUME PoolInv, ReplaceScheduler, ~destroyed, ~halted'
      PROVE  Whole
  <2>1. Untouched
    BY <1>1 DEF PoolInv, Untouched, ReplaceScheduler
  <2>2. PICK q : Chain(list, q, reruns) /\ admitted = Members(q)
    BY <1>1, <2>1 DEF PoolInv, Pool
  <2>3. q \in Seq(Thread) /\ Walk(list, Cardinality(admitted)) = q
        /\ Cardinality(admitted) = Len(q)
    BY <2>2, PoolWalk DEF Chain
  <2>4. QueueOf(list') = <<>> /\ other' = First \o q
    BY <1>1, <2>2, <2>3, TransferOfChain
  <2>5. /\ Len(other') - Len(q) \in {0, 1}
        /\ [i \in 1..Len(q) |-> other'[Len(other') - Len(q) + i]] = q
    <3>1. PICK out : out = other'
      OBVIOUS
    <3>2. out = First \o q /\ q \in Seq(Thread)
      BY <2>3, <2>4, <3>1
    <3>3. Len(out) - Len(q) \in {0, 1} /\ [i \in 1..Len(q) |-> out[Len(out) - Len(q) + i]] = q
      BY <3>2, EndsWithQueue
    <3> QED BY <3>1, <3>3
  <2> QED BY <2>3, <2>4, <2>5
<1>2. PoolInv /\ [Next]_vars => [ReplaceScheduler /\ ~destroyed /\ ~halted' => Whole]_vars
  BY <1>1
<1> QED BY <1>2, PoolAlways, PTL DEF Spec, TransferWhole
=============================================================================
