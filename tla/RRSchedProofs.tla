--------------------------- MODULE RRSchedProofs ---------------------------
(***************************************************************************)
(* Theorems about the round-robin scheduler (RRSched), for every set of    *)
(* threads: its pointers always represent the queue, validate_ll() never   *)
(* halts the system, and each entry point is a step of RunQueue.           *)
(***************************************************************************)
EXTENDS RRSched, Induction

(* Following sched_next from the head meets the threads that are linked.   *)
LEMMA WalkIsQueue ==
  ASSUME NEW l, NEW q \in Seq(Thread), Len(q) # 0 => l.head = q[1],
         \A i \in 1..(Len(q) - 1) : l.next[q[i]] = q[i + 1]
  PROVE  Walk(l, Len(q)) = q
<1>1. PICK n \in Nat : n = Len(q)
  OBVIOUS
<1>2. \A i \in 1..n : q[i] # NULL
  BY <1>1, NullAssumption
<1>3. WalkAlong(l.head, l.next, NULL, n) = [i \in 1..n |-> q[i]]
  <2>1. PICK first, next : first = l.head /\ next = l.next
    OBVIOUS
  <2>2. /\ n # 0 => first = q[1]
        /\ \A i \in 1..(n - 1) : next[q[i]] = q[i + 1]
    BY <1>1, <2>1
  <2>3. WalkAlong(first, next, NULL, n) = [i \in 1..n |-> q[i]]
    BY <1>2, <2>2, WalkMeets
  <2> QED BY <2>1, <2>3
<1>4. Walk(l, n) = WalkAlong(l.head, l.next, NULL, n)
  BY DEF Walk, WalkAlong
<1>5. q = [i \in 1..n |-> q[i]]
  BY <1>1
<1> QED BY <1>1, <1>3, <1>4, <1>5

(* A list that represents a queue passes every assertion of validate_ll(). *)
LEMMA ListIsValid ==
  ASSUME NEW l \in List, NEW q \in Seq(Thread), IsList(l, q)
  PROVE  validate_ll(l)
<1>1. CASE Len(q) = 0
  BY <1>1 DEF IsList, validate_ll
<1>2. CASE Len(q) # 0
  <2>1. Len(q) \in Nat /\ 1 \in 1..Len(q) /\ Len(q) \in 1..Len(q)
    BY <1>2
  <2>2. q[1] \in Thread /\ q[Len(q)] \in Thread
    BY <2>1
  <2>3. l.head = q[1] /\ l.tail = q[Len(q)] /\ l.len = Len(q)
    BY <1>2 DEF IsList
  <2>4. l.head # NULL /\ l.tail # NULL
    BY <2>2, <2>3, NullAssumption
  <2>5. l.head = l.tail => l.len = 1
    BY <2>1, <2>3 DEF IsList, IsDistinct
  <2> QED BY <1>2, <2>3, <2>4, <2>5 DEF validate_ll
<1> QED BY <1>1, <1>2

(* rr_admit() of a thread outside the pool appends it to the queue. *)
LEMMA AdmitAppends ==
  ASSUME NEW l \in List, NEW q \in Seq(Thread), IsList(l, q),
         NEW t \in Thread, t \notin Queue!Members(q)
  PROVE  /\ Admitted(l, t) \in List
         /\ Append(q, t) \in Seq(Thread)
         /\ IsList(Admitted(l, t), Append(q, t))
<1> DEFINE r == Admitted(l, t)
           p == Append(q, t)
           n == Len(q)
<1>1. /\ n \in Nat /\ p \in Seq(Thread) /\ Len(p) = n + 1
      /\ p[n + 1] = t
      /\ \A i \in 1..n : p[i] = q[i] /\ q[i] \in Thread /\ q[i] # t
  BY DEF Queue!Members
<1>2. l.len = n
  BY DEF IsList
<1>3. IsDistinct(p)
  <2>1. \A i, j \in 1..n : q[i] = q[j] => i = j
    BY DEF IsList, IsDistinct
  <2>2. SUFFICES ASSUME NEW i \in 1..(n + 1), NEW j \in 1..(n + 1), p[i] = p[j]
                 PROVE  i = j
    BY <1>1 DEF IsDistinct
  <2>3. (i = n + 1 \/ i \in 1..n) /\ (j = n + 1 \/ j \in 1..n)
    BY <1>1
  <2> QED BY <1>1, <2>1, <2>2, <2>3
<1>4. CASE n = 0
  <2>1. r = [head |-> t, tail |-> t, len |-> 1,
             next |-> [l.next EXCEPT ![t] = NULL],
             prev |-> [l.prev EXCEPT ![t] = NULL]]
    BY <1>2, <1>4 DEF Admitted
  <2>2. r \in List
    BY <2>1 DEF List, Link
  <2>3. IsList(r, p)
    BY <1>1, <1>3, <1>4, <2>1 DEF IsList, List
  <2> QED BY <1>1, <2>2, <2>3
<1>5. CASE n # 0
  <2>1. /\ l.tail = q[n] /\ l.head = q[1] /\ l.prev[q[1]] = NULL
        /\ n \in 1..n /\ 1 \in 1..n /\ q[n] \in Thread
    BY <1>1, <1>5 DEF IsList
  <2>2. r = [head |-> l.head, tail |-> t, len |-> n + 1,
             next |-> [l.next EXCEPT ![q[n]] = t],
             prev |-> [l.prev EXCEPT ![t] = q[n]]]
    BY <1>2, <1>5, <2>1 DEF Admitted
  <2>3. r \in List
    BY <2>1, <2>2, <1>1 DEF List, Link
  <2>4. ASSUME NEW i \in 1..n
        PROVE  r.next[p[i]] = p[i + 1] /\ r.prev[p[i + 1]] = p[i]
    <3>1. CASE i = n
      BY <3>1, <1>1, <2>1, <2>2 DEF List
    <3>2. CASE i # n
      <4>1. i \in 1..(n - 1) /\ i + 1 \in 1..n
        BY <3>2, <1>1
      <4>2. l.next[q[i]] = q[i + 1] /\ l.prev[q[i + 1]] = q[i]
        BY <4>1 DEF IsList
      <4>3. q[i] # q[n]
        BY <3>2, <2>1 DEF IsList, IsDistinct
      <4>4. q[i] \in Thread /\ q[i + 1] \in Thread /\ q[i + 1] # t
            /\ p[i] = q[i] /\ p[i + 1] = q[i + 1]
        BY <4>1, <1>1
      <4> QED BY <4>2, <4>3, <4>4, <2>1, <2>2 DEF List
    <3> QED BY <3>1, <3>2
  <2>5. r.head = p[1] /\ r.tail = p[n + 1] /\ r.prev[p[1]] = NULL
    BY <1>1, <2>1, <2>2 DEF List
  <2>6. IsList(r, p)
    BY <1>1, <1>3, <2>2, <2>4, <2>5 DEF IsList
  <2> QED BY <1>1, <2>3, <2>6
<1> QED BY <1>4, <1>5

(* rr_next() answers the first thread and moves it to the back. *)
LEMMA NextRotates ==
  ASSUME NEW l \in List, NEW q \in Seq(Thread), IsList(l, q)
  PROVE  /\ Rotated(l) \in List
         /\ Queue!ToTheBack(q) \in Seq(Thread)
         /\ IsList(Rotated(l), Queue!ToTheBack(q))
         /\ q = <<>> => Served(l) = NULL /\ Queue!ToTheBack(q) = q
         /\ q # <<>> => Served(l) = q[1]
<1> DEFINE r == Rotated(l)
           p == Queue!ToTheBack(q)
<1>0. PICK n \in Nat : Len(q) = n
  OBVIOUS
<1>1. n \in Nat /\ l.len = n /\ \A i \in 1..n : q[i] \in Thread
  BY <1>0 DEF IsList
<1>2. /\ p \in Seq(Thread) /\ Len(p) = n
      /\ \A i \in 1..n : p[i] = IF i = n THEN q[1] ELSE q[i + 1]
  <2>1. p = [j \in 1..n |-> IF j = n THEN q[1] ELSE q[j + 1]]
    BY <1>0 DEF Queue!ToTheBack
  <2>2. \A j \in 1..n : (IF j = n THEN q[1] ELSE q[j + 1]) \in Thread
    BY <1>0, <1>1
  <2>3. p \in [1..n -> Thread]
    BY <2>1, <2>2
  <2> QED BY <1>0, <1>1, <2>1, <2>3
<1>3. q = <<>> <=> n = 0
  BY <1>0
<1>4. CASE n = 0
  <2>1. r = l /\ Served(l) = NULL
    BY <1>0, <1>1, <1>4 DEF Rotated, Served
  <2>2. p = q
    BY <1>2, <1>4, <1>3
  <2> QED BY <1>2, <1>3, <1>4, <2>1, <2>2
<1>5. CASE n = 1
  <2>1. r = l /\ Served(l) = q[1]
    BY <1>0, <1>1, <1>5 DEF Rotated, Served, IsList
  <2>2. p = q
    BY <1>0, <1>1, <1>2, <1>5
  <2> QED BY <1>2, <1>3, <1>5, <2>1, <2>2
<1>6. CASE n > 1
  <2>1. /\ 1 \in 1..(n - 1) /\ n \in 1..n /\ 1 \in 1..n /\ 2 \in 1..n
        /\ n - 1 \in 1..n
    BY <1>0, <1>1, <1>6
  <2>2. /\ l.head = q[1] /\ l.tail = q[n] /\ l.prev[q[1]] = NULL
        /\ l.next[q[1]] = q[2]
    BY <1>0, <1>1, <1>6, <2>1 DEF IsList
  <2>3. r = [head |-> q[2], tail |-> q[1], len |-> n,
             next |-> [[l.next EXCEPT ![q[n]] = q[1]] EXCEPT ![q[1]] = NULL],
             prev |-> [[l.prev EXCEPT ![q[2]] = NULL] EXCEPT ![q[1]] = q[n]]]
    BY <1>0, <1>1, <1>6, <2>2 DEF Rotated
  <2>4. r \in List
    <3>1. q[1] \in Thread /\ q[2] \in Thread /\ q[n] \in Thread
      BY <1>0, <1>1, <2>1
    <3>2. l.next \in [Thread -> Link] /\ l.prev \in [Thread -> Link]
      BY DEF List
    <3>3. q[1] \in Link /\ q[2] \in Link /\ q[n] \in Link /\ NULL \in Link
      BY <3>1 DEF Link
    <3>4. r.next \in [Thread -> Link]
      <4>1. [l.next EXCEPT ![q[n]] = q[1]] \in [Thread -> Link]
        BY <3>2, <3>3
      <4>2. ASSUME NEW f \in [Thread -> Link]
            PROVE  [f EXCEPT ![q[1]] = NULL] \in [Thread -> Link]
        BY <3>3
      <4> QED BY <2>3, <4>1, <4>2
    <3>5. r.prev \in [Thread -> Link]
      <4>1. [l.prev EXCEPT ![q[2]] = NULL] \in [Thread -> Link]
        BY <3>2, <3>3
      <4>2. ASSUME NEW f \in [Thread -> Link]
            PROVE  [f EXCEPT ![q[1]] = q[n]] \in [Thread -> Link]
        BY <3>3
      <4> QED BY <2>3, <4>1, <4>2
    <3> QED BY <1>0, <1>1, <2>3, <3>3, <3>4, <3>5 DEF List
  <2>5. \A i, j \in 1..n : q[i] = q[j] => i = j
    BY <1>0 DEF IsList, IsDistinct
  <2>6. IsDistinct(p)
    BY <1>0, <1>1, <1>2, <2>5 DEF IsDistinct
  <2>7. p[1] = q[2] /\ p[n] = q[1] /\ p[n - 1] = q[n]
    BY <1>0, <1>1, <1>2, <1>6, <2>1
  <2>8. r.prev[p[1]] = NULL
    BY <1>6, <2>1, <2>3, <2>5, <2>7, <1>1 DEF List
  <2>9. ASSUME NEW i \in 1..(n - 1)
        PROVE  r.next[p[i]] = p[i + 1] /\ r.prev[p[i + 1]] = p[i]
    <3>1. CASE i = n - 1
      <4>1. q[n] # q[1] /\ q[2] # q[1] /\ q[n] \in Thread /\ q[1] \in Thread
        BY <1>0, <1>1, <1>6, <2>1, <2>5
      <4>2. r.next[q[n]] = q[1] /\ r.prev[q[1]] = q[n]
        BY <4>1, <2>3 DEF List
      <4> QED BY <3>1, <4>2, <2>7, <1>1
    <3>2. CASE i # n - 1
      <4>1. i + 1 \in 1..n /\ i + 2 \in 1..n /\ i + 1 \in 1..(n - 1)
            /\ i \in 1..n /\ i # n /\ i + 1 # n /\ (i + 1) + 1 = i + 2
        BY <3>2, <1>1
      <4>2. p[i] = q[i + 1] /\ p[i + 1] = q[i + 2]
        BY <4>1, <1>2
      <4>3. l.next[q[i + 1]] = q[i + 2] /\ l.prev[q[i + 2]] = q[i + 1]
        BY <4>1, <1>1 DEF IsList
      <4>4. /\ q[i + 1] # q[n] /\ q[i + 1] # q[1]
            /\ q[i + 2] # q[1] /\ q[i + 2] # q[2]
        BY <4>1, <2>1, <2>5
      <4>5. q[i + 1] \in Thread /\ q[i + 2] \in Thread
            /\ q[n] \in Thread /\ q[1] \in Thread /\ q[2] \in Thread
        BY <4>1, <2>1, <1>1
      <4> QED BY <4>2, <4>3, <4>4, <4>5, <2>3 DEF List
    <3> QED BY <3>1, <3>2
  <2>10. IsList(r, p)
    <3>1. Len(p) = n /\ n # 0 /\ r.len = n
      BY <1>0, <1>1, <1>2, <1>6, <2>3
    <3>2. r.head = p[1] /\ r.tail = p[n]
      BY <2>3, <2>7
    <3> HIDE DEF r, p
    <3> QED BY <3>1, <3>2, <2>6, <2>8, <2>9 DEF IsList
  <2>11. Served(l) = q[1]
    BY <1>0, <1>1, <1>6, <2>2 DEF Served
  <2> QED BY <1>2, <1>3, <1>6, <2>4, <2>10, <2>11
<1>7. n = 0 \/ n = 1 \/ n > 1
  BY <1>0
<1> QED BY <1>4, <1>5, <1>6, <1>7
(* Two writes to the link fields, one after the other. *)
Written(f, a, x, b, y) == [[f EXCEPT ![a] = x] EXCEPT ![b] = y]

Wrote(g, f, a, x, b, y) ==
  /\ g \in [Thread -> Link]
  /\ \A c \in Thread : g[c] = IF c = b THEN y ELSE IF c = a THEN x ELSE f[c]

LEMMA TwoWrites ==
  ASSUME NEW f \in [Thread -> Link], NEW a \in Thread, NEW b \in Thread,
         NEW x \in Link, NEW y \in Link
  PROVE  Wrote(Written(f, a, x, b, y), f, a, x, b, y)
<1> DEFINE h == [f EXCEPT ![a] = x]
<1>1. h \in [Thread -> Link] /\ \A c \in Thread : h[c] = IF c = a THEN x ELSE f[c]
  OBVIOUS
<1>2. Written(f, a, x, b, y) = [h EXCEPT ![b] = y]
  BY DEF Written
<1> HIDE DEF h
<1>3. /\ [h EXCEPT ![b] = y] \in [Thread -> Link]
      /\ \A c \in Thread : [h EXCEPT ![b] = y][c] = IF c = b THEN y ELSE h[c]
  BY <1>1
<1> QED BY <1>1, <1>2, <1>3 DEF Wrote

(* rr_remove() of the k-th thread of the queue cuts out that thread alone. *)
LEMMA RemoveCutsOut ==
  ASSUME NEW l \in List, NEW q \in Seq(Thread), IsList(l, q),
         NEW k \in 1..Len(q)
  PROVE  /\ Removed(l, q[k]) \in List
         /\ Queue!WithoutAt(q, k) \in Seq(Thread)
         /\ IsList(Removed(l, q[k]), Queue!WithoutAt(q, k))
<1> DEFINE t == q[k]
           r == Removed(l, t)
           p == Queue!WithoutAt(q, k)
<1>1. PICK n \in Nat : Len(q) = n
  OBVIOUS
<1>2. /\ n # 0 /\ k \in 1..n /\ n - 1 \in Nat /\ 1 \in 1..n /\ n \in 1..n
      /\ l.len = n /\ t \in Thread /\ NULL \in Link
      /\ \A i \in 1..n : q[i] \in Thread /\ q[i] \in Link
      /\ l.next \in [Thread -> Link] /\ l.prev \in [Thread -> Link]
  BY <1>1 DEF IsList, List, Link
<1>3. \A i, j \in 1..n : q[i] = q[j] => i = j
  BY <1>1 DEF IsList, IsDistinct
<1>4. l.head = q[1] /\ l.tail = q[n] /\ l.prev[q[1]] = NULL
  BY <1>1, <1>2 DEF IsList
<1>5. \A i \in 1..(n - 1) : l.next[q[i]] = q[i + 1] /\ l.prev[q[i + 1]] = q[i]
  BY <1>1 DEF IsList
<1>6. /\ p \in Seq(Thread) /\ Len(p) = n - 1
      /\ \A i \in 1..(n - 1) : p[i] = IF i < k THEN q[i] ELSE q[i + 1]
  <2>1. p = [j \in 1..(n - 1) |-> IF j < k THEN q[j] ELSE q[j + 1]]
    BY <1>1 DEF Queue!WithoutAt
  <2>2. \A j \in 1..(n - 1) : (IF j < k THEN q[j] ELSE q[j + 1]) \in Thread
    BY <1>2
  <2>3. p \in [1..(n - 1) -> Thread]
    BY <2>1, <2>2
  <2> QED BY <1>2, <2>1, <2>3
<1>7. IsDistinct(p)
  <2> SUFFICES ASSUME NEW i \in 1..(n - 1), NEW j \in 1..(n - 1), p[i] = p[j]
               PROVE  i = j
    BY <1>6 DEF IsDistinct
  <2> QED BY <1>2, <1>3, <1>6
<1>8. \A i, j \in 1..n : i # j => q[i] # q[j]
  BY <1>3
<1>9. CASE n = 1
  <2>1. r = [head |-> NULL, tail |-> NULL, len |-> 0,
             next |-> [l.next EXCEPT ![t] = NULL],
             prev |-> [l.prev EXCEPT ![t] = NULL]]
    <3>1. l.len = 1 /\ l.len # 0 /\ l.len - 1 = 0
      BY <1>2, <1>9
    <3>2. CutOut(l, t) = [l EXCEPT !.head = NULL, !.tail = NULL]
      BY <3>1 DEF CutOut
    <3>3. /\ CutOut(l, t).head = NULL /\ CutOut(l, t).tail = NULL
          /\ CutOut(l, t).next = l.next /\ CutOut(l, t).prev = l.prev
      BY <3>2 DEF List
    <3> QED BY <3>1, <3>3 DEF Removed
  <2>2. r \in List
    BY <1>2, <2>1 DEF List, Link
  <2> QED BY <1>6, <1>7, <1>9, <2>1, <2>2 DEF IsList
<1>10. CASE n # 1 /\ k = 1
  <2>1. 2 \in 1..n /\ t = q[1] /\ l.next[t] = q[2]
    BY <1>2, <1>5, <1>10
  <2>2. r = [head |-> q[2], tail |-> q[n], len |-> n - 1,
             next |-> [l.next EXCEPT ![t] = NULL],
             prev |-> [[l.prev EXCEPT ![q[2]] = NULL] EXCEPT ![t] = NULL]]
    BY <1>2, <1>4, <1>10, <2>1 DEF Removed, CutOut, List
  <2>3. /\ r.prev \in [Thread -> Link]
        /\ \A c \in Thread : r.prev[c] = IF c = t THEN NULL ELSE
                                         IF c = q[2] THEN NULL ELSE l.prev[c]
    <3>1. q[2] \in Thread
      BY <1>2, <2>1
    <3>2. r.prev = Written(l.prev, q[2], NULL, t, NULL)
      BY <2>2 DEF Written
    <3>3. t \in Thread /\ NULL \in Link /\ l.prev \in [Thread -> Link]
      BY <1>2
    <3> HIDE DEF t, r
    <3>4. Wrote(Written(l.prev, q[2], NULL, t, NULL), l.prev, q[2], NULL, t, NULL)
      BY <3>1, <3>3, TwoWrites
    <3> QED BY <3>2, <3>4 DEF Wrote
  <2>4. /\ r.next \in [Thread -> Link]
        /\ \A c \in Thread : r.next[c] = IF c = t THEN NULL ELSE l.next[c]
    BY <1>2, <2>2
  <2>5. r \in List
    BY <1>2, <2>1, <2>2, <2>3, <2>4 DEF List
  <2>6. /\ p[1] = q[2] /\ p[n - 1] = q[n]
        /\ \A i \in 1..(n - 1) : p[i] = q[i + 1]
    BY <1>2, <1>6, <1>10
  <2>7. r.head = p[1] /\ r.tail = p[n - 1] /\ r.prev[p[1]] = NULL /\ r.len = n - 1
    BY <1>2, <2>1, <2>2, <2>3, <2>6
  <2>8. ASSUME NEW i \in 1..(n - 2)
        PROVE  r.next[p[i]] = p[i + 1] /\ r.prev[p[i + 1]] = p[i]
    <3>1. /\ i + 1 \in 1..n /\ i + 2 \in 1..n /\ i + 1 \in 1..(n - 1)
          /\ i \in 1..(n - 1) /\ (i + 1) + 1 = i + 2 /\ i + 1 # 1 /\ i + 2 # 1
          /\ i + 2 # 2
      BY <1>2
    <3>2. p[i] = q[i + 1] /\ p[i + 1] = q[i + 2]
      BY <2>6, <3>1
    <3>3. l.next[q[i + 1]] = q[i + 2] /\ l.prev[q[i + 2]] = q[i + 1]
      BY <1>5, <3>1
    <3>4. q[i + 1] # t /\ q[i + 2] # t /\ q[i + 2] # q[2]
          /\ q[i + 1] \in Thread /\ q[i + 2] \in Thread
      BY <1>2, <1>8, <2>1, <3>1
    <3> QED BY <2>3, <2>4, <3>2, <3>3, <3>4
  <2> HIDE DEF r, p
  <2>9. IsList(r, p)
    BY <1>2, <1>6, <1>7, <1>10, <2>7, <2>8 DEF IsList
  <2> QED BY <1>6, <2>5, <2>9 DEF r, p
<1>11. CASE n # 1 /\ k # 1 /\ k = n
  <2>1. /\ n - 1 \in 1..n /\ n - 1 \in 1..(n - 1) /\ (n - 1) + 1 = n
        /\ t = q[n] /\ t # q[1] /\ t # q[n - 1] /\ l.prev[t] = q[n - 1]
    BY <1>2, <1>5, <1>8, <1>11
  <2>2. r = [head |-> q[1], tail |-> q[n - 1], len |-> n - 1,
             next |-> [[l.next EXCEPT ![q[n - 1]] = NULL] EXCEPT ![t] = NULL],
             prev |-> [l.prev EXCEPT ![t] = NULL]]
    BY <1>2, <1>4, <1>11, <2>1 DEF Removed, CutOut, List
  <2>3. /\ r.next \in [Thread -> Link]
        /\ \A c \in Thread : r.next[c] = IF c = t THEN NULL ELSE
                                         IF c = q[n - 1] THEN NULL ELSE l.next[c]
    <3>1. q[n - 1] \in Thread
      BY <1>2, <2>1
    <3>2. r.next = Written(l.next, q[n - 1], NULL, t, NULL)
      BY <2>2 DEF Written
    <3>3. t \in Thread /\ NULL \in Link /\ l.next \in [Thread -> Link]
      BY <1>2
    <3> HIDE DEF t, r
    <3>4. Wrote(Written(l.next, q[n - 1], NULL, t, NULL), l.next, q[n - 1], NULL, t, NULL)
      BY <3>1, <3>3, TwoWrites
    <3> QED BY <3>2, <3>4 DEF Wrote
  <2>4. /\ r.prev \in [Thread -> Link]
        /\ \A c \in Thread : r.prev[c] = IF c = t THEN NULL ELSE l.prev[c]
    BY <1>2, <2>2
  <2>5. r \in List
    BY <1>2, <2>1, <2>2, <2>3, <2>4 DEF List
  <2>6. \A i \in 1..(n - 1) : p[i] = q[i]
    BY <1>2, <1>6, <1>11
  <2>7. 1 \in 1..(n - 1)
    BY <1>2, <1>11
  <2>8. r.head = p[1] /\ r.tail = p[n - 1] /\ r.prev[p[1]] = NULL /\ r.len = n - 1
    BY <1>2, <1>4, <2>1, <2>2, <2>4, <2>6, <2>7
  <2>9. ASSUME NEW i \in 1..(n - 2)
        PROVE  r.next[p[i]] = p[i + 1] /\ r.prev[p[i + 1]] = p[i]
    <3>1. /\ i \in 1..n /\ i + 1 \in 1..n /\ i \in 1..(n - 1) /\ i + 1 \in 1..(n - 1)
          /\ i # n /\ i + 1 # n /\ i # n - 1
      BY <1>2
    <3>2. p[i] = q[i] /\ p[i + 1] = q[i + 1]
      BY <2>6, <3>1
    <3>3. l.next[q[i]] = q[i + 1] /\ l.prev[q[i + 1]] = q[i]
      BY <1>5, <3>1
    <3>4. q[i] # t /\ q[i + 1] # t /\ q[i] # q[n - 1]
          /\ q[i] \in Thread /\ q[i + 1] \in Thread
      BY <1>2, <1>8, <2>1, <3>1
    <3> QED BY <2>3, <2>4, <3>2, <3>3, <3>4
  <2> HIDE DEF r, p
  <2>10. IsList(r, p)
    BY <1>2, <1>6, <1>7, <1>11, <2>8, <2>9 DEF IsList
  <2> QED BY <1>6, <2>5, <2>10 DEF r, p
<1>12. CASE n # 1 /\ k # 1 /\ k # n
  <2>1. /\ k - 1 \in 1..n /\ k + 1 \in 1..n /\ k - 1 \in 1..(n - 1)
        /\ k \in 1..(n - 1) /\ (k - 1) + 1 = k /\ 1 \in 1..(n - 1)
        /\ n - 1 \in 1..(n - 1)
    BY <1>2, <1>12
  <2>2. /\ t # q[1] /\ t # q[n] /\ l.prev[t] = q[k - 1] /\ l.next[t] = q[k + 1]
        /\ t # q[k - 1] /\ t # q[k + 1] /\ q[1] # q[k + 1]
    BY <1>2, <1>5, <1>8, <1>12, <2>1
  <2> DEFINE f == [[l.next EXCEPT ![q[k - 1]] = q[k + 1]] EXCEPT ![t] = NULL]
             g == [[l.prev EXCEPT ![q[k + 1]] = q[k - 1]] EXCEPT ![t] = NULL]
  <2>3. r = [head |-> q[1], tail |-> q[n], len |-> n - 1, next |-> f, prev |-> g]
    <3>1. l.len # 0 /\ l.len # 1 /\ t # l.head /\ t # l.tail
      BY <1>2, <1>4, <1>12, <2>2
    <3>2. CutOut(l, t) = [l EXCEPT !.next = [l.next EXCEPT ![q[k - 1]] = q[k + 1]],
                                   !.prev = [l.prev EXCEPT ![q[k + 1]] = q[k - 1]]]
      BY <2>2, <3>1 DEF CutOut
    <3>3. /\ CutOut(l, t).head = q[1] /\ CutOut(l, t).tail = q[n]
          /\ CutOut(l, t).next = [l.next EXCEPT ![q[k - 1]] = q[k + 1]]
          /\ CutOut(l, t).prev = [l.prev EXCEPT ![q[k + 1]] = q[k - 1]]
      BY <1>4, <3>2 DEF List
    <3> HIDE DEF t
    <3> QED BY <1>2, <3>1, <3>3 DEF Removed
  <2> USE DEF t
  <2>30. /\ q[k - 1] \in Thread /\ q[k + 1] \in Thread
         /\ q[k - 1] \in Link /\ q[k + 1] \in Link
    BY <1>2, <2>1
  <2>31. t \in Thread /\ NULL \in Link /\ l.next \in [Thread -> Link] /\ l.prev \in [Thread -> Link]
    BY <1>2
  <2>4. /\ f \in [Thread -> Link]
        /\ \A c \in Thread : f[c] = IF c = t THEN NULL ELSE
                                IF c = q[k - 1] THEN q[k + 1] ELSE l.next[c]
    <3> HIDE DEF t
    <3>1. f = Written(l.next, q[k - 1], q[k + 1], t, NULL)
      BY DEF Written
    <3>2. Wrote(Written(l.next, q[k - 1], q[k + 1], t, NULL), l.next, q[k - 1], q[k + 1], t, NULL)
      BY <2>30, <2>31, TwoWrites
    <3> HIDE DEF f
    <3> QED BY <3>1, <3>2 DEF Wrote
  <2>5. /\ g \in [Thread -> Link]
        /\ \A c \in Thread : g[c] = IF c = t THEN NULL ELSE
                                IF c = q[k + 1] THEN q[k - 1] ELSE l.prev[c]
    <3> HIDE DEF t
    <3>1. g = Written(l.prev, q[k + 1], q[k - 1], t, NULL)
      BY DEF Written
    <3>2. Wrote(Written(l.prev, q[k + 1], q[k - 1], t, NULL), l.prev, q[k + 1], q[k - 1], t, NULL)
      BY <2>30, <2>31, TwoWrites
    <3> HIDE DEF g
    <3> QED BY <3>1, <3>2 DEF Wrote
  <2> HIDE DEF f, g, r
  <2>6. r \in List /\ r.head = q[1] /\ r.tail = q[n] /\ r.len = n - 1
        /\ r.next = f /\ r.prev = g
    <3>1. q[1] \in Link /\ q[n] \in Link /\ n - 1 \in Nat
      BY <1>2, <2>1
    <3> QED BY <2>3, <2>4, <2>5, <3>1 DEF List
  <2>7. p[1] = q[1] /\ p[n - 1] = q[n]
    <3>1. n \in Nat /\ k \in 1..n /\ k # 1 /\ k # n
      BY <1>2, <1>12
    <3>2. 1 < k /\ ~(n - 1 < k) /\ (n - 1) + 1 = n
      BY <3>1
    <3> HIDE DEF t, p
    <3>3. p[1] = q[1]
      BY <1>6, <2>1, <3>2
    <3>4. p[n - 1] = q[(n - 1) + 1]
      BY <1>6, <2>1, <3>2
    <3> QED BY <3>2, <3>3, <3>4
  <2>8. r.head = p[1] /\ r.tail = p[n - 1] /\ r.prev[p[1]] = NULL /\ r.len = n - 1
    BY <1>2, <1>4, <2>2, <2>5, <2>6, <2>7
  <2>9. ASSUME NEW i \in 1..(n - 2)
        PROVE  r.next[p[i]] = p[i + 1] /\ r.prev[p[i + 1]] = p[i]
    <3>1. /\ i \in 1..n /\ i + 1 \in 1..n /\ i + 2 \in 1..n /\ i \in 1..(n - 1)
          /\ i + 1 \in 1..(n - 1) /\ (i + 1) + 1 = i + 2
          /\ q[i] \in Thread /\ q[i + 1] \in Thread /\ q[i + 2] \in Thread
      BY <1>2
    <3>2. CASE i + 1 < k
      <4>1. p[i] = q[i] /\ p[i + 1] = q[i + 1]
        BY <1>6, <3>1, <3>2
      <4>2. q[i] # t /\ q[i + 1] # t /\ q[i] # q[k - 1] /\ q[i + 1] # q[k + 1]
        <5>1. i # k /\ i + 1 # k /\ i # k - 1 /\ i + 1 # k + 1
          BY <1>2, <3>1, <3>2
        <5> QED BY <1>2, <1>8, <2>1, <3>1, <5>1
      <4>3. l.next[q[i]] = q[i + 1] /\ l.prev[q[i + 1]] = q[i]
        BY <1>5, <3>1
      <4>4. f[q[i]] = l.next[q[i]]
        <5> HIDE DEF t
        <5> QED BY <2>4, <3>1, <4>2
      <4>5. g[q[i + 1]] = l.prev[q[i + 1]]
        <5> HIDE DEF t
        <5> QED BY <2>5, <3>1, <4>2
      <4> QED BY <2>6, <4>1, <4>3, <4>4, <4>5
    <3>3. CASE i + 1 = k
      <4>1. p[i] = q[k - 1] /\ p[i + 1] = q[k + 1]
        BY <1>6, <3>1, <3>3
      <4> QED BY <2>2, <2>30, <2>4, <2>5, <2>6, <4>1
    <3>4. CASE i + 1 > k
      <4>1. p[i] = q[i + 1] /\ p[i + 1] = q[i + 2]
        <5>1. ~(i < k) /\ ~(i + 1 < k) /\ (i + 1) + 1 = i + 2
          BY <1>2, <3>1, <3>4
        <5>2. i \in 1..(n - 1) /\ i + 1 \in 1..(n - 1)
          BY <1>2, <3>1
        <5> QED BY <1>6, <5>1, <5>2
      <4>2. q[i + 1] # t /\ q[i + 2] # t /\ q[i + 1] # q[k - 1] /\ q[i + 2] # q[k + 1]
        <5>1. i + 1 # k /\ i + 2 # k /\ i + 1 # k - 1 /\ i + 2 # k + 1
          BY <1>2, <3>1, <3>4
        <5> QED BY <1>2, <1>8, <2>1, <3>1, <5>1
      <4>3. l.next[q[i + 1]] = q[i + 2] /\ l.prev[q[i + 2]] = q[i + 1]
        BY <1>5, <3>1
      <4>4. f[q[i + 1]] = l.next[q[i + 1]]
        <5> HIDE DEF t
        <5> QED BY <2>4, <3>1, <4>2
      <4>5. g[q[i + 2]] = l.prev[q[i + 2]]
        <5> HIDE DEF t
        <5> QED BY <2>5, <3>1, <4>2
      <4> QED BY <2>6, <4>1, <4>3, <4>4, <4>5
    <3> QED BY <3>2, <3>3, <3>4, <1>2
  <2> HIDE DEF p
  <2>10. IsList(r, p)
    BY <1>2, <1>6, <1>7, <1>12, <2>1, <2>8, <2>9 DEF IsList
  <2> QED BY <1>6, <2>6, <2>10 DEF r, p
<1> QED BY <1>9, <1>10, <1>11, <1>12
-----------------------------------------------------------------------------
(***************************************************************************)
(* The inductive invariant: types, the representation, and no halt.  The   *)
(* representation is what makes it inductive: validate_ll() and the        *)
(* dereferences of rr_remove() and rr_next() are safe because of it.       *)
(***************************************************************************)
IInv ==
  /\ list \in List
  /\ served \in Link
  /\ halted = FALSE
  /\ order \in Seq(Thread)
  /\ IsList(list, order)

LEMMA InitIInv == Init => IInv
<1> SUFFICES ASSUME Init PROVE IInv
  OBVIOUS
<1>1. PICK n \in [Thread -> Link], p \in [Thread -> Link] : list = EmptyList(n, p)
  BY DEF Init
<1>2. list \in List
  BY <1>1 DEF EmptyList, List, Link
<1>3. order = <<>> /\ Len(order) = 0 /\ order \in Seq(Thread)
  BY DEF Init
<1>4. IsList(list, order)
  BY <1>1, <1>3 DEF EmptyList, IsList, IsDistinct
<1> QED BY <1>2, <1>3, <1>4 DEF Init, IInv, Link

(* Recycling the memory of a thread outside the pool changes no link the   *)
(* queue depends on.                                                       *)
LEMMA RecycleKeepsList ==
  ASSUME NEW l \in List, NEW q \in Seq(Thread), IsList(l, q),
         NEW t \in Thread, t \notin Queue!Members(q),
         NEW n \in Link, NEW p \in Link
  PROVE  LET r == [l EXCEPT !.next[t] = n, !.prev[t] = p]
         IN  r \in List /\ IsList(r, q)
<1> DEFINE r == [l EXCEPT !.next[t] = n, !.prev[t] = p]
<1>1. /\ r.head = l.head /\ r.tail = l.tail /\ r.len = l.len
      /\ r.next = [l.next EXCEPT ![t] = n] /\ r.prev = [l.prev EXCEPT ![t] = p]
      /\ r \in List
  BY DEF List
<1>2. PICK m \in Nat : Len(q) = m
  OBVIOUS
<1>3. \A i \in 1..m : q[i] \in Thread /\ q[i] # t
  BY <1>2 DEF Queue!Members
<1>4. \A i \in 1..m : r.next[q[i]] = l.next[q[i]] /\ r.prev[q[i]] = l.prev[q[i]]
  BY <1>1, <1>3 DEF List
<1>5. m # 0 => r.prev[q[1]] = l.prev[q[1]]
  BY <1>4
<1>6. \A i \in 1..(m - 1) : r.next[q[i]] = q[i + 1] /\ r.prev[q[i + 1]] = q[i]
  <2> SUFFICES ASSUME NEW i \in 1..(m - 1)
               PROVE  r.next[q[i]] = q[i + 1] /\ r.prev[q[i + 1]] = q[i]
    OBVIOUS
  <2>1. i \in 1..m /\ i + 1 \in 1..m
    OBVIOUS
  <2> QED BY <1>2, <1>4, <2>1 DEF IsList
<1> HIDE DEF r
<1>7. IsList(r, q)
  BY <1>1, <1>2, <1>5, <1>6 DEF IsList
<1> QED BY <1>1, <1>7 DEF r

(* Every step keeps the invariant, and is a step of RunQueue or leaves the *)
(* abstract queue alone.                                                   *)
LEMMA StepKeepsIInv ==
  IInv /\ [Next]_vars => IInv' /\ [Queue!QNext]_Queue!qvars
<1> SUFFICES ASSUME IInv, [Next]_vars
             PROVE  IInv' /\ [Queue!QNext]_Queue!qvars
  OBVIOUS
<1>1. list \in List /\ order \in Seq(Thread) /\ IsList(list, order) /\ validate_ll(list)
      /\ served \in Link /\ halted = FALSE
  BY ListIsValid DEF IInv
<1>2. ASSUME NEW t \in Thread, rr_admit(t)
      PROVE  IInv' /\ [Queue!QNext]_Queue!qvars
  <2>1. /\ t \notin Queue!Members(order)
        /\ list' = Admitted(list, t) /\ order' = Append(order, t)
        /\ served' = served /\ halted' = halted
    BY <1>1, <1>2 DEF rr_admit, InPool
  <2>2. IInv'
    BY <1>1, <2>1, AdmitAppends DEF IInv
  <2>3. Queue!Admit(t)
    BY <2>1 DEF Queue!Admit
  <2> QED BY <2>2, <2>3 DEF Queue!QNext
<1>3. ASSUME NEW t \in Thread, rr_remove(t)
      PROVE  IInv' /\ [Queue!QNext]_Queue!qvars
  <2>1. PICK k \in 1..Len(order) :
          order[k] = t /\ order' = Queue!WithoutAt(order, k)
    BY <1>1, <1>3 DEF rr_remove
  <2>2. list' = Removed(list, order[k]) /\ served' = served /\ halted' = halted
    BY <1>1, <1>3, <2>1 DEF rr_remove
  <2>3. IInv'
    BY <1>1, <2>1, <2>2, RemoveCutsOut DEF IInv
  <2>4. Queue!Remove(t)
    BY <2>1, <2>2 DEF Queue!Remove
  <2> QED BY <2>3, <2>4 DEF Queue!QNext
<1>4. ASSUME NEW t \in Thread, Recycle(t)
      PROVE  IInv' /\ [Queue!QNext]_Queue!qvars
  <2>1. PICK n \in Link, p \in Link :
          list' = [list EXCEPT !.next[t] = n, !.prev[t] = p]
    BY <1>4 DEF Recycle
  <2>2. /\ t \notin Queue!Members(order)
        /\ served' = served /\ halted' = halted /\ order' = order
    BY <1>4 DEF Recycle, InPool
  <2>3. IInv'
    BY <1>1, <2>1, <2>2, RecycleKeepsList DEF IInv
  <2> QED BY <2>2, <2>3 DEF Queue!qvars
<1>5. ASSUME rr_next
      PROVE  IInv' /\ [Queue!QNext]_Queue!qvars
  <2>1. /\ served' = Served(list) /\ list' = Rotated(list)
        /\ order' = Queue!ToTheBack(order) /\ halted' = halted
    BY <1>1, <1>5 DEF rr_next
  <2>2. /\ list' \in List /\ order' \in Seq(Thread) /\ IsList(list', order')
        /\ order = <<>> => served' = NULL /\ order' = order
        /\ order # <<>> => served' = order[1]
    BY <1>1, <2>1, NextRotates
  <2>3. served' \in Link
    <3>1. order # <<>> => order[1] \in Thread
      BY <1>1
    <3> QED BY <2>2, <3>1 DEF Link
  <2>4. IInv'
    BY <1>1, <2>1, <2>2, <2>3 DEF IInv
  <2>5. Queue!ServeNone \/ Queue!ServeFirst
    BY <2>1, <2>2 DEF Queue!ServeNone, Queue!ServeFirst
  <2> QED BY <2>4, <2>5 DEF Queue!QNext
<1>6. CASE UNCHANGED vars
  <2>1. list' = list /\ served' = served /\ halted' = halted /\ order' = order
    BY <1>6 DEF vars
  <2> QED BY <1>1, <2>1 DEF IInv, Queue!qvars
<1> QED BY <1>2, <1>3, <1>4, <1>5, <1>6 DEF Next

LEMMA Inductive == Spec => []IInv
<1>1. IInv /\ [Next]_vars => IInv'
  BY StepKeepsIInv
<1> QED BY InitIInv, <1>1, PTL DEF Spec

(* The variables keep their types: the pointers are threads or NULL and the *)
(* length is a natural number.                                              *)
THEOREM TypeCorrect == Spec => []TypeOK
<1>1. IInv => TypeOK
  BY DEF IInv, TypeOK
<1> QED BY Inductive, <1>1, PTL

(* ll_head, ll_tail, ll_len and the links always represent the queue,       *)
(* whatever a thread's links held when it was admitted (ksched.c:68-170).   *)
THEOREM PointersRepresentQueue == Spec => []Represents
<1>1. IInv => Represents
  BY DEF IInv, Represents
<1> QED BY Inductive, <1>1, PTL

(* validate_ll() never halts a system whose callers keep the contract       *)
(* (ksched.c:30-63).                                                        *)
THEOREM SchedulerNeverHalts == Spec => []NeverHalts
<1>1. IInv => NeverHalts
  BY ListIsValid DEF IInv, NeverHalts
<1> QED BY Inductive, <1>1, PTL

(* The pointer-level scheduler implements the abstract queue: every call is *)
(* one step of RunQueue, with the same answer.                              *)
THEOREM ImplementsRunQueue == Spec => Queue!QSpec
<1>1. Init => Queue!QInit
  BY DEF Init, Queue!QInit
<1>2. IInv /\ [Next]_vars => [Queue!QNext]_Queue!qvars
  BY StepKeepsIInv
<1> QED BY Inductive, <1>1, <1>2, PTL DEF Spec, Queue!QSpec

(* The queue read off the pointers is the queue. *)
LEMMA ReadingIsOrder ==
  ASSUME NEW l, NEW q \in Seq(Thread), IsList(l, q)
  PROVE  QueueOf(l) = q
  BY WalkIsQueue DEF IsList, QueueOf

(* So it implements the queue that is read off its pointers as well, with  *)
(* no auxiliary variable in the mapping (ksched.c:68-170).                 *)
THEOREM PointersImplementQueue == Spec => ImplementsQueue
<1>1. IInv => QueueOf(list) = order
  BY ReadingIsOrder DEF IInv
<1>2. Init => Abstract!QInit
  BY InitIInv, <1>1 DEF Init, Abstract!QInit
<1>3. IInv /\ IInv' /\ [Next]_vars => [Abstract!QNext]_Abstract!qvars
  <2> SUFFICES ASSUME IInv, IInv', [Next]_vars PROVE [Abstract!QNext]_Abstract!qvars
    OBVIOUS
  <2>1. QueueOf(list) = order /\ QueueOf(list)' = order'
    BY <1>1, ReadingIsOrder DEF IInv
  <2>2. [Queue!QNext]_Queue!qvars
    BY StepKeepsIInv
  <2>3. \A q : Abstract!Members(q) = Queue!Members(q)
                /\ Abstract!ToTheBack(q) = Queue!ToTheBack(q)
                /\ \A i : Abstract!WithoutAt(q, i) = Queue!WithoutAt(q, i)
    BY DEF Abstract!Members, Queue!Members, Abstract!ToTheBack, Queue!ToTheBack,
           Abstract!WithoutAt, Queue!WithoutAt
  <2>4. ASSUME NEW t \in Thread, Queue!Admit(t) PROVE Abstract!Admit(t)
    BY <2>1, <2>3, <2>4 DEF Queue!Admit, Abstract!Admit
  <2>5. ASSUME NEW t \in Thread, Queue!Remove(t) PROVE Abstract!Remove(t)
    BY <2>1, <2>3, <2>5 DEF Queue!Remove, Abstract!Remove
  <2>6. Queue!ServeNone => Abstract!ServeNone
    BY <2>1 DEF Queue!ServeNone, Abstract!ServeNone
  <2>7. Queue!ServeFirst => Abstract!ServeFirst
    BY <2>1, <2>3 DEF Queue!ServeFirst, Abstract!ServeFirst
  <2>8. UNCHANGED Queue!qvars => UNCHANGED Abstract!qvars
    BY <2>1 DEF Queue!qvars, Abstract!qvars
  <2> QED BY <2>2, <2>4, <2>5, <2>6, <2>7, <2>8 DEF Queue!QNext, Abstract!QNext
<1> QED BY Inductive, <1>2, <1>3, PTL DEF Spec, ImplementsQueue, Abstract!QSpec
=============================================================================
