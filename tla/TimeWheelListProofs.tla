------------------------- MODULE TimeWheelListProofs -------------------------
(* The pointers of the time wheel stay well linked, and the lists do what    *)
(* TimeWheel says of sets of connections, for any number of connections and  *)
(* slots.  A list is described by the sequence of its nodes: detach_node     *)
(* takes one out of the sequence, time_wheel_add puts one in front, and the  *)
(* walk of a tick is a position in it.                                       *)
EXTENDS TimeWheelList, FiniteSetTheorems, WellFoundedInduction, TLAPS

SlotNos == 0..(Slots - 1)

Links == [head : [SlotNos -> Conns \cup {NULL}],
          prev : [Conns -> Conns \cup {NULL}],
          next : [Conns -> Conns \cup {NULL}]]

\* q runs through the nodes of S, each once.
Order(q, n, S) ==
  /\ n \in Nat /\ q \in [1..n -> S]
  /\ \A i, j \in 1..n : q[i] = q[j] => i = j
  /\ \A c \in S : \E i \in 1..n : q[i] = c

\* q is the list s as the pointers l have it.
Chained(l, q, s) ==
  /\ l.head[s] = At(q, 1)
  /\ \A i \in DOMAIN q : l.next[q[i]] = At(q, i + 1) /\ l.prev[q[i]] = At(q, i - 1)

\* The sequence without its k-th element.
Without(q, n, k) == [i \in 1..(n - 1) |-> IF i < k THEN q[i] ELSE q[i + 1]]

\* The sequence with an element in front.
InFront(c, q, n) == [i \in 1..(n + 1) |-> IF i = 1 THEN c ELSE q[i - 1]]

-----------------------------------------------------------------------------
(* The pointer operations on one list and on the others.                     *)

LEMMA Least ==
  ASSUME NEW T, T \subseteq Nat, T # {}
  PROVE  \E x \in T : \A y \in T : x <= y
<1>1. PICK x \in T : \A y \in T : ~ (<<y, x>> \in OpToRel(<, Nat))
  BY NatLessThanWellFounded, WFMin
<1>2. ASSUME NEW y \in T PROVE x <= y
  <2>1. <<y, x>> \in Nat \X Nat /\ <<y, x>>[1] = y /\ <<y, x>>[2] = x
    OBVIOUS
  <2>2. ~ (y < x)
    BY <1>1, <2>1 DEF OpToRel
  <2>. QED
    BY <2>2
<1>. QED
  BY <1>2

LEMMA WithoutOrder ==
  ASSUME NEW S, NEW n, NEW q, Order(q, n, S), NEW k \in 1..n
  PROVE  Order(Without(q, n, k), n - 1, S \ {q[k]})
<1>. DEFINE r == Without(q, n, k)
<1>1. n \in Nat /\ n - 1 \in Nat /\ k \in 1..n /\ DOMAIN q = 1..n /\ DOMAIN r = 1..(n - 1)
  BY DEF Order, Without
<1>2. \A i \in 1..(n - 1) : r[i] = IF i < k THEN q[i] ELSE q[i + 1]
  BY DEF Without
<1>3. r \in [1..(n - 1) -> S \ {q[k]}]
  <2>1. ASSUME NEW i \in 1..(n - 1) PROVE r[i] \in S \ {q[k]}
    BY <1>1, <1>2 DEF Order
  <2>. QED
    BY <2>1 DEF Without
<1>4. ASSUME NEW i \in 1..(n - 1), NEW j \in 1..(n - 1), r[i] = r[j] PROVE i = j
  BY <1>1, <1>2, <1>4 DEF Order
<1>5. ASSUME NEW c \in S \ {q[k]} PROVE \E i \in 1..(n - 1) : r[i] = c
  <2>1. PICK j \in 1..n : q[j] = c
    BY DEF Order
  <2>2. CASE j < k
    BY <1>1, <1>2, <2>1, <2>2
  <2>3. CASE j > k
    <3>1. j - 1 \in 1..(n - 1) /\ r[j - 1] = q[j]
      BY <1>1, <1>2, <2>3
    <3>. QED
      BY <2>1, <3>1
  <2>. QED
    BY <1>1, <2>1, <2>2, <2>3
<1>. QED
  BY <1>1, <1>3, <1>4, <1>5 DEF Order

LEMMA WithoutAt ==
  ASSUME NEW S, NEW n, NEW q, Order(q, n, S), NEW k \in 1..n, NEW i \in Int
  PROVE  /\ i < k => At(Without(q, n, k), i) = At(q, i)
         /\ i >= k => At(Without(q, n, k), i) = At(q, i + 1)
<1>1. n \in Nat /\ k \in 1..n /\ DOMAIN q = 1..n
  BY DEF Order
<1>. QED
  BY <1>1 DEF At, Without

LEMMA InFrontOrder ==
  ASSUME NEW S, NEW n, NEW q, Order(q, n, S), NEW c, c \notin S
  PROVE  Order(InFront(c, q, n), n + 1, S \cup {c})
<1>. DEFINE r == InFront(c, q, n)
<1>1. n \in Nat /\ n + 1 \in Nat /\ DOMAIN q = 1..n /\ DOMAIN r = 1..(n + 1)
  BY DEF Order, InFront
<1>2. \A i \in 1..(n + 1) : r[i] = IF i = 1 THEN c ELSE q[i - 1]
  BY DEF InFront
<1>3. r \in [1..(n + 1) -> S \cup {c}]
  <2>1. ASSUME NEW i \in 1..(n + 1) PROVE r[i] \in S \cup {c}
    BY <1>1, <1>2 DEF Order
  <2>. QED
    BY <2>1 DEF InFront
<1>4. ASSUME NEW i \in 1..(n + 1), NEW j \in 1..(n + 1), r[i] = r[j] PROVE i = j
  BY <1>1, <1>2, <1>4 DEF Order
<1>5. ASSUME NEW d \in S \cup {c} PROVE \E i \in 1..(n + 1) : r[i] = d
  <2>1. CASE d = c
    BY <1>1, <1>2, <2>1
  <2>2. CASE d \in S
    <3>1. PICK j \in 1..n : q[j] = d
      BY <2>2 DEF Order
    <3>2. j + 1 \in 1..(n + 1) /\ r[j + 1] = q[j]
      BY <1>1, <1>2
    <3>. QED
      BY <3>1, <3>2
  <2>. QED
    BY <2>1, <2>2
<1>. QED
  BY <1>1, <1>3, <1>4, <1>5 DEF Order

LEMMA InFrontAt ==
  ASSUME NEW S, NEW n, NEW q, Order(q, n, S), NEW c
  PROVE  /\ At(InFront(c, q, n), 1) = c
         /\ \A i \in Int \ {1} : At(InFront(c, q, n), i) = At(q, i - 1)
<1>1. n \in Nat /\ DOMAIN q = 1..n
  BY DEF Order
<1>. QED
  BY <1>1 DEF At, InFront

LEMMA DetachEffect ==
  ASSUME NEW l \in Links, NEW c \in Conns, wheel_slot[c] \in SlotNos
  PROVE  LET before == l.prev[c]
             after  == l.next[c]
             d      == Detach(l, c)
         IN  /\ d \in Links
             /\ \A t \in SlotNos :
                  d.head[t] = IF before = NULL /\ t = wheel_slot[c] THEN after ELSE l.head[t]
             /\ \A x \in Conns :
                  /\ d.next[x] = IF x = c THEN NULL ELSE IF x = before THEN after ELSE l.next[x]
                  /\ d.prev[x] = IF x = c THEN NULL ELSE IF x = after THEN before ELSE l.prev[x]
<1>. USE ListAssumption
<1>. DEFINE before == l.prev[c]
            after  == l.next[c]
            fwd    == IF before # NULL THEN [l EXCEPT !.next[before] = after]
                                       ELSE [l EXCEPT !.head[wheel_slot[c]] = after]
            bwd    == IF after # NULL THEN [fwd EXCEPT !.prev[after] = before] ELSE fwd
            d      == [bwd EXCEPT !.prev[c] = NULL, !.next[c] = NULL]
<1>1. before \in Conns \cup {NULL} /\ after \in Conns \cup {NULL}
  BY DEF Links
<1>2. /\ fwd \in Links /\ fwd.prev = l.prev
      /\ \A t \in SlotNos :
           fwd.head[t] = IF before = NULL /\ t = wheel_slot[c] THEN after ELSE l.head[t]
      /\ \A x \in Conns : fwd.next[x] = IF x = before THEN after ELSE l.next[x]
  <2>1. CASE before # NULL
    BY <1>1, <2>1 DEF Links
  <2>2. CASE before = NULL
    BY <1>1, <2>2 DEF Links
  <2>. QED
    BY <2>1, <2>2
<1>. HIDE DEF fwd
<1>3. /\ bwd \in Links /\ bwd.head = fwd.head /\ bwd.next = fwd.next
      /\ \A x \in Conns : bwd.prev[x] = IF x = after THEN before ELSE l.prev[x]
  <2>1. CASE after # NULL
    BY <1>1, <1>2, <2>1 DEF Links
  <2>2. CASE after = NULL
    BY <1>1, <1>2, <2>2 DEF Links
  <2>. QED
    BY <2>1, <2>2
<1>. HIDE DEF bwd
<1>4. /\ d \in Links /\ d.head = bwd.head
      /\ \A x \in Conns : /\ d.next[x] = IF x = c THEN NULL ELSE bwd.next[x]
                          /\ d.prev[x] = IF x = c THEN NULL ELSE bwd.prev[x]
  BY <1>3 DEF Links
<1>5. Detach(l, c) = d
  BY DEF Detach, bwd, fwd
<1>. HIDE DEF d
<1>. QED
  BY <1>2, <1>3, <1>4, <1>5

LEMMA PushEffect ==
  ASSUME NEW l \in Links, NEW c \in Conns, NEW s \in SlotNos
  PROVE  LET first == l.head[s]
             p     == Push(l, c, s)
         IN  /\ p \in Links
             /\ \A t \in SlotNos : p.head[t] = IF t = s THEN c ELSE l.head[t]
             /\ \A x \in Conns :
                  /\ p.next[x] = IF x = c THEN first ELSE l.next[x]
                  /\ p.prev[x] = IF x = c THEN NULL ELSE IF x = first THEN c ELSE l.prev[x]
<1>. USE ListAssumption
<1>. DEFINE first == l.head[s]
            bwd   == IF first # NULL THEN [l EXCEPT !.prev[first] = c] ELSE l
            p     == [bwd EXCEPT !.prev[c] = NULL, !.next[c] = first, !.head[s] = c]
<1>1. first \in Conns \cup {NULL}
  BY DEF Links
<1>2. /\ bwd \in Links /\ bwd.head = l.head /\ bwd.next = l.next
      /\ \A x \in Conns : bwd.prev[x] = IF x = first THEN c ELSE l.prev[x]
  <2>1. CASE first # NULL
    BY <1>1, <2>1 DEF Links
  <2>2. CASE first = NULL
    BY <1>1, <2>2 DEF Links
  <2>. QED
    BY <2>1, <2>2
<1>. HIDE DEF bwd
<1>3. /\ p \in Links
      /\ \A t \in SlotNos : p.head[t] = IF t = s THEN c ELSE bwd.head[t]
      /\ \A x \in Conns : /\ p.next[x] = IF x = c THEN first ELSE bwd.next[x]
                          /\ p.prev[x] = IF x = c THEN NULL ELSE bwd.prev[x]
  BY <1>1, <1>2 DEF Links
<1>4. Push(l, c, s) = p
  BY DEF Push, bwd
<1>. HIDE DEF p
<1>. QED
  BY <1>2, <1>3, <1>4

\* The list a node leaves is the list without it.
LEMMA DetachFrom ==
  ASSUME NEW l \in Links, NEW s \in SlotNos, NEW S, S \subseteq Conns, NEW n, NEW q,
         Order(q, n, S), Chained(l, q, s), NEW k \in 1..n, wheel_slot[q[k]] = s
  PROVE  Chained(Detach(l, q[k]), Without(q, n, k), s)
<1>. DEFINE c == q[k]
            d == Detach(l, c)
            r == Without(q, n, k)
<1>1. /\ n \in Nat /\ k \in Int /\ DOMAIN q = 1..n /\ DOMAIN r = 1..(n - 1) /\ c \in Conns
      /\ \A i \in 1..n : q[i] \in Conns /\ q[i] # NULL
      /\ \A i, j \in 1..n : q[i] = q[j] => i = j
  BY ListAssumption DEF Order, Without
<1>2. \A i \in Int :
        (i < k => At(r, i) = At(q, i)) /\ (i >= k => At(r, i) = At(q, i + 1))
  BY WithoutAt
<1>3. l.prev[c] = At(q, k - 1) /\ l.next[c] = At(q, k + 1) /\ l.head[s] = At(q, 1)
  BY <1>1 DEF Chained
<1>4. /\ d.head[s] = IF At(q, k - 1) = NULL THEN At(q, k + 1) ELSE At(q, 1)
      /\ \A x \in Conns :
           /\ d.next[x] = IF x = c THEN NULL
                          ELSE IF x = At(q, k - 1) THEN At(q, k + 1) ELSE l.next[x]
           /\ d.prev[x] = IF x = c THEN NULL
                          ELSE IF x = At(q, k + 1) THEN At(q, k - 1) ELSE l.prev[x]
  BY <1>1, <1>3, DetachEffect
<1>5. \A i \in Int : At(q, i) = IF i \in 1..n THEN q[i] ELSE NULL
  BY <1>1 DEF At
<1>6. d.head[s] = At(r, 1)
  BY <1>1, <1>2, <1>4, <1>5
<1>7. ASSUME NEW i \in 1..(n - 1)
      PROVE  d.next[r[i]] = At(r, i + 1) /\ d.prev[r[i]] = At(r, i - 1)
  <2>. DEFINE j == IF i < k THEN i ELSE i + 1
  <2>1. j \in 1..n /\ j # k /\ r[i] = q[j] /\ q[j] # c
    BY <1>1 DEF Without
  <2>2. l.next[q[j]] = At(q, j + 1) /\ l.prev[q[j]] = At(q, j - 1)
    BY <1>1, <2>1 DEF Chained
  <2>3. q[j] = At(q, k - 1) <=> j = k - 1
    BY <1>1, <1>5, <2>1
  <2>4. q[j] = At(q, k + 1) <=> j = k + 1
    BY <1>1, <1>5, <2>1
  <2>5. /\ d.next[q[j]] = IF j = k - 1 THEN At(q, k + 1) ELSE At(q, j + 1)
        /\ d.prev[q[j]] = IF j = k + 1 THEN At(q, k - 1) ELSE At(q, j - 1)
    BY <1>1, <1>4, <2>1, <2>2, <2>3, <2>4
  <2>6. /\ At(r, i + 1) = IF i + 1 < k THEN At(q, i + 1) ELSE At(q, i + 2)
        /\ At(r, i - 1) = IF i - 1 < k THEN At(q, i - 1) ELSE At(q, i)
    BY <1>1, <1>2
  <2>7. CASE i < k
    BY <1>1, <2>1, <2>5, <2>6, <2>7
  <2>8. CASE ~(i < k)
    BY <1>1, <2>1, <2>5, <2>6, <2>8
  <2>. QED
    BY <2>7, <2>8
<1>. QED
  BY <1>1, <1>6, <1>7 DEF Chained

\* The other lists do not notice.
LEMMA DetachBeside ==
  ASSUME NEW l \in Links, NEW s \in SlotNos, NEW S, S \subseteq Conns, NEW n, NEW q,
         Order(q, n, S), Chained(l, q, s), NEW k \in 1..n, wheel_slot[q[k]] = s,
         NEW t \in SlotNos \ {s}, NEW T, T \subseteq Conns, T \cap S = {}, NEW m, NEW r,
         Order(r, m, T), Chained(l, r, t)
  PROVE  Chained(Detach(l, q[k]), r, t)
<1>. DEFINE c == q[k]
            d == Detach(l, c)
<1>1. /\ DOMAIN q = 1..n /\ DOMAIN r = 1..m /\ c \in S /\ c \in Conns /\ n \in Nat
      /\ \A i \in 1..n : q[i] \in S
      /\ \A i \in 1..m : r[i] \in T /\ r[i] \in Conns /\ r[i] \notin S
  BY DEF Order
<1>2. l.prev[c] \in S \cup {NULL} /\ l.next[c] \in S \cup {NULL}
  BY <1>1 DEF Chained, At
<1>3. d.head[t] = l.head[t]
  BY <1>1, DetachEffect
<1>4. \A i \in 1..m : d.next[r[i]] = l.next[r[i]] /\ d.prev[r[i]] = l.prev[r[i]]
  BY <1>1, <1>2, DetachEffect, ListAssumption
<1>. QED
  BY <1>1, <1>3, <1>4 DEF Chained

LEMMA PushOn ==
  ASSUME NEW l \in Links, NEW s \in SlotNos, NEW S, S \subseteq Conns, NEW n, NEW q,
         Order(q, n, S), Chained(l, q, s), NEW c \in Conns \ S
  PROVE  Chained(Push(l, c, s), InFront(c, q, n), s)
<1>. DEFINE p == Push(l, c, s)
            r == InFront(c, q, n)
<1>1. /\ n \in Nat /\ DOMAIN q = 1..n /\ DOMAIN r = 1..(n + 1)
      /\ \A i \in 1..n : q[i] \in Conns /\ q[i] # c /\ q[i] # NULL
      /\ \A i, j \in 1..n : q[i] = q[j] => i = j
  BY ListAssumption DEF Order, InFront
<1>2. At(r, 1) = c /\ \A i \in Int \ {1} : At(r, i) = At(q, i - 1)
  BY InFrontAt
<1>3. /\ p.head[s] = c
      /\ \A x \in Conns :
           /\ p.next[x] = IF x = c THEN At(q, 1) ELSE l.next[x]
           /\ p.prev[x] = IF x = c THEN NULL ELSE IF x = At(q, 1) THEN c ELSE l.prev[x]
  BY PushEffect DEF Chained
<1>4. \A i \in Int : At(q, i) = IF i \in 1..n THEN q[i] ELSE NULL
  BY <1>1 DEF At
<1>5. p.head[s] = At(r, 1)
  BY <1>2, <1>3
<1>6. ASSUME NEW i \in 1..(n + 1)
      PROVE  p.next[r[i]] = At(r, i + 1) /\ p.prev[r[i]] = At(r, i - 1)
  <2>1. CASE i = 1
    <3>1. r[i] = c /\ At(r, i + 1) = At(q, 1) /\ At(r, i - 1) = At(q, -1)
      BY <1>1, <1>2, <2>1 DEF InFront
    <3>2. At(q, -1) = NULL
      BY <1>1, <1>4
    <3>. QED
      BY <1>3, <3>1, <3>2
  <2>2. CASE i # 1
    <3>. DEFINE j == i - 1
    <3>1. j \in 1..n /\ r[i] = q[j] /\ q[j] \in Conns /\ q[j] # c
      BY <1>1, <2>2 DEF InFront
    <3>2. l.next[q[j]] = At(q, j + 1) /\ l.prev[q[j]] = At(q, j - 1)
      BY <1>1, <3>1 DEF Chained
    <3>3. At(r, i + 1) = At(q, j + 1) /\ At(r, i - 1) = IF j = 1 THEN c ELSE At(q, j - 1)
      BY <1>1, <1>2, <2>2
    <3>4. q[j] = At(q, 1) <=> j = 1
      BY <1>1, <1>4, <3>1
    <3>. QED
      BY <1>3, <3>1, <3>2, <3>3, <3>4
  <2>. QED
    BY <2>1, <2>2
<1>. QED
  BY <1>1, <1>5, <1>6 DEF Chained

LEMMA PushBeside ==
  ASSUME NEW l \in Links, NEW s \in SlotNos, NEW S, S \subseteq Conns, NEW n, NEW q,
         Order(q, n, S), Chained(l, q, s), NEW c \in Conns \ S,
         NEW t \in SlotNos \ {s}, NEW T, T \subseteq Conns \ {c}, T \cap S = {}, NEW m, NEW r,
         Order(r, m, T), Chained(l, r, t)
  PROVE  Chained(Push(l, c, s), r, t)
<1>. DEFINE p == Push(l, c, s)
<1>1. /\ DOMAIN r = 1..m /\ DOMAIN q = 1..n
      /\ \A i \in 1..n : q[i] \in S
      /\ \A i \in 1..m : r[i] \in Conns /\ r[i] # c /\ r[i] \notin S
  BY DEF Order
<1>2. l.head[s] \in S \cup {NULL}
  BY <1>1 DEF Chained, At
<1>3. p.head[t] = l.head[t]
  BY PushEffect
<1>4. \A i \in 1..m : p.next[r[i]] = l.next[r[i]] /\ p.prev[r[i]] = l.prev[r[i]]
  BY <1>1, <1>2, PushEffect, ListAssumption
<1>. QED
  BY <1>1, <1>3, <1>4 DEF Chained

-----------------------------------------------------------------------------
(* All lists together.                                                       *)

HasOrder(l, S, s) == \E n, q : Order(q, n, S) /\ Chained(l, q, s)

\* N[s] are the connections on list s of the pointers l; a connection on no list
\* has no neighbours.
Woven(l, N) ==
  /\ l \in Links
  /\ \A s \in SlotNos : N[s] \subseteq Conns /\ HasOrder(l, N[s], s)
  /\ \A s, t \in SlotNos : s # t => N[s] \cap N[t] = {}
  /\ \A c \in Conns :
       (\A s \in SlotNos : c \notin N[s]) => l.prev[c] = NULL /\ l.next[c] = NULL

LEMMA DetachWoven ==
  ASSUME NEW l, NEW N, Woven(l, N), NEW s \in SlotNos, NEW c \in N[s], wheel_slot[c] = s,
         NEW M, M[s] = N[s] \ {c}, \A t \in SlotNos \ {s} : M[t] = N[t]
  PROVE  Woven(Detach(l, c), M)
<1>1. l \in Links /\ c \in Conns /\ N[s] \subseteq Conns
  BY DEF Woven
<1>2. PICK n, q : Order(q, n, N[s]) /\ Chained(l, q, s)
  BY DEF Woven, HasOrder
<1>3. PICK k \in 1..n : q[k] = c
  BY <1>2 DEF Order
<1>4. Order(Without(q, n, k), n - 1, N[s] \ {c})
  BY <1>2, <1>3, WithoutOrder
<1>5. Chained(Detach(l, c), Without(q, n, k), s)
  BY <1>1, <1>2, <1>3, DetachFrom
<1>6. HasOrder(Detach(l, c), N[s] \ {c}, s)
  BY <1>4, <1>5 DEF HasOrder
<1>7. ASSUME NEW t \in SlotNos \ {s} PROVE HasOrder(Detach(l, c), N[t], t)
  <2>1. PICK m, r : Order(r, m, N[t]) /\ Chained(l, r, t)
    BY DEF Woven, HasOrder
  <2>2. N[t] \subseteq Conns /\ N[t] \cap N[s] = {}
    BY DEF Woven
  <2>3. Chained(Detach(l, c), r, t)
    BY <1>1, <1>2, <1>3, <2>1, <2>2, DetachBeside
  <2>. QED
    BY <2>1, <2>3 DEF HasOrder
<1>8. Detach(l, c) \in Links
  BY <1>1, DetachEffect
<1>9. ASSUME NEW d \in Conns, \A t \in SlotNos : d \notin M[t]
      PROVE  Detach(l, c).prev[d] = NULL /\ Detach(l, c).next[d] = NULL
  <2>1. /\ l.prev[c] = NULL \/ l.prev[c] \in N[s]
        /\ l.next[c] = NULL \/ l.next[c] \in N[s]
    BY <1>2, <1>3 DEF Order, Chained, At
  <2>2. CASE d = c
    BY <1>1, <2>2, DetachEffect
  <2>3. CASE d # c
    <3>1. \A t \in SlotNos : d \notin N[t]
      BY <1>9, <2>3
    <3>2. l.prev[d] = NULL /\ l.next[d] = NULL
      BY <3>1 DEF Woven
    <3>3. d # l.prev[c] /\ d # l.next[c]
      BY <2>1, <3>1, ListAssumption
    <3>. QED
      BY <1>1, <2>3, <3>2, <3>3, DetachEffect
  <2>. QED
    BY <2>2, <2>3
<1>10. \A t \in SlotNos : M[t] \subseteq Conns /\ HasOrder(Detach(l, c), M[t], t)
  BY <1>6, <1>7 DEF Woven
<1>11. \A t, u \in SlotNos : t # u => M[t] \cap M[u] = {}
  BY DEF Woven
<1>. QED
  BY <1>8, <1>9, <1>10, <1>11 DEF Woven

LEMMA PushWoven ==
  ASSUME NEW l, NEW N, Woven(l, N), NEW s \in SlotNos, NEW c \in Conns,
         \A t \in SlotNos : c \notin N[t],
         NEW M, M[s] = N[s] \cup {c}, \A t \in SlotNos \ {s} : M[t] = N[t]
  PROVE  Woven(Push(l, c, s), M)
<1>1. l \in Links /\ N[s] \subseteq Conns
  BY DEF Woven
<1>2. PICK n, q : Order(q, n, N[s]) /\ Chained(l, q, s)
  BY DEF Woven, HasOrder
<1>3. Order(InFront(c, q, n), n + 1, N[s] \cup {c})
  BY <1>2, InFrontOrder
<1>4. Chained(Push(l, c, s), InFront(c, q, n), s)
  BY <1>1, <1>2, PushOn
<1>5. HasOrder(Push(l, c, s), N[s] \cup {c}, s)
  BY <1>3, <1>4 DEF HasOrder
<1>6. ASSUME NEW t \in SlotNos \ {s} PROVE HasOrder(Push(l, c, s), N[t], t)
  <2>1. PICK m, r : Order(r, m, N[t]) /\ Chained(l, r, t)
    BY DEF Woven, HasOrder
  <2>2. N[t] \subseteq Conns \ {c} /\ N[t] \cap N[s] = {}
    BY DEF Woven
  <2>3. Chained(Push(l, c, s), r, t)
    BY <1>1, <1>2, <2>1, <2>2, PushBeside
  <2>. QED
    BY <2>1, <2>3 DEF HasOrder
<1>7. Push(l, c, s) \in Links
  BY <1>1, PushEffect
<1>8. ASSUME NEW d \in Conns, \A t \in SlotNos : d \notin M[t]
      PROVE  Push(l, c, s).prev[d] = NULL /\ Push(l, c, s).next[d] = NULL
  <2>1. d # c /\ \A t \in SlotNos : d \notin N[t]
    BY <1>8
  <2>2. l.prev[d] = NULL /\ l.next[d] = NULL
    BY <2>1 DEF Woven
  <2>3. l.head[s] = NULL \/ l.head[s] \in N[s]
    BY <1>2 DEF Order, Chained, At
  <2>4. d # l.head[s]
    BY <2>1, <2>3, ListAssumption
  <2>. QED
    BY <1>1, <2>1, <2>2, <2>4, PushEffect
<1>9. \A t \in SlotNos : M[t] \subseteq Conns /\ HasOrder(Push(l, c, s), M[t], t)
  BY <1>5, <1>6 DEF Woven
<1>10. \A t, u \in SlotNos : t # u => M[t] \cap M[u] = {}
  BY DEF Woven
<1>. QED
  BY <1>7, <1>8, <1>9, <1>10 DEF Woven

-----------------------------------------------------------------------------
(* The invariant.                                                            *)

TypeOK ==
  /\ open \subseteq Conns /\ noded \subseteq open
  /\ current_tick \in Nat
  /\ expire_tick \in [Conns -> Nat]
  /\ wheel_slot \in [Conns -> SlotNos \cup {-1}]
  /\ \A c \in Conns : c \in noded <=> wheel_slot[c] # -1
  /\ node \in Conns \cup {NULL}

Lists == [s \in SlotNos |-> NodesOf(s)]

\* The tick under way has reached position k of its list, and what it has passed
\* is not due.
Passed(q, k) ==
  q[k] = node /\ \A i \in 1..(k - 1) : expire_tick[q[i]] > current_tick

OnItsWay ==
  node # NULL =>
    LET s == current_tick % Slots IN
    \E n, q : /\ Order(q, n, NodesOf(s)) /\ Chained(links, q, s)
              /\ \E k \in 1..n : Passed(q, k)

ListInv == TypeOK /\ Woven(links, Lists) /\ OnItsWay

LEMMA SlotOfDue ==
  ASSUME NEW n \in Nat
  PROVE  n % Slots \in SlotNos
  BY ListAssumption DEF SlotNos

LEMMA NodesAreOnLists ==
  ASSUME TypeOK
  PROVE  /\ \A s \in SlotNos : Lists[s] = NodesOf(s) /\ NodesOf(s) \subseteq Conns
         /\ \A c \in noded : wheel_slot[c] \in SlotNos /\ c \in NodesOf(wheel_slot[c])
         /\ \A c \in Conns \ noded : \A s \in SlotNos : c \notin NodesOf(s)
  BY DEF TypeOK, Lists, NodesOf

\* time_wheel_add, on lists that do not hold the connection.
LEMMA AddKeeps ==
  ASSUME TypeOK, node = NULL, node' = node, current_tick' = current_tick,
         NEW c \in Conns, NEW l, NEW N, Woven(l, N),
         \A s \in SlotNos : N[s] = NodesOf(s) \ {c}, c \notin noded => l = links,
         Add(c, l), open' \subseteq Conns, open \subseteq open', c \in open'
  PROVE  ListInv'
<1>. DEFINE due == (current_tick + Timeout) % Slots
<1>1. due \in SlotNos /\ current_tick + Timeout \in Nat
  BY SlotOfDue, ListAssumption DEF TypeOK
<1>2. CASE /\ noded' = noded \cup {c}
           /\ expire_tick' = [expire_tick EXCEPT ![c] = current_tick + Timeout]
           /\ wheel_slot' = [wheel_slot EXCEPT ![c] = due]
           /\ links' = Push(l, c, due)
  <2>1. TypeOK'
    BY <1>1, <1>2, ListAssumption DEF TypeOK, SlotNos
  <2>2. \A s \in SlotNos : Lists'[s] = IF s = due THEN N[s] \cup {c} ELSE N[s]
    BY <1>1, <1>2 DEF TypeOK, Lists, NodesOf
  <2>3. \A s \in SlotNos : c \notin N[s]
    OBVIOUS
  <2>4. Woven(Push(l, c, due), Lists')
    <3>. HIDE DEF due
    <3>1. PICK M : M = Lists'
      OBVIOUS
    <3>2. M[due] = N[due] \cup {c} /\ \A t \in SlotNos \ {due} : M[t] = N[t]
      BY <1>1, <2>2, <3>1
    <3>3. Woven(Push(l, c, due), M)
      BY <1>1, <2>3, <3>2, PushWoven
    <3>. QED
      BY <3>1, <3>3
  <2>5. Woven(links, Lists)'
    BY <1>2, <2>4 DEF Woven, HasOrder, Links, Chained, At
  <2>. QED
    BY <2>1, <2>5 DEF ListInv, OnItsWay
<1>3. CASE c \notin noded /\ links' = l /\ UNCHANGED <<noded, expire_tick, wheel_slot>>
  <2>1. TypeOK'
    BY <1>3 DEF TypeOK
  <2>2. \A s \in SlotNos : Lists'[s] = N[s]
    BY <1>3 DEF Lists, NodesOf
  <2>3. Woven(links, Lists)'
    BY <1>3, <2>2 DEF Woven
  <2>. QED
    BY <2>1, <2>3 DEF ListInv, OnItsWay
<1>. QED
  BY <1>2, <1>3 DEF Add

\* close_control_connection and time_wheel_remove, at any moment.
LEMMA ClosedKeeps ==
  ASSUME TypeOK, Woven(links, Lists), NEW c \in Conns, Closed(c), node' \in Conns \cup {NULL}
  PROVE  TypeOK' /\ Woven(links, Lists)'
<1>1. TypeOK'
  BY DEF TypeOK, Closed
<1>2. \A s \in SlotNos : Lists'[s] = Lists[s] \ {c}
  BY DEF TypeOK, Closed, Lists, NodesOf
<1>3. CASE c \in noded
  <2>1. PICK s \in SlotNos : s = wheel_slot[c]
    BY <1>3, NodesAreOnLists
  <2>6. c \in Lists[s] /\ \A t \in SlotNos \ {s} : c \notin Lists[t]
    BY <1>3, <2>1 DEF Lists, NodesOf
  <2>2. PICK M : M = Lists'
    OBVIOUS
  <2>3. M[s] = Lists[s] \ {c} /\ \A t \in SlotNos \ {s} : M[t] = Lists[t]
    BY <1>2, <2>2, <2>6
  <2>4. Woven(Detach(links, c), M)
    BY <2>1, <2>3, <2>6, DetachWoven
  <2>5. Woven(links, Lists)'
    BY <1>3, <2>2, <2>4 DEF Closed, Woven, HasOrder, Links, Chained, At
  <2>. QED
    BY <1>1, <2>5
<1>4. CASE c \notin noded
  <2>1. \A s \in SlotNos : Lists'[s] = Lists[s]
    <3>1. \A s \in SlotNos : c \notin Lists[s]
      BY <1>4 DEF Lists, NodesOf
    <3>. QED
      BY <1>2, <3>1
  <2>2. links' = links
    BY <1>4 DEF Closed
  <2>3. Woven(links, Lists)'
    BY <2>1, <2>2 DEF Woven
  <2>. QED
    BY <1>1, <2>3
<1>. QED
  BY <1>3, <1>4

\* One step of the walk: the successor was read before the node went.
LEMMA VisitKeeps ==
  ASSUME ListInv, Visit
  PROVE  ListInv'
<1>0. TypeOK /\ Woven(links, Lists) /\ node # NULL /\ node \in Conns
  BY DEF ListInv, Visit, TypeOK
<1>1. PICK s \in SlotNos : s = current_tick % Slots
  BY <1>0, SlotOfDue DEF TypeOK
<1>2. PICK n, q : /\ Order(q, n, NodesOf(s)) /\ Chained(links, q, s)
                  /\ \E k \in 1..n : Passed(q, k)
  BY <1>0, <1>1 DEF ListInv, OnItsWay
<1>3. PICK k \in 1..n : Passed(q, k)
  BY <1>2
<1>4. /\ n \in Nat /\ DOMAIN q = 1..n /\ k \in Int /\ q[k] = node
      /\ node \in noded /\ wheel_slot[node] = s
      /\ \A i \in 1..n : q[i] \in NodesOf(s) /\ q[i] \in Conns /\ q[i] # NULL
      /\ \A i, j \in 1..n : q[i] = q[j] => i = j
      /\ \A i \in 1..(k - 1) : expire_tick[q[i]] > current_tick
  BY <1>0, <1>2, <1>3, ListAssumption DEF Order, Passed, NodesOf, TypeOK
<1>5. node' = At(q, k + 1) /\ current_tick' = current_tick
  BY <1>2, <1>4 DEF Visit, Chained, Closed
<1>6. node' \in Conns \cup {NULL} /\ (node' # NULL => k + 1 \in 1..n /\ node' = q[k + 1])
  BY <1>4, <1>5 DEF At
<1>9. ASSUME NEW m, NEW p, NEW j \in 1..m,
             Order(p, m, NodesOf(s)'), Chained(links', p, s), Passed(p, j)'
      PROVE  OnItsWay'
  BY <1>1, <1>5, <1>9 DEF OnItsWay
<1>7. CASE expire_tick[node] <= current_tick
  <2>1. Closed(node)
    BY <1>7 DEF Visit
  <2>2. TypeOK' /\ Woven(links, Lists)'
    BY <1>0, <1>6, <2>1, ClosedKeeps
  <2>3. /\ links' = Detach(links, node) /\ NodesOf(s)' = NodesOf(s) \ {node}
        /\ \A d \in Conns \ {node} : expire_tick'[d] = expire_tick[d]
    <3>1. NodesOf(s)' = NodesOf(s) \ {node}
      BY <1>0, <1>4, <2>1 DEF Closed, NodesOf, TypeOK
    <3>. QED
      BY <1>0, <1>4, <2>1, <3>1 DEF Closed, TypeOK
  <2>. DEFINE r == Without(q, n, k)
  <2>4. Order(r, n - 1, NodesOf(s) \ {node})
    BY <1>2, <1>3, <1>4, WithoutOrder
  <2>5. Chained(Detach(links, node), r, s)
    <3>1. links \in Links /\ NodesOf(s) \subseteq Conns
      BY <1>0, NodesAreOnLists DEF Woven
    <3>. QED
      BY <1>2, <1>3, <1>4, <3>1, DetachFrom
  <2>6. \A i \in 1..(n - 1) : r[i] = IF i < k THEN q[i] ELSE q[i + 1]
    BY DEF Without
  <2>. HIDE DEF r
  <2>7. ASSUME node' # NULL PROVE k \in 1..(n - 1) /\ Passed(r, k)'
    <3>1. k \in 1..(n - 1) /\ r[k] = node'
      BY <1>4, <1>6, <2>6, <2>7
    <3>2. ASSUME NEW i \in 1..(k - 1) PROVE expire_tick'[r[i]] > current_tick'
      <4>1. i \in 1..n /\ i # k /\ r[i] = q[i] /\ q[i] # node /\ q[i] \in Conns
        BY <1>4, <2>6, <3>1
      <4>. QED
        BY <1>4, <1>5, <2>3, <4>1
    <3>. QED
      BY <3>1, <3>2 DEF Passed
  <2>8. OnItsWay'
    <3>1. CASE node' # NULL
      <4>1. k \in 1..(n - 1) /\ Passed(r, k)'
        BY <2>7, <3>1
      <4>2. Order(r, n - 1, NodesOf(s)') /\ Chained(links', r, s)
        BY <2>3, <2>4, <2>5
      <4>. QED
        BY <1>9, <4>1, <4>2
    <3>2. CASE node' = NULL
      BY <3>2 DEF OnItsWay
    <3>. QED
      BY <3>1, <3>2
  <2>. QED
    BY <2>2, <2>8 DEF ListInv
<1>8. CASE ~(expire_tick[node] <= current_tick)
  <2>1. UNCHANGED <<open, noded, current_tick, expire_tick, noMem, links, wheel_slot>>
    BY <1>8 DEF Visit
  <2>2. TypeOK'
    BY <1>0, <1>6, <2>1 DEF TypeOK
  <2>3. Lists' = Lists /\ NodesOf(s)' = NodesOf(s)
    BY <2>1 DEF Lists, NodesOf
  <2>4. Woven(links, Lists)'
    BY <1>0, <2>1, <2>3 DEF Woven
  <2>5. expire_tick[node] > current_tick
    BY <1>0, <1>8 DEF TypeOK
  <2>6. OnItsWay'
    <3>1. CASE node' # NULL
      <4>1. k + 1 \in 1..n /\ Passed(q, k + 1)'
        BY <1>4, <1>6, <2>1, <2>5, <3>1 DEF Passed
      <4>2. Order(q, n, NodesOf(s)') /\ Chained(links', q, s)
        BY <1>2, <2>1, <2>3
      <4>. QED
        BY <1>9, <4>1, <4>2
    <3>2. CASE node' = NULL
      BY <3>2 DEF OnItsWay
    <3>. QED
      BY <3>1, <3>2
  <2>. QED
    BY <2>2, <2>4, <2>6 DEF ListInv
<1>. QED
  BY <1>7, <1>8

LEMMA ListInit ==
  ASSUME Init
  PROVE  ListInv
<1>1. TypeOK
  BY ListAssumption DEF Init, TypeOK
<1>2. links \in Links /\ \A s \in SlotNos : Lists[s] = {}
  BY DEF Init, Links, SlotNos, Lists, NodesOf
<1>3. ASSUME NEW s \in SlotNos PROVE HasOrder(links, Lists[s], s)
  <2>. DEFINE q == [i \in 1..0 |-> NULL]
  <2>1. Order(q, 0, Lists[s])
    BY <1>2 DEF Order
  <2>2. links.head[s] = NULL
    BY DEF Init, SlotNos
  <2>3. Chained(links, q, s)
    BY <2>2 DEF Chained, At
  <2>. QED
    BY <2>1, <2>3 DEF HasOrder
<1>4. Woven(links, Lists)
  BY <1>2, <1>3 DEF Woven, Init
<1>. QED
  BY <1>1, <1>4 DEF ListInv, OnItsWay, Init

LEMMA RegisterKeeps ==
  ASSUME ListInv, NEW c \in Conns, Register(c)
  PROVE  ListInv'
<1>1. TypeOK /\ Woven(links, Lists)
  BY DEF ListInv
<1>2. PICK N : N = Lists
  OBVIOUS
<1>3. c \notin noded /\ \A s \in SlotNos : N[s] = NodesOf(s) \ {c}
  BY <1>1, <1>2 DEF Register, TypeOK, Lists, NodesOf
<1>4. Woven(links, N)
  BY <1>1, <1>2
<1>. QED
  BY <1>1, <1>3, <1>4, AddKeeps DEF Register, TypeOK

LEMMA RefreshKeeps ==
  ASSUME ListInv, NEW c \in Conns, Refresh(c)
  PROVE  ListInv'
<1>1. TypeOK /\ Woven(links, Lists)
  BY DEF ListInv
<1>2. PICK N : N = [s \in SlotNos |-> NodesOf(s) \ {c}]
  OBVIOUS
<1>3. CASE c \in noded
  <2>1. PICK s \in SlotNos : s = wheel_slot[c]
    BY <1>1, <1>3, NodesAreOnLists
  <2>2. /\ c \in Lists[s] /\ N[s] = Lists[s] \ {c}
        /\ \A t \in SlotNos \ {s} : N[t] = Lists[t]
    BY <1>2, <1>3, <2>1 DEF Lists, NodesOf
  <2>3. PICK M : M = Lists
    OBVIOUS
  <2>4. Woven(Detach(links, c), N)
    BY <1>1, <2>1, <2>2, <2>3, DetachWoven
  <2>5. Add(c, Detach(links, c))
    BY <1>3, <2>1 DEF Refresh, SlotNos
  <2>. QED
    BY <1>1, <1>2, <1>3, <2>4, <2>5, AddKeeps DEF Refresh, TypeOK
<1>4. CASE c \notin noded
  <2>1. N = Lists
    BY <1>2, <1>4 DEF Lists, NodesOf
  <2>2. Add(c, links) /\ Woven(links, N)
    BY <1>1, <1>4, <2>1 DEF Refresh
  <2>. QED
    BY <1>1, <1>2, <2>2, AddKeeps DEF Refresh, TypeOK
<1>. QED
  BY <1>3, <1>4

LEMMA RemoveKeeps ==
  ASSUME ListInv, NEW c \in Conns, Remove(c)
  PROVE  ListInv'
<1>1. TypeOK /\ Woven(links, Lists) /\ Closed(c) /\ node' = NULL
  BY DEF ListInv, Remove
<1>2. TypeOK' /\ Woven(links, Lists)'
  BY <1>1, ClosedKeeps
<1>. QED
  BY <1>1, <1>2 DEF ListInv, OnItsWay

LEMMA TickKeeps ==
  ASSUME ListInv, Tick
  PROVE  ListInv'
<1>1. TypeOK /\ Woven(links, Lists)
  BY DEF ListInv
<1>2. PICK s \in SlotNos : s = (current_tick + 1) % Slots
  BY <1>1, SlotOfDue DEF TypeOK
<1>3. Lists' = Lists /\ NodesOf(s)' = NodesOf(s) /\ links' = links /\ s = current_tick' % Slots
  BY <1>2 DEF Tick, Lists, NodesOf
<1>4. PICK n, q : Order(q, n, NodesOf(s)) /\ Chained(links, q, s)
  BY <1>1 DEF Woven, HasOrder, Lists
<1>5. node' = At(q, 1)
  BY <1>2, <1>4 DEF Tick, Chained
<1>6. TypeOK'
  <2>1. links.head \in [SlotNos -> Conns \cup {NULL}]
    BY <1>1 DEF Woven, Links
  <2>2. node' \in Conns \cup {NULL}
    BY <1>2, <2>1 DEF Tick
  <2>. QED
    BY <1>1, <2>2 DEF Tick, TypeOK
<1>7. Woven(links, Lists)'
  BY <1>1, <1>3 DEF Woven
<1>8. CASE node' # NULL
  <2>1. 1 \in 1..n /\ node' = q[1]
    BY <1>4, <1>5, <1>8 DEF At, Order
  <2>2. Passed(q, 1)'
    BY <2>1 DEF Passed
  <2>3. Order(q, n, NodesOf(s)') /\ Chained(links', q, s)
    BY <1>3, <1>4
  <2>4. OnItsWay'
    BY <1>3, <2>1, <2>2, <2>3 DEF OnItsWay
  <2>. QED
    BY <1>6, <1>7, <2>4 DEF ListInv
<1>9. CASE node' = NULL
  BY <1>6, <1>7, <1>9 DEF ListInv, OnItsWay
<1>. QED
  BY <1>8, <1>9

LEMMA IdleKeeps ==
  ASSUME ListInv, UNCHANGED vars
  PROVE  ListInv'
<1>1. TypeOK'
  BY DEF ListInv, TypeOK, vars
<1>2. Lists' = Lists /\ links' = links
  BY DEF Lists, NodesOf, vars
<1>3. Woven(links, Lists)'
  BY <1>2 DEF ListInv, Woven
<1>4. OnItsWay'
  BY DEF ListInv, OnItsWay, Passed, NodesOf, vars
<1>. QED
  BY <1>1, <1>3, <1>4 DEF ListInv

THEOREM ListCorrect == Spec => []ListInv
<1>1. ListInv /\ [Next]_vars => ListInv'
  BY RegisterKeeps, RefreshKeeps, RemoveKeeps, TickKeeps, VisitKeeps, IdleKeeps DEF Next
<1>. QED
  BY ListInit, <1>1, PTL DEF Spec
-----------------------------------------------------------------------------
(* The lists are well linked.                                                *)

LEMMA ListLength ==
  ASSUME NEW S, NEW n, NEW q, Order(q, n, S)
  PROVE  Cardinality(S) = n /\ q \in Bijection(1..Cardinality(S), S)
<1>1. n \in Nat /\ q \in [1..n -> S] /\ IsFiniteSet(1..n) /\ Cardinality(1..n) = n
  BY FS_Interval DEF Order
<1>2. q \in Bijection(1..n, S)
  BY <1>1 DEF Order, Bijection, Injection, Surjection, IsInjective
<1>3. ExistsBijection(1..n, S)
  BY <1>2 DEF ExistsBijection
<1>4. Cardinality(S) = n
  BY <1>1, <1>3, FS_Bijection
<1>. QED
  BY <1>2, <1>4

\* In every state, each list is one chain through exactly the nodes put on it.
THEOREM ListsWellLinked == Spec => []WellLinked
<1>1. ListInv => WellLinked
  <2>. SUFFICES ASSUME ListInv PROVE WellLinked
    OBVIOUS
  <2>1. TypeOK /\ Woven(links, Lists)
    BY DEF ListInv
  <2>2. ASSUME NEW s \in SlotNos
        PROVE  \E q \in Bijection(1..Cardinality(NodesOf(s)), NodesOf(s)) : IsList(q, s)
    <3>1. PICK n, q : Order(q, n, NodesOf(s)) /\ Chained(links, q, s)
      BY <2>1 DEF Woven, HasOrder, Lists
    <3>2. q \in Bijection(1..Cardinality(NodesOf(s)), NodesOf(s))
      BY <3>1, ListLength
    <3>. QED
      BY <3>1, <3>2 DEF Chained, IsList
  <2>3. noded = UNION {NodesOf(s) : s \in SlotNos}
    BY <2>1, NodesAreOnLists DEF NodesOf
  <2>4. node \in NodesOf(current_tick % Slots) \cup {NULL}
    BY DEF ListInv, OnItsWay, Passed, Order
  <2>5. ASSUME NEW c \in Conns \ noded
        PROVE  links.prev[c] = NULL /\ links.next[c] = NULL /\ wheel_slot[c] = -1
    <3>1. \A s \in SlotNos : c \notin Lists[s]
      BY DEF Lists, NodesOf
    <3>. QED
      BY <2>1, <3>1 DEF Woven, TypeOK
  <2>. QED
    BY <2>2, <2>3, <2>4, <2>5 DEF WellLinked, SlotNos
<1>. QED
  BY ListCorrect, <1>1, PTL

-----------------------------------------------------------------------------
(* What a list leads to, and what the tick under way has still to close.     *)

LEMMA OnListNodes ==
  ASSUME TypeOK, Woven(links, Lists), NEW s \in SlotNos
  PROVE  OnList(s) = NodesOf(s)
<1>1. PICK n, q : Order(q, n, NodesOf(s)) /\ Chained(links, q, s)
  BY DEF Woven, HasOrder, Lists
<1>2. /\ n \in Nat /\ DOMAIN q = 1..n /\ NodesOf(s) \subseteq Conns
      /\ \A i \in 1..n : q[i] \in NodesOf(s) /\ q[i] \in Conns /\ q[i] # NULL
      /\ \A c \in NodesOf(s) : \E i \in 1..n : q[i] = c
  BY <1>1, NodesAreOnLists, ListAssumption DEF Order
<1>3. OnList(s) \subseteq NodesOf(s)
  <2>1. links.head[s] \in NodesOf(s) \cup {NULL}
    BY <1>1, <1>2 DEF Chained, At
  <2>2. ASSUME NEW d \in NodesOf(s) PROVE links.next[d] \in NodesOf(s) \cup {NULL}
    <3>1. PICK i \in 1..n : q[i] = d
      BY <1>2
    <3>. QED
      BY <1>1, <1>2, <3>1 DEF Chained, At
  <2>. QED
    BY <1>2, <2>1, <2>2 DEF OnList
<1>4. ASSUME NEW T \in SUBSET Conns, links.head[s] \in T \cup {NULL},
             \A d \in T : links.next[d] \in T \cup {NULL}
      PROVE  NodesOf(s) \subseteq T
  <2>. DEFINE Missed == {i \in 1..n : q[i] \notin T}
  <2>1. SUFFICES ASSUME Missed # {} PROVE FALSE
    BY <1>2
  <2>5. Missed \subseteq Nat
    BY <1>2
  <2>. HIDE DEF Missed
  <2>6. PICK i \in Missed : \A j \in Missed : i <= j
    BY <2>1, <2>5, Least
  <2>2. i \in 1..n /\ q[i] \notin T /\ \A j \in 1..n : q[j] \notin T => i <= j
    BY <2>6 DEF Missed
  <2>3. CASE i = 1
    BY <1>1, <1>2, <1>4, <2>2, <2>3 DEF Chained, At
  <2>4. CASE i # 1
    <3>1. i - 1 \in 1..n /\ q[i - 1] \in T
      BY <1>2, <2>2, <2>4
    <3>2. links.next[q[i - 1]] = At(q, i) /\ At(q, i) = q[i]
      <4>1. \A j \in 1..n : links.next[q[j]] = At(q, j + 1)
        BY <1>1, <1>2 DEF Chained
      <4>2. links.next[q[i - 1]] = At(q, (i - 1) + 1)
        BY <3>1, <4>1
      <4>3. (i - 1) + 1 = i
        BY <1>2, <2>2
      <4>. QED
        BY <1>2, <2>2, <4>2, <4>3 DEF At
    <3>. QED
      BY <1>2, <1>4, <2>2, <3>1, <3>2
  <2>. QED
    BY <2>3, <2>4
<1>5. NodesOf(s) \subseteq OnList(s)
  BY <1>2, <1>4 DEF OnList
<1>. QED
  BY <1>3, <1>5
StillDue ==
  /\ Expired = {c \in noded : /\ node # NULL /\ wheel_slot[c] = current_tick % Slots
                              /\ expire_tick[c] <= current_tick}
  /\ \A s \in SlotNos : OnList(s) = NodesOf(s)

LEMMA ExpiredNodes == ListInv => StillDue
<1>. SUFFICES ASSUME ListInv PROVE StillDue
  OBVIOUS
<1>1. TypeOK /\ Woven(links, Lists)
  BY DEF ListInv
<1>2. current_tick % Slots \in SlotNos
  BY <1>1, SlotOfDue DEF TypeOK
<1>3. \A s \in SlotNos : OnList(s) = NodesOf(s)
  BY <1>1, OnListNodes
<1>4. OnList(current_tick % Slots) = NodesOf(current_tick % Slots)
  BY <1>2, <1>3
<1>. QED
  BY <1>3, <1>4 DEF StillDue, Expired, NodesOf

LEMMA ExpiredNodesNext == ListInv' => StillDue'
  BY ExpiredNodes, PTL

\* The connections, lists and deadlines as TimeWheel has them.
SeenSlots == [s \in SlotNos |-> NodesOf(s) \ Expired]
SeenExpire == [c \in Conns |-> IF c \in Expired THEN 0 ELSE expire_tick[c]]

LEMMA SeenOutside ==
  ASSUME ListInv, node = NULL
  PROVE  /\ Expired = {} /\ open \ Expired = open /\ noded \ Expired = noded
         /\ SeenSlots = Lists /\ SeenExpire = expire_tick
<1>1. Expired = {}
  BY DEF Expired
<1>2. SeenSlots = Lists
  BY <1>1 DEF SeenSlots, Lists
<1>3. SeenExpire = expire_tick
  BY <1>1 DEF SeenExpire, ListInv, TypeOK
<1>. QED
  BY <1>1, <1>2, <1>3

\* A step of the walk closes at most the node it stands on, and at the end of the
\* list nothing is left to close.
LEMMA VisitCloses ==
  ASSUME ListInv, Visit
  PROVE  /\ node \in noded
         /\ Expired' = Expired \ {node}
         /\ IF node \in Expired THEN Closed(node)
            ELSE UNCHANGED <<open, noded, current_tick, expire_tick, noMem, links, wheel_slot>>
<1>0. TypeOK /\ TypeOK' /\ ListInv' /\ node # NULL /\ node \in Conns
  BY VisitKeeps DEF ListInv, Visit, TypeOK
<1>1. PICK s \in SlotNos : s = current_tick % Slots
  BY <1>0, SlotOfDue DEF TypeOK
<1>2. PICK n, q : /\ Order(q, n, NodesOf(s)) /\ Chained(links, q, s)
                  /\ \E k \in 1..n : Passed(q, k)
  BY <1>0, <1>1 DEF ListInv, OnItsWay
<1>3. PICK k \in 1..n : Passed(q, k)
  BY <1>2
<1>4. /\ n \in Nat /\ DOMAIN q = 1..n /\ k \in Int /\ q[k] = node
      /\ node \in noded /\ wheel_slot[node] = s
      /\ \A i \in 1..n : q[i] \in NodesOf(s) /\ q[i] \in Conns /\ q[i] # NULL
      /\ \A c \in NodesOf(s) : \E i \in 1..n : q[i] = c
      /\ \A i \in 1..(k - 1) : expire_tick[q[i]] > current_tick
  BY <1>0, <1>2, <1>3, ListAssumption DEF Order, Passed, NodesOf, TypeOK
<1>5. node' = At(q, k + 1) /\ current_tick' = current_tick
  BY <1>2, <1>4 DEF Visit, Chained, Closed
<1>6. /\ Expired = {c \in noded : wheel_slot[c] = s /\ expire_tick[c] <= current_tick}
      /\ Expired' = {c \in noded' : /\ node' # NULL /\ wheel_slot'[c] = s
                                    /\ expire_tick'[c] <= current_tick}
  <2>1. Expired = {c \in noded : /\ node # NULL /\ wheel_slot[c] = current_tick % Slots
                                 /\ expire_tick[c] <= current_tick}
    BY ExpiredNodes DEF StillDue
  <2>2. Expired' = {c \in noded' : /\ node' # NULL /\ wheel_slot'[c] = current_tick' % Slots
                                   /\ expire_tick'[c] <= current_tick'}
    BY <1>0, ExpiredNodesNext DEF StillDue
  <2>. QED
    BY <1>0, <1>1, <1>5, <2>1, <2>2
<1>7. node \in Expired <=> expire_tick[node] <= current_tick
  BY <1>4, <1>6
<1>8. IF node \in Expired THEN Closed(node)
      ELSE UNCHANGED <<open, noded, current_tick, expire_tick, noMem, links, wheel_slot>>
  BY <1>7 DEF Visit
<1>9. {c \in noded' : wheel_slot'[c] = s /\ expire_tick'[c] <= current_tick} = Expired \ {node}
  <2>1. CASE node \in Expired
    BY <1>0, <1>6, <1>8, <2>1 DEF Closed, TypeOK
  <2>2. CASE node \notin Expired
    BY <1>6, <1>8, <2>2
  <2>. QED
    BY <2>1, <2>2
<1>10. CASE node' # NULL
  BY <1>4, <1>6, <1>8, <1>9, <1>10
<1>11. CASE node' = NULL
  <2>1. k = n
    BY <1>4, <1>5, <1>11 DEF At
  <2>2. ASSUME NEW c \in Expired PROVE c = node
    <3>1. c \in NodesOf(s) /\ expire_tick[c] <= current_tick
      BY <1>6 DEF NodesOf
    <3>2. PICK i \in 1..n : q[i] = c
      BY <1>4, <3>1
    <3>3. ~ (i < k)
      BY <1>0, <1>4, <3>1, <3>2 DEF TypeOK
    <3>. QED
      BY <1>4, <2>1, <3>2, <3>3
  <2>3. Expired' = {}
    BY <1>6, <1>11
  <2>. QED
    BY <1>4, <1>8, <2>2, <2>3
<1>. QED
  BY <1>10, <1>11
-----------------------------------------------------------------------------
(* The lists implement TimeWheel's sets, a step at a time.                   *)

LEMMA SeenMap ==
  ASSUME ListInv
  PROVE  [s \in 0..(Slots - 1) |-> OnList(s) \ Expired] = SeenSlots
  BY ExpiredNodes DEF StillDue, SeenSlots, SlotNos

LEMMA SeenInit ==
  ASSUME Init
  PROVE  Wheel!Init
<1>1. ListInv
  BY ListInit
<1>2. SeenSlots = Lists /\ Expired = {} /\ SeenExpire = expire_tick
  BY <1>1, SeenOutside DEF Init
<1>3. SeenSlots = [s \in 0..(Slots - 1) |-> {}]
  BY <1>2 DEF Lists, NodesOf, Init, SlotNos
<1>. QED
  BY <1>1, <1>2, <1>3, SeenMap DEF Init, Wheel!Init, SeenExpire
LEMMA SeenAdd ==
  ASSUME TypeOK, NEW c \in Conns, NEW l, NEW lists, Add(c, l),
         lists = [s \in SlotNos |-> NodesOf(s) \ {c}]
  PROVE  \/ /\ noded' = noded \cup {c}
            /\ expire_tick' = [expire_tick EXCEPT ![c] = current_tick + Timeout]
            /\ Lists' = [lists EXCEPT ![(current_tick + Timeout) % Slots] = @ \cup {c}]
            /\ UNCHANGED noMem
         \/ /\ c \notin noded
            /\ noMem < MaxNoMem
            /\ noMem' = noMem + 1
            /\ Lists' = lists
            /\ UNCHANGED <<noded, expire_tick>>
<1>1. PICK due : due = (current_tick + Timeout) % Slots
  OBVIOUS
<1>2. due \in SlotNos
  BY <1>1, SlotOfDue, ListAssumption DEF TypeOK
<1>3. CASE noded' = noded \cup {c} /\ wheel_slot' = [wheel_slot EXCEPT ![c] = due]
  <2>1. ASSUME NEW s \in SlotNos
        PROVE  Lists'[s] = IF s = due THEN lists[s] \cup {c} ELSE lists[s]
    BY <1>2, <1>3 DEF TypeOK, Lists, NodesOf
  <2>2. Lists' = [lists EXCEPT ![due] = @ \cup {c}]
    BY <1>2, <2>1 DEF Lists
  <2>. QED
    BY <1>1, <1>3, <2>2 DEF Add
<1>4. CASE c \notin noded /\ UNCHANGED <<noded, wheel_slot>>
  <2>1. Lists' = lists
    BY <1>4 DEF Lists, NodesOf
  <2>. QED
    BY <1>4, <2>1 DEF Add
<1>. QED
  BY <1>1, <1>3, <1>4 DEF Add
\* TimeWheel's variables before and after a step that begins and ends outside a walk.
LEMMA SeenStep ==
  ASSUME ListInv, ListInv', node = NULL, node' = NULL
  PROVE  /\ [s \in 0..(Slots - 1) |-> OnList(s) \ Expired] = Lists
         /\ [s \in 0..(Slots - 1) |-> OnList(s)' \ Expired'] = Lists'
         /\ Expired = {} /\ Expired' = {}
         /\ [c \in Conns |-> IF c \in Expired THEN 0 ELSE expire_tick[c]] = expire_tick
         /\ [c \in Conns |-> IF c \in Expired' THEN 0 ELSE expire_tick'[c]] = expire_tick'
<1>1. Expired = {} /\ Expired' = {}
  BY DEF Expired
<1>2. StillDue /\ StillDue'
  BY ExpiredNodes, ExpiredNodesNext
<1>3. [s \in 0..(Slots - 1) |-> OnList(s) \ Expired] = Lists
  BY <1>1, <1>2 DEF StillDue, Lists, SlotNos
<1>4. [s \in 0..(Slots - 1) |-> OnList(s)' \ Expired'] = Lists'
  BY <1>1, <1>2 DEF StillDue, Lists, SlotNos
<1>5. expire_tick \in [Conns -> Nat] /\ expire_tick' \in [Conns -> Nat]
  BY DEF ListInv, TypeOK
<1>. QED
  BY <1>1, <1>3, <1>4, <1>5

LEMMA SeenRegister ==
  ASSUME ListInv, NEW c \in Conns, Register(c)
  PROVE  Wheel!Register(c)
<1>1. ListInv' /\ node = NULL /\ node' = NULL /\ TypeOK
  BY RegisterKeeps DEF Register, ListInv
<1>2. Lists = [s \in SlotNos |-> NodesOf(s) \ {c}]
  BY <1>1 DEF Register, TypeOK, Lists, NodesOf
<1>3. Add(c, links)
  BY DEF Register
<1>. QED
  BY <1>1, <1>2, <1>3, SeenAdd, SeenStep
     DEF Register, Wheel!Register, Wheel!Add, Wheel!SlotOf

LEMMA SeenRefresh ==
  ASSUME ListInv, NEW c \in Conns, Refresh(c)
  PROVE  Wheel!Refresh(c)
<1>1. ListInv' /\ node = NULL /\ node' = NULL /\ TypeOK
  BY RefreshKeeps DEF Refresh, ListInv
<1>2. PICK lists : lists = [s \in SlotNos |-> NodesOf(s) \ {c}]
  OBVIOUS
<1>3. lists = IF c \in noded THEN [s \in SlotNos |-> Lists[s] \ {c}] ELSE Lists
  BY <1>2 DEF Lists, NodesOf
<1>4. PICK l : Add(c, l)
  BY DEF Refresh
<1>5. DOMAIN Lists = SlotNos
  BY DEF Lists
<1>6. Wheel!Detached(c) = [s \in SlotNos |-> Lists[s] \ {c}]
  BY <1>1, <1>5, SeenStep DEF Wheel!Detached
<1>7. /\ open \ Expired = open /\ open' \ Expired' = open'
      /\ noded \ Expired = noded /\ noded' \ Expired' = noded'
  BY <1>1, SeenStep
<1>8. (IF c \in noded \ Expired THEN Wheel!Detached(c)
       ELSE [s \in 0..(Slots - 1) |-> OnList(s) \ Expired]) = lists
  BY <1>1, <1>3, <1>6, <1>7, SeenStep
<1>9. \/ /\ noded' = noded \cup {c}
         /\ expire_tick' = [expire_tick EXCEPT ![c] = current_tick + Timeout]
         /\ Lists' = [lists EXCEPT ![(current_tick + Timeout) % Slots] = @ \cup {c}]
         /\ UNCHANGED noMem
      \/ /\ c \notin noded
         /\ noMem < MaxNoMem
         /\ noMem' = noMem + 1
         /\ Lists' = lists
         /\ UNCHANGED <<noded, expire_tick>>
  BY <1>1, <1>2, <1>4, SeenAdd
<1>. QED
  BY <1>1, <1>7, <1>8, <1>9, SeenStep DEF Refresh, Wheel!Refresh, Wheel!Add, Wheel!SlotOf

LEMMA SeenRemove ==
  ASSUME ListInv, NEW c \in Conns, Remove(c)
  PROVE  Wheel!Remove(c)
<1>1. ListInv' /\ node = NULL /\ node' = NULL /\ TypeOK /\ Closed(c)
  BY RemoveKeeps DEF Remove, ListInv
<1>2. Lists' = IF c \in noded THEN [s \in SlotNos |-> Lists[s] \ {c}] ELSE Lists
  BY <1>1 DEF Closed, TypeOK, Lists, NodesOf
<1>3. DOMAIN Lists = SlotNos
  BY DEF Lists
<1>. QED
  BY <1>1, <1>2, <1>3, SeenStep DEF Remove, Closed, Wheel!Remove, Wheel!Detached

\* The tick closes at once what the walk will find due.
LEMMA SeenTick ==
  ASSUME ListInv, Tick
  PROVE  Wheel!Tick
<1>1. ListInv' /\ node = NULL /\ TypeOK /\ TypeOK' /\ StillDue'
  BY TickKeeps, ExpiredNodesNext DEF Tick, ListInv
<1>2. PICK s \in SlotNos : s = (current_tick + 1) % Slots
  BY <1>1, SlotOfDue DEF TypeOK
<1>3. PICK due : due = {c \in Lists[s] : expire_tick[c] <= current_tick + 1}
  OBVIOUS
<1>4. Lists[s] = NodesOf(s)
  BY DEF Lists
<1>5. Expired' = due
  <2>1. Expired' = {c \in noded : /\ node' # NULL /\ wheel_slot[c] = s
                                  /\ expire_tick[c] <= current_tick + 1}
    BY <1>1, <1>2 DEF StillDue, Tick
  <2>2. node' = NULL => NodesOf(s) = {}
    <3>1. PICK n, q : Order(q, n, NodesOf(s)) /\ Chained(links, q, s)
      BY <1>4 DEF ListInv, Woven, HasOrder
    <3>2. node' = At(q, 1)
      BY <1>2, <3>1 DEF Tick, Chained
    <3>3. \A i \in 1..n : q[i] # NULL
      BY <1>1, <3>1, NodesAreOnLists, ListAssumption DEF Order
    <3>4. ASSUME node' = NULL, NEW c \in NodesOf(s) PROVE FALSE
      <4>1. PICK i \in 1..n : q[i] = c
        BY <3>1 DEF Order
      <4>2. 1 \in 1..n /\ 1 \in DOMAIN q
        BY <3>1, <4>1 DEF Order
      <4>. QED
        BY <3>2, <3>3, <3>4, <4>2 DEF At
    <3>. QED
      BY <3>4
  <2>. QED
    BY <1>3, <1>4, <2>1, <2>2 DEF NodesOf
<1>6. /\ [t \in 0..(Slots - 1) |-> OnList(t) \ Expired] = Lists
      /\ Expired = {}
      /\ [c \in Conns |-> IF c \in Expired THEN 0 ELSE expire_tick[c]] = expire_tick
  BY <1>1, SeenMap, SeenOutside DEF SeenExpire
<1>7. [t \in 0..(Slots - 1) |-> OnList(t)' \ Expired'] = [t \in DOMAIN Lists |-> Lists[t] \ due]
  <2>1. \A t \in SlotNos : OnList(t)' = NodesOf(t)
    BY <1>1 DEF StillDue, Tick, NodesOf
  <2>. QED
    BY <1>5, <2>1 DEF Lists, SlotNos
<1>8. [c \in Conns |-> IF c \in Expired' THEN 0 ELSE expire_tick'[c]]
      = [c \in Conns |-> IF c \in due THEN 0 ELSE expire_tick[c]]
  BY <1>5 DEF Tick
<1>9. Wheel!Due(current_tick + 1) = due
  BY <1>2, <1>3, <1>6 DEF Wheel!Due, Wheel!SlotOf
<1>. QED
  BY <1>5, <1>6, <1>7, <1>8, <1>9 DEF Tick, Wheel!Tick

\* The walk closes what TimeWheel has closed already.
LEMMA SeenVisit ==
  ASSUME ListInv, Visit
  PROVE  UNCHANGED Wheel!vars
<1>1. ListInv' /\ TypeOK /\ StillDue /\ StillDue'
  BY VisitKeeps, ExpiredNodes, ExpiredNodesNext DEF ListInv
<1>2. /\ node \in noded
      /\ Expired' = Expired \ {node}
      /\ IF node \in Expired THEN Closed(node)
         ELSE UNCHANGED <<open, noded, current_tick, expire_tick, noMem, links, wheel_slot>>
  BY VisitCloses
<1>3. /\ open' \ Expired' = open \ Expired /\ noded' \ Expired' = noded \ Expired
      /\ current_tick' = current_tick /\ noMem' = noMem
  BY <1>2 DEF Closed
<1>4. \A s \in SlotNos : NodesOf(s)' \ Expired' = NodesOf(s) \ Expired
  BY <1>1, <1>2 DEF Closed, NodesOf, TypeOK
<1>5. [s \in 0..(Slots - 1) |-> OnList(s)' \ Expired']
      = [s \in 0..(Slots - 1) |-> OnList(s) \ Expired]
  BY <1>1, <1>4 DEF StillDue, SlotNos
<1>6. \A c \in Conns : (IF c \in Expired' THEN 0 ELSE expire_tick'[c])
                        = (IF c \in Expired THEN 0 ELSE expire_tick[c])
  BY <1>1, <1>2 DEF Closed, TypeOK
<1>7. [c \in Conns |-> IF c \in Expired' THEN 0 ELSE expire_tick'[c]]
      = [c \in Conns |-> IF c \in Expired THEN 0 ELSE expire_tick[c]]
  BY <1>6
<1>. QED
  BY <1>3, <1>5, <1>7 DEF Wheel!vars

LEMMA SeenIdle ==
  ASSUME UNCHANGED vars
  PROVE  UNCHANGED Wheel!vars
<1>1. \A s : OnList(s)' = OnList(s)
  BY DEF vars, OnList
<1>2. Expired' = Expired
  BY <1>1 DEF vars, Expired
<1>. QED
  BY <1>1, <1>2 DEF vars, Wheel!vars

\* Whatever the pointers go through, the wheel behaves as the sets of TimeWheel.
THEOREM ListsImplementSets == Spec => ListsAreSets
<1>1. Init => Wheel!Init
  BY SeenInit
<1>2. ListInv /\ [Next]_vars => [Wheel!Next]_(Wheel!vars)
  BY SeenRegister, SeenRefresh, SeenRemove, SeenTick, SeenVisit, SeenIdle DEF Next, Wheel!Next
<1>. QED
  BY <1>1, <1>2, ListCorrect, PTL DEF Spec, ListsAreSets, Wheel!Spec
=============================================================================
