---------------------------- MODULE KernelProofs ----------------------------
(***************************************************************************)
(* Proofs about threads and message queues, for any number of threads,     *)
(* priorities, queues and messages.                                        *)
(*                                                                         *)
(* First what insertion and removal do to a sorted queue; then what the    *)
(* helpers do to the threads and their queues, each with the set Out of    *)
(* threads that are in no queue, since in the middle of a call a thread is *)
(* between two; then the calls, and the invariants; last the mail boxes.   *)
(***************************************************************************)
EXTENDS Kernel, FiniteSetTheorems, SequenceTheorems, WellFoundedInduction, TLAPS

-----------------------------------------------------------------------------
(* Sorted queues.                                                          *)

Distinct(q) == \A i, j \in DOMAIN q : q[i] = q[j] => i = j

Sorted(pri, q) == \A i, j \in DOMAIN q : i < j => pri[q[i]] >= pri[q[j]]

Members(q) == {q[i] : i \in DOMAIN q}

AheadIn(q, t, u) == \E i, j \in DOMAIN q : i < j /\ q[i] = t /\ q[j] = u

\* r is q without its n-th element.
Cut(q, r, n) ==
  /\ n \in 1..Len(q) /\ Len(r) = Len(q) - 1
  /\ \A i \in 1..Len(r) : r[i] = IF i < n THEN q[i] ELSE q[i + 1]

\* r is q without one place of t.
CutOut(q, r, t) == \E n : Cut(q, r, n) /\ q[n] = t

\* The n-th place in q is the one for a newcomer t: before all of lower priority.
PlaceFor(pri, q, t, n) ==
  /\ \A i \in 1..Len(q) : i < n => pri[q[i]] >= pri[t]
  /\ n <= Len(q) => pri[q[n]] < pri[t]

\* Between q and r nobody overtakes one of the same priority.
InTurn(pri, q, r) ==
  \A t \in Members(q) \cap Members(r), u \in Members(r) :
    (u \notin Members(q) \/ AheadIn(q, t, u)) /\ pri[t] = pri[u] => AheadIn(r, t, u)

\* A set of numbers that is not empty has a least one.
LEMMA LeastNumber ==
  ASSUME NEW I \in SUBSET Nat, I # {}
  PROVE  Min(I) \in I /\ \A i \in I : Min(I) <= i
  <1> DEFINE Less == {ij \in Nat \X Nat : ij[1] < ij[2]}
  <1>1. Less = OpToRel(<, Nat)
    BY Zenon DEF OpToRel
  <1>2. PICK i \in I : \A j \in I : ~(<<j, i>> \in Less)
    BY <1>1, NatLessThanWellFounded, WFMin, Zenon
  <1>3. ASSUME NEW j \in I PROVE i <= j
    <2>1. <<j, i>> \in Nat \X Nat => ~(<<j, i>>[1] < <<j, i>>[2])
      BY <1>2
    <2> QED BY <2>1
  <1> HIDE DEF Less
  <1> QED BY <1>3 DEF Min

\* Inserting at n: the sequence before is the one after without its n-th element.
LEMMA InsertCut ==
  ASSUME NEW S, NEW q \in Seq(S), NEW t \in S, NEW n \in 1..Len(q) + 1
  PROVE  /\ InsertAt(q, n, t) \in Seq(S)
         /\ Cut(InsertAt(q, n, t), q, n)
         /\ InsertAt(q, n, t)[n] = t
  <1> DEFINE front == SubSeq(q, 1, n - 1)
             rest == SubSeq(q, n, Len(q))
             r == InsertAt(q, n, t)
  <1>1. /\ front \in Seq(S) /\ Len(front) = n - 1
        /\ \A i \in 1..n - 1 : front[i] = q[i]
        /\ rest \in Seq(S) /\ Len(rest) = Len(q) - n + 1
        /\ \A i \in 1..Len(rest) : rest[i] = q[n + i - 1]
    BY DEF front, rest
  <1>2. r = front \o <<t>> \o rest
    BY DEF InsertAt
  <1> HIDE DEF front, rest, r
  <1>3. <<t>> \in Seq(S) /\ Len(<<t>>) = 1 /\ <<t>>[1] = t
    OBVIOUS
  <1>4. /\ front \o <<t>> \in Seq(S) /\ Len(front \o <<t>>) = n
        /\ \A i \in 1..n - 1 : (front \o <<t>>)[i] = q[i]
        /\ (front \o <<t>>)[n] = t
    BY <1>1, <1>3, ConcatProperties
  <1>5. /\ r \in Seq(S) /\ Len(r) = Len(q) + 1
        /\ \A i \in 1..n - 1 : r[i] = q[i]
        /\ r[n] = t
        /\ \A i \in n + 1..Len(r) : r[i] = q[i - 1]
    <2>1. /\ r \in Seq(S) /\ Len(r) = n + Len(rest)
          /\ \A i \in 1..n + Len(rest) :
               r[i] = IF i <= n THEN (front \o <<t>>)[i] ELSE rest[i - n]
      BY <1>1, <1>2, <1>4, ConcatProperties
    <2>2. ASSUME NEW i \in n + 1..Len(r) PROVE r[i] = q[i - 1]
      <3>1. i \in 1..n + Len(rest) /\ ~(i <= n)
        BY <1>1, <2>1
      <3>2. i - n \in 1..Len(rest) /\ n + (i - n) - 1 = i - 1
        BY <1>1, <2>1
      <3>3. r[i] = rest[i - n]
        BY <2>1, <3>1
      <3>4. rest[i - n] = q[n + (i - n) - 1]
        BY <1>1, <3>2
      <3> QED BY <3>2, <3>3, <3>4
    <2>3. ASSUME NEW i \in 1..n PROVE r[i] = (front \o <<t>>)[i]
      <3>1. i \in 1..n + Len(rest) /\ i <= n
        BY <1>1
      <3> QED BY <2>1, <3>1
    <2>4. r[n] = t /\ \A i \in 1..n - 1 : r[i] = q[i]
      <3>1. n \in 1..n /\ \A i \in 1..n - 1 : i \in 1..n
        OBVIOUS
      <3> QED BY <1>4, <2>3, <3>1
    <2>5. Len(r) = Len(q) + 1
      BY <1>1, <2>1
    <2>6. \A i \in n + 1..Len(r) : r[i] = q[i - 1]
      BY <2>2
    <2>7. r \in Seq(S)
      BY <2>1
    <2> QED BY <2>4, <2>5, <2>6, <2>7, Zenon
  <1>6. Cut(r, q, n)
    BY <1>5 DEF Cut
  <1> QED BY <1>5, <1>6 DEF r

\* Removing from a sorted queue.
LEMMA CutQueue ==
  ASSUME NEW S, NEW q \in Seq(S), NEW r \in Seq(S), NEW n, Cut(q, r, n),
         NEW pri \in [S -> Nat], Distinct(q), Sorted(pri, q)
  PROVE  /\ Distinct(r) /\ Sorted(pri, r)
         /\ q[n] \in Members(q) /\ Members(r) = Members(q) \ {q[n]}
         /\ \A t, u \in Members(r) : AheadIn(q, t, u) => AheadIn(r, t, u)
  <1> DEFINE From(i) == IF i < n THEN i ELSE i + 1
             To(j) == IF j < n THEN j ELSE j - 1
  <1>1. /\ Len(q) \in Nat /\ n \in 1..Len(q) /\ DOMAIN q = 1..Len(q)
        /\ DOMAIN r = 1..Len(r) /\ Len(r) = Len(q) - 1
    BY DEF Cut
  <1>2. \A i \in DOMAIN r : From(i) \in DOMAIN q /\ r[i] = q[From(i)] /\ From(i) # n
    BY <1>1 DEF Cut
  <1>3. \A j \in DOMAIN q : j # n => To(j) \in DOMAIN r /\ From(To(j)) = j
    BY <1>1
  <1>4. \A i, j \in DOMAIN r : (i < j => From(i) < From(j)) /\ (From(i) = From(j) => i = j)
    <2> SUFFICES ASSUME NEW i \in DOMAIN r, NEW j \in DOMAIN r
                 PROVE  (i < j => From(i) < From(j)) /\ (From(i) = From(j) => i = j)
      OBVIOUS
    <2>1. i \in Nat /\ j \in Nat /\ n \in Nat
      BY <1>1
    <2>2. CASE i < n /\ j < n
      BY <2>1, <2>2
    <2>3. CASE i < n /\ ~(j < n)
      BY <2>1, <2>3
    <2>4. CASE ~(i < n) /\ j < n
      BY <2>1, <2>4
    <2>5. CASE ~(i < n) /\ ~(j < n)
      BY <2>1, <2>5
    <2> QED BY <2>2, <2>3, <2>4, <2>5
  <1>5. \A i, j \in DOMAIN q : i # n /\ j # n /\ i < j => To(i) < To(j)
    BY <1>1
  <1> HIDE DEF From, To
  <1>6. Distinct(r)
    BY <1>2, <1>4 DEF Distinct
  <1>7. Sorted(pri, r)
    BY <1>2, <1>4 DEF Sorted
  <1>8. Members(r) = Members(q) \ {q[n]}
    <2>1. ASSUME NEW i \in DOMAIN r PROVE r[i] \in Members(q) /\ r[i] # q[n]
      BY <1>1, <1>2 DEF Distinct, Members
    <2>2. ASSUME NEW j \in DOMAIN q, q[j] # q[n] PROVE q[j] \in Members(r)
      <3>1. j # n
        BY <2>2
      <3> QED BY <1>2, <1>3, <3>1 DEF Members
    <2> QED BY <2>1, <2>2 DEF Members
  <1>9. ASSUME NEW t \in Members(r), NEW u \in Members(r), AheadIn(q, t, u)
        PROVE  AheadIn(r, t, u)
    <2>1. PICK i, j \in DOMAIN q : i < j /\ q[i] = t /\ q[j] = u
      BY <1>9 DEF AheadIn
    <2>2. i # n /\ j # n
      BY <1>8, <1>9, <2>1
    <2>3. r[To(i)] = t /\ r[To(j)] = u /\ To(i) < To(j) /\ To(i) \in DOMAIN r /\ To(j) \in DOMAIN r
      BY <1>2, <1>3, <1>5, <2>1, <2>2
    <2> QED BY <2>3 DEF AheadIn
  <1>10. q[n] \in Members(q)
    BY <1>1 DEF Members
  <1> QED BY <1>6, <1>7, <1>8, <1>9, <1>10

\* Inserting into a sorted queue, before the first of lower priority.
LEMMA InsertQueue ==
  ASSUME NEW S, NEW q \in Seq(S), NEW r \in Seq(S), NEW n, Cut(r, q, n),
         NEW t \in S, r[n] = t, t \notin Members(q),
         NEW pri \in [S -> Nat], Distinct(q), Sorted(pri, q), PlaceFor(pri, q, t, n)
  PROVE  /\ Distinct(r) /\ Sorted(pri, r) /\ Members(r) = Members(q) \cup {t}
         /\ \A u, v \in Members(q) : AheadIn(q, u, v) => AheadIn(r, u, v)
         /\ \A u \in Members(q) : pri[u] = pri[t] => AheadIn(r, u, t)
  <1> DEFINE From(i) == IF i < n THEN i ELSE i + 1
             To(j) == IF j < n THEN j ELSE j - 1
  <1>1. /\ Len(q) \in Nat /\ n \in 1..Len(r) /\ DOMAIN q = 1..Len(q)
        /\ DOMAIN r = 1..Len(r) /\ Len(r) = Len(q) + 1
    BY DEF Cut
  <1>2. \A i \in DOMAIN q : From(i) \in DOMAIN r /\ q[i] = r[From(i)] /\ From(i) # n
    BY <1>1 DEF Cut
  <1>3. \A j \in DOMAIN r : j # n => To(j) \in DOMAIN q /\ From(To(j)) = j /\ (j < n <=> To(j) < n)
    BY <1>1
  <1>4. \A i, j \in DOMAIN q : i < j => From(i) < From(j)
    BY <1>1
  <1>5. \A i, j \in DOMAIN r : i # n /\ j # n => (i < j => To(i) < To(j)) /\ (To(i) = To(j) => i = j)
    BY <1>1
  <1>6. \A i \in DOMAIN q : pri[q[i]] \in Nat /\ q[i] \in S
    OBVIOUS
  <1>7. \A i \in DOMAIN q : i >= n => pri[q[i]] < pri[t]
    <2> SUFFICES ASSUME NEW i \in DOMAIN q, i >= n PROVE pri[q[i]] < pri[t]
      OBVIOUS
    <2>1. n \in DOMAIN q /\ pri[q[n]] < pri[t]
      BY <1>1 DEF PlaceFor
    <2>2. pri[q[n]] >= pri[q[i]]
      <3>1. n = i \/ n < i
        BY <1>1
      <3>2. pri[q[n]] \in Nat
        BY <1>6, <2>1
      <3> QED BY <2>1, <3>1, <3>2 DEF Sorted
    <2> QED BY <1>6, <2>1, <2>2
  <1>8. \A i \in DOMAIN q : (i < n => From(i) < n) /\ (i >= n => From(i) > n)
    BY <1>1
  <1>9. \A j \in DOMAIN r : j # n => r[j] = q[To(j)]
    BY <1>2, <1>3
  <1> HIDE DEF From, To
  <1>10. Distinct(r)
    <2> SUFFICES ASSUME NEW i \in DOMAIN r, NEW j \in DOMAIN r, r[i] = r[j]
                 PROVE  i = j
      BY DEF Distinct
    <2>1. CASE i # n /\ j # n
      BY <1>3, <1>5, <1>9, <2>1 DEF Distinct
    <2>2. \A l \in DOMAIN r : l # n => r[l] # t
      BY <1>3, <1>9 DEF Members
    <2> QED BY <2>1, <2>2
  <1>11. Sorted(pri, r)
    <2> SUFFICES ASSUME NEW i \in DOMAIN r, NEW j \in DOMAIN r, i < j
                 PROVE  pri[r[i]] >= pri[r[j]]
      BY DEF Sorted
    <2>0. i \in Nat /\ j \in Nat /\ n \in Nat /\ pri[t] \in Nat
      BY <1>1
    <2>1. CASE i # n /\ j # n
      BY <1>3, <1>5, <1>9, <2>1 DEF Sorted
    <2>2. CASE i = n
      <3>1. j # n /\ ~(j < n) /\ To(j) \in DOMAIN q /\ r[j] = q[To(j)]
        BY <1>3, <1>9, <2>0, <2>2
      <3>2. ~(To(j) < n) /\ To(j) \in Nat
        BY <1>1, <1>3, <3>1
      <3>3. pri[q[To(j)]] < pri[t] /\ pri[q[To(j)]] \in Nat
        BY <1>1, <1>6, <1>7, <2>0, <3>1, <3>2
      <3>4. r[i] = t
        BY <2>2
      <3> QED BY <2>0, <3>1, <3>3, <3>4
    <2>3. CASE j = n
      <3>1. i # n /\ To(i) \in DOMAIN q /\ r[i] = q[To(i)] /\ To(i) < n
        BY <1>3, <1>9, <2>0, <2>3
      <3> QED BY <1>1, <1>6, <2>0, <2>3, <3>1 DEF PlaceFor
    <2> QED BY <2>1, <2>2, <2>3
  <1>12. Members(r) = Members(q) \cup {t}
    <2>1. ASSUME NEW j \in DOMAIN r PROVE r[j] \in Members(q) \cup {t}
      BY <1>3, <1>9 DEF Members
    <2>2. ASSUME NEW i \in DOMAIN q PROVE q[i] \in Members(r)
      BY <1>2 DEF Members
    <2>3. t \in Members(r)
      BY <1>1 DEF Members
    <2>4. /\ \A v : v \in Members(r) => \E j \in DOMAIN r : v = r[j]
          /\ \A v : v \in Members(q) => \E j \in DOMAIN q : v = q[j]
      BY DEF Members
    <2> QED BY <2>1, <2>2, <2>3, <2>4
  <1>13. \A u, v \in Members(q) : AheadIn(q, u, v) => AheadIn(r, u, v)
    BY <1>2, <1>4 DEF AheadIn
  <1>14. ASSUME NEW u \in Members(q), pri[u] = pri[t] PROVE AheadIn(r, u, t)
    <2>1. PICK i \in DOMAIN q : q[i] = u
      BY DEF Members
    <2>2. i < n
      <3>1. ~(i >= n)
        <4>1. pri[q[i]] \in Nat /\ pri[q[i]] = pri[t]
          BY <1>6, <1>14, <2>1
        <4> QED BY <1>7, <4>1
      <3> QED BY <1>1, <3>1
    <2>3. From(i) \in DOMAIN r /\ From(i) < n /\ r[From(i)] = u /\ n \in DOMAIN r
      BY <1>1, <1>2, <1>8, <2>1, <2>2
    <2> QED BY <2>3 DEF AheadIn
  <1> QED BY <1>10, <1>11, <1>12, <1>13, <1>14

\* A removal leaves the order of the others, so that everybody is in turn.
LEMMA CutInTurn ==
  ASSUME NEW S, NEW q \in Seq(S), NEW r \in Seq(S), NEW n, Cut(q, r, n),
         NEW pri \in [S -> Nat], Distinct(q), Sorted(pri, q)
  PROVE  InTurn(pri, q, r)
  <1>1. /\ Members(r) \subseteq Members(q)
        /\ \A t, u \in Members(r) : AheadIn(q, t, u) => AheadIn(r, t, u)
    BY CutQueue
  <1> QED BY <1>1 DEF InTurn

\* The insertion of __osEnqueueThread finds the place that InsertQueue asks for.
LEMMA InsertedQueue ==
  ASSUME NEW s, s.pri \in [Threads -> Nat], NEW q \in Seq(Threads),
         NEW t \in Threads, t \notin Members(q), Distinct(q), Sorted(s.pri, q)
  PROVE  LET r == Inserted(s, q, t)
         IN  /\ r \in Seq(Threads) /\ Distinct(r) /\ Sorted(s.pri, r)
             /\ Members(r) = Members(q) \cup {t} /\ InTurn(s.pri, q, r)
  <1> DEFINE lower == {i \in 1..Len(q) : s.pri[q[i]] < s.pri[t]}
             first == IF lower # {} THEN Min(lower) ELSE 0
             n == IF first = 0 THEN Len(q) + 1 ELSE first
             r == InsertAt(q, n, t)
  <1>1. Inserted(s, q, t) = r
    BY Zenon DEF Inserted, SelectInSeq, lower, first, n, r
  <1>2. Len(q) \in Nat /\ DOMAIN q = 1..Len(q) /\ \A i \in 1..Len(q) : s.pri[q[i]] \in Nat
    OBVIOUS
  <1>3. n \in 1..Len(q) + 1 /\ PlaceFor(s.pri, q, t, n)
    <2> SUFFICES /\ n \in 1..Len(q) + 1
                 /\ \A i \in 1..Len(q) : i < n => s.pri[q[i]] >= s.pri[t]
                 /\ n <= Len(q) => s.pri[q[n]] < s.pri[t]
      BY DEF PlaceFor
    <2>1. CASE lower = {}
      <3>1. n = Len(q) + 1
        BY <2>1
      <3>2. \A i \in 1..Len(q) : s.pri[q[i]] >= s.pri[t]
        BY <1>2, <2>1
      <3> HIDE DEF n
      <3> QED BY <1>2, <3>1, <3>2
    <2>2. CASE lower # {}
      <3>1. lower \in SUBSET Nat
        OBVIOUS
      <3>2. Min(lower) \in lower /\ \A i \in lower : Min(lower) <= i
        BY <2>2, <3>1, LeastNumber
      <3>3. n = Min(lower)
        BY <1>2, <2>2, <3>2
      <3>4. \A i \in lower : i \in 1..Len(q) /\ s.pri[q[i]] < s.pri[t]
        OBVIOUS
      <3>5. \A i \in 1..Len(q) : i \notin lower => s.pri[q[i]] >= s.pri[t]
        BY <1>2
      <3> HIDE DEF n, lower
      <3> QED BY <1>2, <3>2, <3>3, <3>4, <3>5
    <2> QED BY <2>1, <2>2
  <1> HIDE DEF n, lower, first
  <1>4. r \in Seq(Threads) /\ Cut(r, q, n) /\ r[n] = t
    BY <1>3, InsertCut
  <1> HIDE DEF r
  <1>5. /\ Distinct(r) /\ Sorted(s.pri, r) /\ Members(r) = Members(q) \cup {t}
        /\ \A u, v \in Members(q) : AheadIn(q, u, v) => AheadIn(r, u, v)
        /\ \A u \in Members(q) : s.pri[u] = s.pri[t] => AheadIn(r, u, t)
    BY <1>3, <1>4, InsertQueue
  <1>6. \A u, v : AheadIn(q, u, v) => u \in Members(q) /\ v \in Members(q)
    BY DEF AheadIn, Members
  <1>7. InTurn(s.pri, q, r)
    BY <1>5, <1>6 DEF InTurn
  <1> QED BY <1>1, <1>4, <1>5, <1>7

\* The tail of a queue is the queue without its first element.
LEMMA TailCut ==
  ASSUME NEW S, NEW q \in Seq(S), q # <<>>
  PROVE  Tail(q) \in Seq(S) /\ CutOut(q, Tail(q), Head(q)) /\ Head(q) = q[1]
  <1>1. /\ Tail(q) \in Seq(S) /\ Len(Tail(q)) = Len(q) - 1
        /\ \A i \in 1..Len(Tail(q)) : Tail(q)[i] = q[i + 1]
    BY HeadTailProperties
  <1>2. Len(q) \in Nat /\ Len(q) # 0
    BY EmptySeq
  <1> QED BY <1>1, <1>2 DEF Cut, CutOut

\* RemoveFirst takes one place out of a queue in which the element is.
LEMMA RemovedCut ==
  ASSUME NEW S, NEW q \in Seq(S), NEW t \in Members(q)
  PROVE  /\ RemoveFirst(q, t) \in Seq(S)
         /\ CutOut(q, RemoveFirst(q, t), t)
  <1> DEFINE there == {i \in 1..Len(q) : q[i] = t}
             n == Min(there)
             front == SubSeq(q, 1, n - 1)
             rest == SubSeq(q, n + 1, Len(q))
  <1>1. there # {} /\ \E i \in 1..Len(q) : q[i] = t
    BY DEF Members
  <1>2. RemoveFirst(q, t) = RemoveAt(q, n)
    BY <1>1, Zenon DEF RemoveFirst, SelectInSeq
  <1>3. there \in SUBSET Nat
    OBVIOUS
  <1>4. n \in there
    BY <1>1, <1>3, LeastNumber
  <1>5. n \in 1..Len(q) /\ q[n] = t /\ Len(q) \in Nat
    BY <1>4
  <1> HIDE DEF there, n
  <1>6. /\ front \in Seq(S) /\ Len(front) = n - 1
        /\ \A i \in 1..n - 1 : front[i] = q[i]
        /\ rest \in Seq(S) /\ Len(rest) = Len(q) - n
        /\ \A i \in 1..Len(rest) : rest[i] = q[n + i]
    BY <1>5
  <1>7. RemoveFirst(q, t) = front \o rest
    BY <1>2 DEF RemoveAt
  <1> DEFINE r == RemoveFirst(q, t)
  <1> HIDE DEF front, rest, r
  <1>8. /\ r \in Seq(S) /\ Len(r) = Len(q) - 1
        /\ \A i \in 1..Len(r) : r[i] = IF i <= n - 1 THEN front[i] ELSE rest[i - (n - 1)]
    <2>1. /\ r \in Seq(S) /\ Len(r) = Len(front) + Len(rest)
          /\ \A i \in 1..Len(front) + Len(rest) :
               r[i] = IF i <= Len(front) THEN front[i] ELSE rest[i - Len(front)]
      <3>1. r = front \o rest
        BY <1>7 DEF r
      <3> QED BY <1>6, <3>1, ConcatProperties
    <2>2. Len(front) + Len(rest) = Len(q) - 1
      BY <1>5, <1>6
    <2> QED BY <1>6, <2>1, <2>2
  <1>9. ASSUME NEW i \in 1..Len(r) PROVE r[i] = IF i < n THEN q[i] ELSE q[i + 1]
    <2>0. i \in 1..Len(q) - 1
      BY <1>8
    <2>1. CASE i < n
      <3>1. i \in 1..n - 1 /\ i <= n - 1
        BY <1>5, <2>0, <2>1
      <3> QED BY <1>6, <1>8, <2>1, <3>1
    <2>2. CASE ~(i < n)
      <3>1. ~(i <= n - 1) /\ i - (n - 1) \in 1..Len(rest) /\ n + (i - (n - 1)) = i + 1
        BY <1>5, <1>6, <2>0, <2>2
      <3>2. r[i] = rest[i - (n - 1)]
        BY <1>8, <3>1
      <3> QED BY <1>6, <2>2, <3>1, <3>2
    <2> QED BY <2>1, <2>2
  <1>10. Cut(q, r, n)
    BY <1>5, <1>8, <1>9 DEF Cut
  <1> QED BY <1>5, <1>8, <1>10 DEF r, CutOut

-----------------------------------------------------------------------------
(* Threads and their queues.                                               *)

KTypes ==
  [pri : [Threads -> Priorities \union {0}],
   state : [Threads -> {"none", "stopped", "runnable", "running",
                        "waiting", "destroyed"}],
   at : [Threads -> ThreadQueues \union {NoQueue}],
   tq : [ThreadQueues -> Seq(Threads)],
   running : Threads]

\* Everybody but those in Out is in the queue that the field names, and only there.
Placed(s, Out) ==
  /\ s \in KTypes
  /\ \A t \in Threads \ Out : s.at[t] \in ThreadQueues
  /\ \A tq \in ThreadQueues :
       /\ Distinct(s.tq[tq]) /\ Sorted(s.pri, s.tq[tq])
       /\ Members(s.tq[tq]) = {t \in Threads \ Out : s.at[t] = tq}

\* From s to e no queue is served out of turn.
Follows(s, e) ==
  /\ e.pri = s.pri
  /\ \A tq \in ThreadQueues : InTurn(s.pri, s.tq[tq], e.tq[tq])

\* t, one of those in no queue, has taken its place in tq.
Joined(s, e, Out, t, tq) ==
  /\ Placed(e, Out \ {t}) /\ Follows(s, e)
  /\ e.state = s.state /\ e.running = s.running /\ e.at = [s.at EXCEPT ![t] = tq]

\* t has been taken out of the queue in which it was.
Left(s, e, Out, t) ==
  /\ t \in Threads \ Out
  /\ Placed(e, Out \union {t}) /\ Follows(s, e)
  /\ e.state = s.state /\ e.running = s.running /\ e.at = s.at

LEMMA Fields ==
  ASSUME NEW s \in KTypes
  PROVE  /\ s.pri \in [Threads -> Nat] /\ DOMAIN s.tq = ThreadQueues
         /\ s.state \in [Threads -> {"none", "stopped", "runnable", "running",
                                     "waiting", "destroyed"}]
         /\ s.at \in [Threads -> ThreadQueues \union {NoQueue}]
         /\ s.tq \in [ThreadQueues -> Seq(Threads)]
         /\ s.running \in Threads
  <1>1. s.pri \in [Threads -> Priorities \union {0}]
    BY DEF KTypes
  <1>2. Priorities \union {0} \subseteq Nat
    BY KernelAssumption
  <1>3. s.pri \in [Threads -> Nat]
    BY <1>1, <1>2
  <1> QED BY <1>3 DEF KTypes

LEMMA InTurnRefl ==
  ASSUME NEW pri, NEW q
  PROVE  InTurn(pri, q, q)
  BY DEF InTurn, Members

LEMMA Enqueue ==
  ASSUME NEW s, NEW Out, Placed(s, Out), NEW t \in Threads, t \in Out,
         NEW tq \in ThreadQueues
  PROVE  Joined(s, __osEnqueueThread(s, tq, t), Out, t, tq)
  <1> DEFINE e == __osEnqueueThread(s, tq, t)
             q == s.tq[tq]
             r == Inserted(s, q, t)
  <1>1. s \in KTypes
    BY DEF Placed
  <1>2. q \in Seq(Threads) /\ Distinct(q) /\ Sorted(s.pri, q) /\ t \notin Members(q)
    BY <1>1, Fields DEF Placed
  <1>3. /\ r \in Seq(Threads) /\ Distinct(r) /\ Sorted(s.pri, r)
        /\ Members(r) = Members(q) \cup {t} /\ InTurn(s.pri, q, r)
    BY <1>1, <1>2, Fields, InsertedQueue
  <1>4. e = [s EXCEPT !.tq = [s.tq EXCEPT ![tq] = r], !.at = [s.at EXCEPT ![t] = tq]]
    BY DEF __osEnqueueThread
  <1> HIDE DEF r
  <1>5. /\ e.tq = [s.tq EXCEPT ![tq] = r] /\ e.at = [s.at EXCEPT ![t] = tq]
        /\ e.state = s.state /\ e.running = s.running /\ e.pri = s.pri
    BY <1>1, <1>4 DEF KTypes
  <1>6. e \in KTypes
    <2>1. /\ [s.tq EXCEPT ![tq] = r] \in [ThreadQueues -> Seq(Threads)]
          /\ [s.at EXCEPT ![t] = tq] \in [Threads -> ThreadQueues \union {NoQueue}]
      BY <1>1, <1>3, Fields
    <2> HIDE DEF e
    <2> QED BY <1>1, <1>4, <2>1 DEF KTypes
  <1> HIDE DEF e
  <1>7. \A u \in Threads \ (Out \ {t}) : e.at[u] \in ThreadQueues
    BY <1>1, <1>5, Fields DEF Placed
  <1>8. ASSUME NEW x \in ThreadQueues
        PROVE  /\ Distinct(e.tq[x]) /\ Sorted(e.pri, e.tq[x])
               /\ Members(e.tq[x]) = {u \in Threads \ (Out \ {t}) : e.at[u] = x}
               /\ InTurn(s.pri, s.tq[x], e.tq[x])
    <2>1. /\ Members(s.tq[x]) = {u \in Threads \ Out : s.at[u] = x}
          /\ Distinct(s.tq[x]) /\ Sorted(s.pri, s.tq[x])
      BY DEF Placed
    <2>2. \A u \in Threads : e.at[u] = IF u = t THEN tq ELSE s.at[u]
      BY <1>1, <1>5, Fields
    <2>3. CASE x = tq
      <3>1. e.tq[x] = r
        BY <1>1, <1>5, <2>3, Fields
      <3>2. Members(r) = {u \in Threads \ (Out \ {t}) : e.at[u] = x}
        BY <1>3, <2>1, <2>2, <2>3
      <3> QED BY <1>3, <1>5, <2>3, <3>1, <3>2
    <2>4. CASE x # tq
      <3>1. e.tq[x] = s.tq[x]
        BY <1>1, <1>5, <2>4, Fields
      <3>2. Members(s.tq[x]) = {u \in Threads \ (Out \ {t}) : e.at[u] = x}
        BY <2>1, <2>2, <2>4
      <3> QED BY <1>5, <2>1, <3>1, <3>2, InTurnRefl
    <2> QED BY <2>3, <2>4
  <1> QED BY <1>5, <1>6, <1>7, <1>8 DEF Placed, Follows, Joined, e

WithQueue(s, tq, r) == [s EXCEPT !.tq[tq] = r]

\* Taking one thread out of the queue in which it is.
LEMMA Unlinked ==
  ASSUME NEW s, NEW Out, Placed(s, Out), NEW tq \in ThreadQueues,
         NEW r \in Seq(Threads), NEW t, CutOut(s.tq[tq], r, t)
  PROVE  Left(s, WithQueue(s, tq, r), Out, t) /\ s.at[t] = tq
  <1> DEFINE e == WithQueue(s, tq, r)
             q == s.tq[tq]
  <1> PICK n : Cut(q, r, n) /\ q[n] = t
    BY DEF CutOut
  <1>1. s \in KTypes
    BY DEF Placed
  <1>2. /\ q \in Seq(Threads) /\ Distinct(q) /\ Sorted(s.pri, q)
        /\ Members(q) = {u \in Threads \ Out : s.at[u] = tq}
    BY <1>1, Fields DEF Placed
  <1>3. /\ Distinct(r) /\ Sorted(s.pri, r) /\ t \in Members(q)
        /\ Members(r) = Members(q) \ {t}
    BY <1>1, <1>2, Fields, CutQueue
  <1>4. InTurn(s.pri, q, r)
    BY <1>1, <1>2, Fields, CutInTurn
  <1>5. t \in Threads \ Out /\ s.at[t] = tq
    BY <1>2, <1>3
  <1>6. /\ e.tq = [s.tq EXCEPT ![tq] = r] /\ e.at = s.at
        /\ e.state = s.state /\ e.running = s.running /\ e.pri = s.pri
        /\ e \in KTypes
    BY <1>1 DEF KTypes, WithQueue
  <1> HIDE DEF e
  <1>7. ASSUME NEW x \in ThreadQueues
        PROVE  /\ Distinct(e.tq[x]) /\ Sorted(e.pri, e.tq[x])
               /\ Members(e.tq[x]) = {u \in Threads \ (Out \cup {t}) : e.at[u] = x}
               /\ InTurn(s.pri, s.tq[x], e.tq[x])
    <2>1. /\ Members(s.tq[x]) = {u \in Threads \ Out : s.at[u] = x}
          /\ Distinct(s.tq[x]) /\ Sorted(s.pri, s.tq[x])
      BY DEF Placed
    <2>2. CASE x = tq
      <3>1. e.tq[x] = r
        BY <1>1, <1>6, <2>2, Fields
      <3>2. Members(r) = {u \in Threads \ (Out \cup {t}) : e.at[u] = x}
        BY <1>3, <1>6, <2>1, <2>2
      <3> QED BY <1>3, <1>4, <1>6, <2>2, <3>1, <3>2
    <2>3. CASE x # tq
      <3>1. e.tq[x] = s.tq[x]
        BY <1>1, <1>6, <2>3, Fields
      <3>2. Members(s.tq[x]) = {u \in Threads \ (Out \cup {t}) : e.at[u] = x}
        BY <1>5, <1>6, <2>1, <2>3
      <3> QED BY <1>6, <2>1, <3>1, <3>2, InTurnRefl
    <2> QED BY <2>2, <2>3
  <1>8. \A u \in Threads \ (Out \cup {t}) : e.at[u] \in ThreadQueues
    BY <1>6 DEF Placed
  <1> QED BY <1>5, <1>6, <1>7, <1>8 DEF Placed, Follows, Left, e

LEMMA Pop ==
  ASSUME NEW s, NEW Out, Placed(s, Out), NEW tq \in ThreadQueues, s.tq[tq] # <<>>
  PROVE  LET e == __osPopThread(s, tq)
             h == Head(s.tq[tq])
         IN  /\ Left(s, e, Out, h) /\ s.at[h] = tq
             /\ \A t \in Threads \ Out : s.at[t] = tq => s.pri[t] <= s.pri[h]
  <1> DEFINE e == __osPopThread(s, tq)
             q == s.tq[tq]
             r == Tail(q)
             h == Head(q)
  <1>1. s \in KTypes
    BY DEF Placed
  <1>2. /\ q \in Seq(Threads) /\ Sorted(s.pri, q)
        /\ Members(q) = {u \in Threads \ Out : s.at[u] = tq}
    BY <1>1, Fields DEF Placed
  <1>3. r \in Seq(Threads) /\ CutOut(q, r, h) /\ h = q[1]
    BY <1>2, TailCut
  <1>4. e = WithQueue(s, tq, r)
    BY DEF WithQueue, __osPopThread
  <1> HIDE DEF e, r, h
  <1>5. Left(s, e, Out, h) /\ s.at[h] = tq /\ h \in Threads \ Out
    <2>1. Placed(s, Out) /\ tq \in ThreadQueues
      OBVIOUS
    <2>2. r \in Seq(Threads) /\ CutOut(s.tq[tq], r, h)
      BY <1>3
    <2>3. Left(s, WithQueue(s, tq, r), Out, h) /\ s.at[h] = tq
      BY <2>1, <2>2, Unlinked, Zenon
    <2>4. Left(s, e, Out, h) /\ s.at[h] = tq
      BY <1>4, <2>3, Zenon
    <2> QED BY <2>4 DEF Left
  <1>6. ASSUME NEW t \in Threads \ Out, s.at[t] = tq
        PROVE  s.pri[t] <= s.pri[h]
    <2>1. t \in Members(q)
      BY <1>2, <1>6
    <2>2. PICK i \in DOMAIN q : q[i] = t
      BY <2>1 DEF Members
    <2>3. s.pri[t] \in Nat /\ s.pri[h] \in Nat
      BY <1>1, <1>5, Fields
    <2>4. 1 \in DOMAIN q /\ i \in Nat /\ (i = 1 \/ 1 < i)
      BY <1>2, <2>2
    <2>5. 1 < i => s.pri[q[1]] >= s.pri[q[i]]
      BY <1>2, <2>4 DEF Sorted
    <2> QED BY <1>3, <2>2, <2>3, <2>4, <2>5
  <1> QED BY <1>5, <1>6 DEF e, h

LEMMA Dequeue ==
  ASSUME NEW s, NEW Out, Placed(s, Out), NEW t \in Threads \ Out
  PROVE  Left(s, __osDequeueThread(s, t), Out, t)
  <1> DEFINE q == s.tq[s.at[t]]
             r == RemoveFirst(q, t)
             e == __osDequeueThread(s, t)
  <1>1. s.at[t] \in ThreadQueues /\ q \in Seq(Threads) /\ t \in Members(q)
    BY Fields DEF Placed
  <1>2. r \in Seq(Threads) /\ CutOut(q, r, t)
    BY <1>1, RemovedCut
  <1>3. e = WithQueue(s, s.at[t], r)
    BY DEF WithQueue, __osDequeueThread
  <1> HIDE DEF r, e
  <1>4. Left(s, e, Out, t)
    BY <1>1, <1>2, <1>3, Unlinked
  <1> QED BY <1>4 DEF e

LEMMA InTurnTrans ==
  ASSUME NEW pri, NEW q, NEW r, NEW x, InTurn(pri, q, r), InTurn(pri, r, x),
         Members(q) \cap Members(x) \subseteq Members(r)
  PROVE  InTurn(pri, q, x)
  <1> SUFFICES ASSUME NEW t \in Members(q) \cap Members(x), NEW u \in Members(x),
                      u \notin Members(q) \/ AheadIn(q, t, u), pri[t] = pri[u]
               PROVE  AheadIn(x, t, u)
    BY Zenon DEF InTurn
  <1>1. t \in Members(q) \cap Members(r) /\ t \in Members(r) \cap Members(x)
    OBVIOUS
  <1>2. CASE u \in Members(r)
    <2>1. AheadIn(r, t, u)
      BY <1>1, <1>2 DEF InTurn
    <2> QED BY <1>1, <2>1 DEF InTurn
  <1>3. CASE u \notin Members(r)
    BY <1>1, <1>3 DEF InTurn
  <1> QED BY <1>2, <1>3

\* Who is in a queue before and after two steps is there in between.
LEMMA FollowsTrans ==
  ASSUME NEW s, NEW e, NEW f, NEW A, NEW B, NEW C,
         Placed(s, A), Placed(e, B), Placed(f, C), Follows(s, e), Follows(e, f),
         \A t \in Threads : t \notin A /\ t \notin C /\ s.at[t] = f.at[t]
                              => t \notin B /\ e.at[t] = s.at[t]
  PROVE  Follows(s, f)
  <1>1. ASSUME NEW tq \in ThreadQueues PROVE InTurn(s.pri, s.tq[tq], f.tq[tq])
    <2>1. /\ Members(s.tq[tq]) = {t \in Threads \ A : s.at[t] = tq}
          /\ Members(e.tq[tq]) = {t \in Threads \ B : e.at[t] = tq}
          /\ Members(f.tq[tq]) = {t \in Threads \ C : f.at[t] = tq}
      BY DEF Placed
    <2>2. Members(s.tq[tq]) \cap Members(f.tq[tq]) \subseteq Members(e.tq[tq])
      BY <2>1
    <2>3. InTurn(s.pri, s.tq[tq], e.tq[tq]) /\ InTurn(s.pri, e.tq[tq], f.tq[tq])
      BY DEF Follows
    <2> HIDE <2>1
    <2> QED BY <2>2, <2>3, InTurnTrans
  <1> QED BY <1>1 DEF Follows

LEMMA QueueNames ==
  /\ RunQueue \in ThreadQueues
  /\ NoQueue \notin ThreadQueues
  /\ \A q \in Queues :
       /\ MtQueue(q) \in ThreadQueues \ {RunQueue}
       /\ FullQueue(q) \in ThreadQueues \ {RunQueue}
  /\ \A q, p \in Queues : MtQueue(q) # FullQueue(p)
  /\ \A q, p \in Queues : q # p => MtQueue(q) # MtQueue(p) /\ FullQueue(q) # FullQueue(p)
  BY KernelAssumption DEF ThreadQueues, RunQueue, MtQueue, FullQueue

\* A queue is empty if and only if nobody names it.
LEMMA Nobody ==
  ASSUME NEW s, NEW Out, Placed(s, Out), NEW tq \in ThreadQueues
  PROVE  s.tq[tq] = <<>> <=> \A t \in Threads \ Out : s.at[t] # tq
  <1>1. s.tq[tq] \in Seq(Threads) /\ Members(s.tq[tq]) = {t \in Threads \ Out : s.at[t] = tq}
    BY Fields DEF Placed
  <1>2. ASSUME s.tq[tq] = <<>> PROVE Members(s.tq[tq]) = {}
    BY <1>2 DEF Members
  <1>3. ASSUME s.tq[tq] # <<>> PROVE s.tq[tq][1] \in Members(s.tq[tq])
    <2>1. 1 \in DOMAIN s.tq[tq]
      BY <1>1, <1>3, EmptySeq
    <2> QED BY <2>1 DEF Members
  <1> QED BY <1>1, <1>2, <1>3

Marked(s, t, x) == [s EXCEPT !.state[t] = x]

Relabelled(s, e, Out, t, x) ==
  /\ Placed(e, Out) /\ Follows(s, e)
  /\ e.running = s.running /\ e.at = s.at /\ e.state = [s.state EXCEPT ![t] = x]

LEMMA Mark ==
  ASSUME NEW s, NEW Out, Placed(s, Out), NEW t \in Threads,
         NEW x \in {"stopped", "runnable", "running", "waiting", "destroyed"}
  PROVE  Relabelled(s, Marked(s, t, x), Out, t, x)
  <1> DEFINE e == Marked(s, t, x)
  <1>1. s \in KTypes
    BY DEF Placed
  <1>2. /\ e \in KTypes /\ e.tq = s.tq /\ e.pri = s.pri /\ e.at = s.at
        /\ e.running = s.running /\ e.state = [s.state EXCEPT ![t] = x]
    BY <1>1 DEF KTypes, Marked
  <1> HIDE DEF e
  <1>3. Placed(e, Out)
    BY <1>2 DEF Placed
  <1>4. Follows(s, e)
    BY <1>2, InTurnRefl DEF Follows
  <1> QED BY <1>2, <1>3, <1>4 DEF Relabelled, e

\* h, the first of the run queue, runs from now on.
Dispatched(s, e, Out, h) ==
  /\ h \in Threads \ Out /\ s.at[h] = RunQueue
  /\ \A t \in Threads \ Out : s.at[t] = RunQueue => s.pri[t] <= s.pri[h]
  /\ Placed(e, Out \union {h}) /\ Follows(s, e)
  /\ e.running = h /\ e.at = s.at /\ e.state = [s.state EXCEPT ![h] = "running"]

LEMMA Dispatch ==
  ASSUME NEW s, NEW Out, Placed(s, Out),
         \E t \in Threads \ Out : s.at[t] = RunQueue
  PROVE  \E h : Dispatched(s, __osDispatchThread(s), Out, h)
  <1> DEFINE h == Head(s.tq[RunQueue])
             p == __osPopThread(s, RunQueue)
             e == __osDispatchThread(s)
  <1>1. s.tq[RunQueue] # <<>>
    BY Nobody, QueueNames
  <1>2. /\ Left(s, p, Out, h) /\ s.at[h] = RunQueue
        /\ \A t \in Threads \ Out : s.at[t] = RunQueue => s.pri[t] <= s.pri[h]
    BY <1>1, Pop, QueueNames
  <1>3. e = [p EXCEPT !.running = h, !.state = [p.state EXCEPT ![h] = "running"]]
    BY DEF __osDispatchThread
  <1> HIDE DEF h, p, e
  <1>4. /\ h \in Threads \ Out /\ Placed(p, Out \union {h}) /\ Follows(s, p)
        /\ p.state = s.state /\ p.at = s.at /\ p \in KTypes
    BY <1>2 DEF Left, Placed
  <1>5. [p.state EXCEPT ![h] = "running"] \in
          [Threads -> {"none", "stopped", "runnable", "running", "waiting", "destroyed"}]
    BY <1>4, Fields
  <1>6. /\ e \in KTypes /\ e.tq = p.tq /\ e.pri = p.pri /\ e.at = p.at
        /\ e.running = h /\ e.state = [p.state EXCEPT ![h] = "running"]
    BY <1>3, <1>4, <1>5 DEF KTypes
  <1>7. Placed(e, Out \union {h})
    BY <1>4, <1>6 DEF Placed
  <1>8. Follows(s, e)
    BY <1>4, <1>6 DEF Follows
  <1>9. Dispatched(s, e, Out, h)
    BY <1>2, <1>4, <1>6, <1>7, <1>8 DEF Dispatched
  <1> QED BY <1>9 DEF e

-----------------------------------------------------------------------------
(* Between the calls.                                                      *)

Off(s) == {t \in Threads : s.state[t] \in {"none", "stopped", "destroyed"}}

Rest(s) == Off(s) \union {s.running}

\* The threads and their queues fit together; the running one may be going.
Arranged(s) ==
  /\ Placed(s, Rest(s))
  /\ s.at[s.running] = RunQueue
  /\ \A t \in Threads \ {s.running} : s.state[t] # "running"
  /\ \A t \in Threads : s.state[t] = "none" => s.at[t] = NoQueue
  /\ s.at[Idle] = RunQueue /\ Idle \notin Off(s)

KInv(s) == Arranged(s) /\ s.running \notin Off(s)

\* The running thread has the highest priority of all that can run.
Top(s) ==
  /\ s.state[s.running] = "running"
  /\ \A t \in Threads \ Rest(s) : s.at[t] = RunQueue => s.pri[t] <= s.pri[s.running]

\* Another thread may run now, and nobody has come or gone.
Switched(s, e) ==
  /\ KInv(e) /\ Top(e) /\ Follows(s, e) /\ Off(e) = Off(s)
  /\ \A t \in Threads : s.state[t] = "none" <=> e.state[t] = "none"

\* The running thread goes to tq, and the highest one is dispatched.
LEMMA Yield ==
  ASSUME NEW s, KInv(s), s.state[s.running] # "running", NEW tq \in ThreadQueues,
         tq = RunQueue \/ s.running # Idle
  PROVE  /\ Switched(s, __osEnqueueAndYield(s, tq))
         /\ __osEnqueueAndYield(s, tq).at = [s.at EXCEPT ![s.running] = tq]
  <1> DEFINE r == s.running
             m == __osEnqueueThread(s, tq, r)
             e == __osDispatchThread(m)
             Out == Rest(s)
  <1>1. /\ s \in KTypes /\ Placed(s, Out) /\ r \in Threads /\ r \in Out /\ r \notin Off(s)
        /\ Idle \in Threads /\ s.at[Idle] = RunQueue /\ Idle \notin Off(s)
    BY Fields, KernelAssumption DEF KInv, Arranged, Placed, Rest
  <1>2. e = __osEnqueueAndYield(s, tq)
    BY DEF __osEnqueueAndYield
  <1>3. Joined(s, m, Out, r, tq)
    BY <1>1, Enqueue
  <1> HIDE DEF m, Out
  <1>4. /\ Placed(m, Out \ {r}) /\ Follows(s, m) /\ m.state = s.state
        /\ m.at = [s.at EXCEPT ![r] = tq] /\ m.pri = s.pri
    BY <1>3 DEF Joined, Follows
  <1>5. \A t \in Threads : m.at[t] = IF t = r THEN tq ELSE s.at[t]
    BY <1>1, <1>4, Fields
  <1>6. Out \ {r} = Off(s)
    BY <1>1 DEF Out, Rest
  <1>7. Idle \in Threads \ (Out \ {r}) /\ m.at[Idle] = RunQueue
    BY <1>1, <1>5, <1>6
  <1>8. PICK h : Dispatched(m, e, Out \ {r}, h)
    BY <1>4, <1>7, Dispatch
  <1> HIDE DEF e
  <1>9. /\ h \in Threads \ Off(s) /\ m.at[h] = RunQueue
        /\ \A t \in Threads \ Off(s) : m.at[t] = RunQueue => s.pri[t] <= s.pri[h]
        /\ Placed(e, Off(s) \union {h}) /\ Follows(m, e) /\ e.pri = s.pri
        /\ e.running = h /\ e.at = m.at /\ e.state = [s.state EXCEPT ![h] = "running"]
    BY <1>4, <1>6, <1>8 DEF Dispatched, Follows
  <1>10. \A t \in Threads : e.state[t] = IF t = h THEN "running" ELSE s.state[t]
    BY <1>1, <1>9, Fields
  <1>11. Off(e) = Off(s) /\ Rest(e) = Off(s) \union {h}
    BY <1>9, <1>10 DEF Off, Rest
  <1>12. \A t \in Threads : s.state[t] = "none" <=> e.state[t] = "none"
    BY <1>9, <1>10 DEF Off
  <1>13. KInv(e)
    <2>1. Placed(e, Rest(e)) /\ e.at[e.running] = RunQueue
      BY <1>9, <1>11
    <2>2. \A t \in Threads \ {e.running} : e.state[t] # "running"
      BY <1>9, <1>10 DEF KInv, Arranged
    <2>3. \A t \in Threads : e.state[t] = "none" => e.at[t] = NoQueue
      BY <1>1, <1>5, <1>9, <1>12 DEF KInv, Arranged, Off
    <2>4. e.at[Idle] = RunQueue /\ Idle \notin Off(e) /\ e.running \notin Off(e)
      BY <1>1, <1>7, <1>9, <1>11
    <2> QED BY <2>1, <2>2, <2>3, <2>4 DEF KInv, Arranged
  <1>14. Top(e)
    BY <1>9, <1>10, <1>11 DEF Top
  <1>15. Follows(s, e)
    <2>1. \A t \in Threads : t \notin Out /\ t \notin Off(s) \union {h} /\ s.at[t] = e.at[t]
                              => t \notin Off(s) /\ m.at[t] = s.at[t]
      BY <1>9
    <2>2. Placed(s, Out) /\ Placed(m, Off(s)) /\ Placed(e, Off(s) \union {h})
      BY <1>1, <1>4, <1>6, <1>9
    <2> QED BY <1>4, <1>9, <2>1, <2>2, FollowsTrans
  <1> QED BY <1>2, <1>4, <1>9, <1>11, <1>12, <1>13, <1>14, <1>15 DEF Switched

\* A running thread marked as one that waits or may run is still arranged.
LEMMA MarkRunning ==
  ASSUME NEW s, KInv(s), NEW x \in {"runnable", "running", "waiting"}
  PROVE  LET e == Marked(s, s.running, x)
         IN  /\ KInv(e) /\ Follows(s, e) /\ Off(e) = Off(s) /\ e.at = s.at
             /\ e.running = s.running /\ e.state = [s.state EXCEPT ![s.running] = x]
             /\ \A t \in Threads : s.state[t] = "none" <=> e.state[t] = "none"
  <1> DEFINE e == Marked(s, s.running, x)
  <1>1. s \in KTypes /\ Placed(s, Rest(s)) /\ s.running \in Threads /\ s.running \notin Off(s)
    BY Fields DEF KInv, Arranged, Placed
  <1>2. /\ Placed(e, Rest(s)) /\ Follows(s, e) /\ e.running = s.running /\ e.at = s.at
        /\ e.state = [s.state EXCEPT ![s.running] = x]
    <2>1. x \in {"stopped", "runnable", "running", "waiting", "destroyed"}
      OBVIOUS
    <2>2. Relabelled(s, e, Rest(s), s.running, x)
      BY <1>1, <2>1, Mark
    <2> QED BY <2>2 DEF Relabelled
  <1> HIDE DEF e
  <1>3. \A t \in Threads : e.state[t] = IF t = s.running THEN x ELSE s.state[t]
    BY <1>1, <1>2, Fields
  <1>4. Off(e) = Off(s) /\ Rest(e) = Rest(s)
    BY <1>1, <1>2, <1>3 DEF Off, Rest
  <1>5. \A t \in Threads : s.state[t] = "none" <=> e.state[t] = "none"
    BY <1>1, <1>3 DEF Off
  <1>6. KInv(e)
    BY <1>2, <1>3, <1>4, <1>5 DEF KInv, Arranged
  <1> QED BY <1>2, <1>4, <1>5, <1>6 DEF e

LEMMA FollowsSwitched ==
  ASSUME NEW s, NEW m, NEW e, Arranged(s), Arranged(m), m.running = s.running,
         Follows(s, m), Switched(m, e),
         \A t \in Threads \ Rest(s) : e.at[t] = s.at[t] => m.at[t] = s.at[t]
  PROVE  Follows(s, e)
  <1>1. Placed(s, Rest(s)) /\ Placed(m, Rest(m)) /\ Placed(e, Rest(e)) /\ Follows(m, e)
    BY DEF Arranged, KInv, Switched
  <1>2. Off(e) = Off(m) /\ Rest(m) = Off(m) \union {s.running} /\ s.running \in Rest(s)
    BY DEF Switched, Rest
  <1>3. Off(e) \subseteq Rest(e)
    BY DEF Rest
  <1>4. \A t \in Threads : t \notin Rest(s) /\ t \notin Rest(e) /\ s.at[t] = e.at[t]
                             => t \notin Rest(m) /\ m.at[t] = s.at[t]
    BY <1>2, <1>3
  <1> QED BY <1>1, <1>4, FollowsTrans

\* It is enough to look at the head of the run queue.
LEMMA HighestByHead ==
  ASSUME NEW s, NEW Out, Placed(s, Out), NEW r \in Threads,
         s.pri[r] >= HeadPri(s) \/ ~(s.pri[r] < HeadPri(s))
  PROVE  \A t \in Threads \ Out : s.at[t] = RunQueue => s.pri[t] <= s.pri[r]
  <1> SUFFICES ASSUME NEW t \in Threads \ Out, s.at[t] = RunQueue
               PROVE  s.pri[t] <= s.pri[r]
    OBVIOUS
  <1> DEFINE q == s.tq[RunQueue]
  <1>1. RunQueue \in ThreadQueues
    BY QueueNames
  <1>2. q # <<>>
    BY <1>1, Nobody
  <1>3. Left(s, __osPopThread(s, RunQueue), Out, Head(q)) /\ s.pri[t] <= s.pri[Head(q)]
    BY <1>1, <1>2, Pop
  <1>4. s.pri[t] \in Nat /\ s.pri[r] \in Nat /\ s.pri[Head(q)] \in Nat
    BY <1>3, Fields DEF Left, Placed
  <1>5. HeadPri(s) = s.pri[Head(q)]
    BY <1>2 DEF HeadPri
  <1> QED BY <1>3, <1>4, <1>5

\* The end of a call: if somebody has a higher priority, the highest one runs.
LEMMA Preempt ==
  ASSUME NEW s, KInv(s), s.state[s.running] = "running"
  PROVE  Switched(s, Preempted(s)) /\ Preempted(s).at = s.at
  <1> DEFINE r == s.running
             m == Marked(s, r, "runnable")
             e == __osEnqueueAndYield(m, RunQueue)
  <1>1. /\ s \in KTypes /\ r \in Threads /\ s.at[r] = RunQueue /\ r \notin Off(s)
        /\ Placed(s, Rest(s)) /\ RunQueue \in ThreadQueues /\ Arranged(s)
    BY Fields, QueueNames DEF KInv, Arranged, Placed
  <1>2. CASE s.pri[r] < HeadPri(s)
    <2>1. Preempted(s) = e
      BY <1>2 DEF Preempted, Marked
    <2>2. /\ KInv(m) /\ Follows(s, m) /\ Off(m) = Off(s) /\ m.at = s.at
          /\ m.running = r /\ m.state = [s.state EXCEPT ![r] = "runnable"]
          /\ \A t \in Threads : s.state[t] = "none" <=> m.state[t] = "none"
      BY MarkRunning
    <2>3. m.state[m.running] # "running"
      BY <1>1, <2>2, Fields
    <2> HIDE DEF m
    <2>4. Switched(m, e) /\ e.at = [m.at EXCEPT ![r] = RunQueue]
      BY <1>1, <2>2, <2>3, Yield
    <2> HIDE DEF e
    <2>5. e.at = s.at
      BY <1>1, <2>2, <2>4, Fields
    <2>6. Follows(s, e)
      <3>1. Arranged(m) /\ \A t \in Threads \ Rest(s) : m.at[t] = s.at[t]
        BY <2>2 DEF KInv
      <3> QED BY <1>1, <2>2, <2>4, <3>1, FollowsSwitched
    <2>7. Switched(s, e)
      BY <2>2, <2>4, <2>6 DEF Switched
    <2> QED BY <2>1, <2>5, <2>7
  <1>3. CASE ~(s.pri[r] < HeadPri(s))
    <2>1. Preempted(s) = s
      BY <1>3 DEF Preempted
    <2>2. \A t \in Threads \ Rest(s) : s.at[t] = RunQueue => s.pri[t] <= s.pri[r]
      BY <1>1, <1>3, HighestByHead
    <2>3. Top(s)
      BY <2>2 DEF Top
    <2>4. Follows(s, s)
      BY InTurnRefl DEF Follows
    <2> QED BY <2>1, <2>3, <2>4 DEF Switched
  <1> QED BY <1>2, <1>3

\* The running thread has been stopped or destroyed, and another one is dispatched.
LEMMA Depart ==
  ASSUME NEW s, Arranged(s), s.running \in Off(s)
  PROVE  Switched(s, __osDispatchThread(s)) /\ __osDispatchThread(s).at = s.at
  <1> DEFINE e == __osDispatchThread(s)
  <1>1. /\ s \in KTypes /\ Placed(s, Off(s)) /\ Rest(s) = Off(s)
        /\ Idle \in Threads \ Off(s) /\ s.at[Idle] = RunQueue
    BY Fields, KernelAssumption DEF Arranged, Placed, Rest
  <1>2. PICK h : Dispatched(s, e, Off(s), h)
    BY <1>1, Dispatch
  <1> HIDE DEF e
  <1>3. /\ h \in Threads \ Off(s) /\ s.at[h] = RunQueue
        /\ \A t \in Threads \ Off(s) : s.at[t] = RunQueue => s.pri[t] <= s.pri[h]
        /\ Placed(e, Off(s) \union {h}) /\ Follows(s, e) /\ e.pri = s.pri
        /\ e.running = h /\ e.at = s.at /\ e.state = [s.state EXCEPT ![h] = "running"]
    BY <1>2 DEF Dispatched, Follows
  <1>4. \A t \in Threads : e.state[t] = IF t = h THEN "running" ELSE s.state[t]
    BY <1>1, <1>3, Fields
  <1>5. Off(e) = Off(s) /\ Rest(e) = Off(s) \union {h}
    BY <1>3, <1>4 DEF Off, Rest
  <1>6. \A t \in Threads : s.state[t] = "none" <=> e.state[t] = "none"
    BY <1>3, <1>4 DEF Off
  <1>7. KInv(e)
    <2>1. \A t \in Threads \ {h} : e.state[t] # "running"
      BY <1>4 DEF Arranged, Off
    <2> QED BY <1>1, <1>3, <1>5, <1>6, <2>1 DEF KInv, Arranged
  <1>8. Top(e)
    BY <1>3, <1>4, <1>5 DEF Top
  <1> QED BY <1>3, <1>5, <1>6, <1>7, <1>8 DEF Switched, e

\* t, marked x, is started, and h, itself or one from its queue, may run.
StartedAs(s, e, Out, t, x, h) ==
  /\ Placed(e, Out \ {t}) /\ Follows(s, e) /\ e.running = s.running
  /\ e.state = [s.state EXCEPT ![t] = x]
  /\ e.at = [s.at EXCEPT ![h] = RunQueue]
  /\ h \in Threads
  /\ h = t \/ (h \notin Out /\ s.at[h] = s.at[t])

LEMMA StartRunnable ==
  ASSUME NEW s, NEW Out, Placed(s, Out), NEW t \in Threads, t \in Out,
         s.state[t] # "stopped" \/ s.at[t] \in {NoQueue, RunQueue}
  PROVE  StartedAs(s, Started(s, t), Out, t, "runnable", t)
  <1> DEFINE m == Marked(s, t, "runnable")
             e == __osEnqueueThread(m, RunQueue, t)
  <1>1. Started(s, t) = e
    BY DEF Started, Marked
  <1>2. Relabelled(s, m, Out, t, "runnable")
    BY Mark
  <1> HIDE DEF m
  <1>3. /\ Placed(m, Out) /\ Follows(s, m) /\ m.running = s.running /\ m.at = s.at
        /\ m.state = [s.state EXCEPT ![t] = "runnable"]
    BY <1>2 DEF Relabelled
  <1>4. Joined(m, e, Out, t, RunQueue)
    BY <1>3, Enqueue, QueueNames
  <1> HIDE DEF e
  <1>5. /\ Placed(e, Out \ {t}) /\ Follows(m, e) /\ e.running = s.running
        /\ e.state = m.state /\ e.at = [s.at EXCEPT ![t] = RunQueue]
    BY <1>3, <1>4 DEF Joined
  <1>6. Follows(s, e)
    BY <1>3, <1>5, FollowsTrans
  <1> QED BY <1>1, <1>3, <1>5, <1>6 DEF StartedAs

LEMMA StartWaiting ==
  ASSUME NEW s, NEW Out, Placed(s, Out), NEW t \in Threads, t \in Out,
         s.state[t] = "stopped", s.at[t] \notin {NoQueue, RunQueue}
  PROVE  \E h : StartedAs(s, Started(s, t), Out, t, "waiting", h)
  <1> DEFINE tq == s.at[t]
             m == Marked(s, t, "waiting")
             w == __osEnqueueThread(m, tq, t)
             p == __osPopThread(w, tq)
             h == Head(w.tq[tq])
             e == __osEnqueueThread(p, RunQueue, h)
             In == Out \ {t}
  <1>1. Started(s, t) = e
    BY DEF Started, Marked
  <1>2. tq \in ThreadQueues /\ s.at \in [Threads -> ThreadQueues \union {NoQueue}]
    BY Fields DEF Placed
  <1>3. Relabelled(s, m, Out, t, "waiting")
    BY Mark
  <1> HIDE DEF m
  <1>4. /\ Placed(m, Out) /\ Follows(s, m) /\ m.running = s.running /\ m.at = s.at
        /\ m.state = [s.state EXCEPT ![t] = "waiting"]
    BY <1>3 DEF Relabelled
  <1>5. Joined(m, w, Out, t, tq)
    BY <1>2, <1>4, Enqueue
  <1> HIDE DEF w
  <1>6. /\ Placed(w, In) /\ Follows(m, w) /\ w.running = s.running
        /\ w.state = m.state /\ w.at = s.at
    BY <1>2, <1>4, <1>5 DEF Joined
  <1>7. Follows(s, w)
    BY <1>4, <1>6, FollowsTrans
  <1>8. w.tq[tq] # <<>>
    <2>1. t \in Threads \ In /\ w.at[t] = tq
      BY <1>6
    <2> QED BY <1>2, <1>6, <2>1, Nobody
  <1>9. Left(w, p, In, h) /\ w.at[h] = tq
    BY <1>2, <1>6, <1>8, Pop
  <1> HIDE DEF p, h, In
  <1>10. /\ Placed(p, In \union {h}) /\ Follows(w, p) /\ p.running = s.running
         /\ p.state = m.state /\ p.at = s.at /\ h \in Threads \ In /\ s.at[h] = tq
    BY <1>6, <1>9 DEF Left
  <1>11. Follows(s, p)
    <2>1. \A u \in Threads : u \notin Out => u \notin In /\ w.at[u] = s.at[u]
      BY <1>6 DEF In
    <2> QED BY <1>6, <1>7, <1>10, <2>1, FollowsTrans
  <1>12. Joined(p, e, In \union {h}, h, RunQueue)
    <2>1. h \in Threads /\ h \in In \union {h} /\ RunQueue \in ThreadQueues
      BY <1>10, QueueNames
    <2> QED BY <1>10, <2>1, Enqueue
  <1> HIDE DEF e
  <1>13. /\ Placed(e, (In \union {h}) \ {h}) /\ Follows(p, e) /\ e.running = s.running
         /\ e.state = m.state /\ e.at = [s.at EXCEPT ![h] = RunQueue]
    BY <1>10, <1>12 DEF Joined
  <1>14. (In \union {h}) \ {h} = Out \ {t}
    BY <1>10 DEF In
  <1>15. Follows(s, e)
    <2>1. \A u \in Threads : u \notin Out /\ s.at[u] = e.at[u]
                              => u \notin In \union {h} /\ p.at[u] = s.at[u]
      BY <1>2, <1>10, <1>13 DEF In
    <2> QED BY <1>10, <1>11, <1>13, <2>1, FollowsTrans
  <1>16. StartedAs(s, e, Out, t, "waiting", h)
    BY <1>4, <1>10, <1>13, <1>14, <1>15 DEF StartedAs, In
  <1> QED BY <1>1, <1>16

\* What StartThread does to a stopped thread t: it, or the first of its queue, may run.
StartDone(s, e, t, h) ==
  /\ KInv(e) /\ Top(e) /\ Follows(s, e) /\ Off(e) = Off(s) \ {t}
  /\ h \in Threads /\ e.at = [s.at EXCEPT ![h] = RunQueue]
  /\ h = t \/ (h \notin Off(s) /\ s.at[h] = s.at[t])

LEMMA StartStopped ==
  ASSUME NEW s, KInv(s), Top(s), NEW t \in Threads, s.state[t] = "stopped"
  PROVE  \E h : StartDone(s, StartThread(s, t), t, h)
  <1> DEFINE m == Started(s, t)
             e == Preempted(m)
             Out == Rest(s)
  <1>1. /\ s \in KTypes /\ Placed(s, Out) /\ t \in Out /\ t # s.running /\ t \in Off(s)
        /\ Out = Off(s) \union {s.running} /\ s.running \in Threads \ Off(s) /\ Arranged(s)
    BY Fields DEF KInv, Arranged, Placed, Rest, Off, Top
  <1>2. PICK x \in {"runnable", "waiting"} : \E h : StartedAs(s, m, Out, t, x, h)
    <2> HIDE DEF m, Out
    <2>1. CASE s.at[t] \in {NoQueue, RunQueue}
      BY <1>1, <2>1, StartRunnable DEF m
    <2>2. CASE s.at[t] \notin {NoQueue, RunQueue}
      BY <1>1, <2>2, StartWaiting DEF m
    <2> QED BY <2>1, <2>2
  <1>3. PICK h : StartedAs(s, m, Out, t, x, h)
    BY <1>2
  <1>4. e = StartThread(s, t)
    BY DEF StartThread
  <1> HIDE DEF m, Out
  <1>5. /\ Placed(m, Out \ {t}) /\ Follows(s, m) /\ m.running = s.running
        /\ m.state = [s.state EXCEPT ![t] = x] /\ m.at = [s.at EXCEPT ![h] = RunQueue]
        /\ h \in Threads /\ (h = t \/ (h \notin Out /\ s.at[h] = s.at[t]))
    BY <1>3 DEF StartedAs
  <1>6. /\ \A u \in Threads : m.state[u] = IF u = t THEN x ELSE s.state[u]
        /\ \A u \in Threads : m.at[u] = IF u = h THEN RunQueue ELSE s.at[u]
    BY <1>1, <1>5, Fields
  <1>7. Off(m) = Off(s) \ {t} /\ Rest(m) = Out \ {t}
    BY <1>1, <1>2, <1>5, <1>6 DEF Off, Rest, Out
  <1>8. KInv(m)
    <2>1. \A u \in Threads \ {m.running} : m.state[u] # "running"
      BY <1>2, <1>5, <1>6 DEF KInv, Arranged
    <2>2. ASSUME NEW u \in Threads, m.state[u] = "none" PROVE m.at[u] = NoQueue
      <3>1. u # t /\ s.state[u] = "none" /\ u \in Off(s) /\ u # h
        BY <1>1, <1>2, <1>5, <1>6, <2>2 DEF Off
      <3> QED BY <1>1, <1>6, <3>1 DEF Arranged
    <2>3. m.at[m.running] = RunQueue /\ m.at[Idle] = RunQueue /\ Idle \notin Off(m)
      BY <1>1, <1>5, <1>6, <1>7, KernelAssumption DEF Arranged
    <2> QED BY <1>1, <1>5, <1>7, <2>1, <2>2, <2>3 DEF KInv, Arranged
  <1>9. m.state[m.running] = "running"
    BY <1>1, <1>5, <1>6 DEF Top
  <1>10. Switched(m, e) /\ e.at = m.at
    BY <1>8, <1>9, Preempt
  <1> HIDE DEF e
  <1>11. Follows(s, e)
    BY <1>1, <1>5, <1>8, <1>10, FollowsSwitched DEF KInv
  <1>12. StartDone(s, e, t, h)
    <2>1. h = t \/ (h \notin Off(s) /\ s.at[h] = s.at[t])
      BY <1>1, <1>5
    <2> QED BY <1>5, <1>7, <1>10, <1>11, <2>1 DEF StartDone, Switched
  <1> QED BY <1>4, <1>12

\* One of those on tq, if there is any, may run.
Woken(s, e, tq) ==
  /\ Follows(s, e) /\ Off(e) = Off(s)
  /\ \A t \in Threads : s.state[t] = "none" <=> e.state[t] = "none"
  /\ \/ (\A t \in Threads \ Rest(s) : s.at[t] # tq) /\ e.at = s.at
     \/ \E h \in Threads \ Rest(s) : s.at[h] = tq /\ e.at = [s.at EXCEPT ![h] = RunQueue]

\* What an exception does for a message.
LEMMA Ready ==
  ASSUME NEW s, Arranged(s), NEW tq \in ThreadQueues \ {RunQueue}
  PROVE  /\ Arranged(Readied(s, tq)) /\ Woken(s, Readied(s, tq), tq)
         /\ Readied(s, tq).running = s.running /\ Readied(s, tq).state = s.state
  <1> DEFINE Out == Rest(s)
             p == __osPopThread(s, tq)
             h == Head(s.tq[tq])
             e == __osEnqueueThread(p, RunQueue, h)
  <1>1. s \in KTypes /\ Placed(s, Out)
    BY DEF Arranged, Placed
  <1>2. CASE s.tq[tq] = <<>>
    <2>1. Readied(s, tq) = s
      BY <1>2 DEF Readied
    <2>2. Follows(s, s)
      BY InTurnRefl DEF Follows
    <2>3. \A t \in Threads \ Out : s.at[t] # tq
      BY <1>1, <1>2, Nobody
    <2> QED BY <2>1, <2>2, <2>3 DEF Woken
  <1>3. CASE s.tq[tq] # <<>>
    <2>1. Readied(s, tq) = e
      BY <1>3 DEF Readied
    <2>2. Left(s, p, Out, h) /\ s.at[h] = tq
      BY <1>1, <1>3, Pop
    <2> HIDE DEF p, h, Out
    <2>3. /\ Placed(p, Out \union {h}) /\ Follows(s, p) /\ p.running = s.running
          /\ p.state = s.state /\ p.at = s.at /\ h \in Threads \ Out
      BY <2>2 DEF Left
    <2>4. Joined(p, e, Out \union {h}, h, RunQueue)
      <3>1. h \in Threads /\ h \in Out \union {h} /\ RunQueue \in ThreadQueues
        BY <2>3, QueueNames
      <3> QED BY <2>3, <3>1, Enqueue
    <2> HIDE DEF e
    <2>5. /\ Placed(e, (Out \union {h}) \ {h}) /\ Follows(p, e) /\ e.running = s.running
          /\ e.state = s.state /\ e.at = [s.at EXCEPT ![h] = RunQueue]
      BY <2>3, <2>4 DEF Joined
    <2>6. (Out \union {h}) \ {h} = Out
      BY <2>3
    <2>7. \A t \in Threads : e.at[t] = IF t = h THEN RunQueue ELSE s.at[t]
      BY <1>1, <2>5, Fields
    <2>8. Off(e) = Off(s) /\ Rest(e) = Out
      BY <2>5 DEF Off, Rest, Out
    <2>9. Follows(s, e)
      <3>1. \A t \in Threads : t \notin Out /\ s.at[t] = e.at[t]
                                => t \notin Out \union {h} /\ p.at[t] = s.at[t]
        BY <2>2, <2>3, <2>7
      <3> QED BY <1>1, <2>3, <2>5, <3>1, FollowsTrans
    <2>10. Arranged(e)
      <3>1. \A t \in Threads : e.state[t] = "none" => e.at[t] = NoQueue
        BY <2>3, <2>5, <2>7 DEF Arranged, Out, Rest, Off
      <3>2. e.at[e.running] = RunQueue /\ e.at[Idle] = RunQueue
        BY <1>1, <2>5, <2>7, Fields, KernelAssumption DEF Arranged
      <3> QED BY <2>5, <2>6, <2>8, <3>1, <3>2 DEF Arranged
    <2>11. Woken(s, e, tq)
      BY <2>2, <2>3, <2>5, <2>8, <2>9 DEF Woken, Out
    <2> QED BY <2>1, <2>5, <2>10, <2>11
  <1> QED BY <1>2, <1>3

\* What sending, jamming and receiving do for those who wait.
LEMMA WakeOne ==
  ASSUME NEW s, KInv(s), Top(s), NEW tq \in ThreadQueues \ {RunQueue}
  PROVE  KInv(Wake(s, tq)) /\ Top(Wake(s, tq)) /\ Woken(s, Wake(s, tq), tq)
  <1> DEFINE Out == Rest(s)
             p == __osPopThread(s, tq)
             h == Head(s.tq[tq])
             m == Started(p, h)
             e == Preempted(m)
  <1>1. /\ s \in KTypes /\ Placed(s, Out) /\ Arranged(s) /\ s.running \in Threads
        /\ Out = Off(s) \union {s.running} /\ s.running \notin Off(s)
    BY Fields DEF KInv, Arranged, Placed, Rest
  <1>2. CASE s.tq[tq] = <<>>
    <2>1. Wake(s, tq) = s
      BY <1>2 DEF Wake
    <2>2. Follows(s, s)
      BY InTurnRefl DEF Follows
    <2>3. \A t \in Threads \ Out : s.at[t] # tq
      BY <1>1, <1>2, Nobody
    <2> QED BY <2>1, <2>2, <2>3 DEF Woken
  <1>3. CASE s.tq[tq] # <<>>
    <2>1. Wake(s, tq) = e
      BY <1>3 DEF Wake, StartThread
    <2>2. Left(s, p, Out, h) /\ s.at[h] = tq
      BY <1>1, <1>3, Pop
    <2> HIDE DEF p, h, Out
    <2>3. /\ Placed(p, Out \union {h}) /\ Follows(s, p) /\ p.running = s.running
          /\ p.state = s.state /\ p.at = s.at /\ h \in Threads \ Out
      BY <2>2 DEF Left
    <2>4. h \in Threads /\ h \in Out \union {h} /\ h \notin Off(s) /\ h # s.running
      BY <1>1, <2>3
    <2>5. StartedAs(p, m, Out \union {h}, h, "runnable", h)
      <3>1. p.state[h] # "stopped"
        BY <2>3, <2>4 DEF Off
      <3> QED BY <2>3, <2>4, <3>1, StartRunnable
    <2> HIDE DEF m
    <2>6. /\ Placed(m, (Out \union {h}) \ {h}) /\ Follows(p, m) /\ m.running = s.running
          /\ m.state = [s.state EXCEPT ![h] = "runnable"]
          /\ m.at = [s.at EXCEPT ![h] = RunQueue]
      BY <2>3, <2>5 DEF StartedAs
    <2>7. (Out \union {h}) \ {h} = Out
      BY <2>3
    <2>8. /\ \A t \in Threads : m.at[t] = IF t = h THEN RunQueue ELSE s.at[t]
          /\ \A t \in Threads : m.state[t] = IF t = h THEN "runnable" ELSE s.state[t]
      BY <1>1, <2>6, Fields
    <2>9. Off(m) = Off(s) /\ Rest(m) = Out
      BY <1>1, <2>4, <2>6, <2>8 DEF Off, Rest
    <2>10. \A t \in Threads : s.state[t] = "none" <=> m.state[t] = "none"
      BY <2>4, <2>8 DEF Off
    <2>11. Follows(s, m)
      <3>1. \A t \in Threads : t \notin Out /\ s.at[t] = m.at[t]
                                => t \notin Out \union {h} /\ p.at[t] = s.at[t]
        BY <2>2, <2>3, <2>8
      <3> QED BY <1>1, <2>3, <2>6, <3>1, FollowsTrans
    <2>12. KInv(m)
      <3>1. \A t \in Threads : m.state[t] = "none" => m.at[t] = NoQueue
        BY <1>1, <2>4, <2>8, <2>10 DEF Arranged, Off
      <3>2. m.at[m.running] = RunQueue /\ m.at[Idle] = RunQueue
        BY <1>1, <2>6, <2>8, KernelAssumption DEF Arranged
      <3>3. \A t \in Threads \ {m.running} : m.state[t] # "running"
        BY <1>1, <2>6, <2>8 DEF Arranged
      <3> QED BY <1>1, <2>6, <2>7, <2>9, <3>1, <3>2, <3>3 DEF KInv, Arranged
    <2>13. m.state[m.running] = "running"
      BY <1>1, <2>4, <2>6, <2>8 DEF Top
    <2>14. Switched(m, e) /\ e.at = m.at
      BY <2>12, <2>13, Preempt
    <2> HIDE DEF e
    <2>15. Follows(s, e)
      BY <1>1, <2>6, <2>11, <2>12, <2>14, FollowsSwitched DEF KInv
    <2>16. /\ KInv(e) /\ Top(e) /\ Off(e) = Off(s)
           /\ \A t \in Threads : s.state[t] = "none" <=> e.state[t] = "none"
      BY <2>9, <2>10, <2>14 DEF Switched
    <2>17. Woken(s, e, tq)
      BY <2>2, <2>3, <2>6, <2>14, <2>15, <2>16 DEF Woken, Out
    <2> QED BY <2>1, <2>16, <2>17
  <1> QED BY <1>2, <1>3

\* A thread is stopped or destroyed; the queues come next.
LEMMA MarkOff ==
  ASSUME NEW s, KInv(s), NEW t \in Workers, s.state[t] # "none",
         NEW x \in {"stopped", "destroyed"}
  PROVE  LET m == Marked(s, t, x)
         IN  /\ Relabelled(s, m, Rest(s), t, x) /\ Off(m) = Off(s) \union {t}
             /\ Rest(m) = Rest(s) \union {t}
             /\ \A u \in Threads \ {t} : m.state[u] = s.state[u]
             /\ \A u \in Threads : m.state[u] = "none" => m.at[u] = NoQueue
             /\ \A u \in Threads \ {s.running} : m.state[u] # "running"
             /\ Idle \notin Off(m) /\ m.at[Idle] = RunQueue /\ m.at[m.running] = RunQueue
  <1> DEFINE m == Marked(s, t, x)
  <1>1. s \in KTypes /\ Placed(s, Rest(s)) /\ t \in Threads /\ t # Idle
    BY DEF KInv, Arranged, Placed, Workers
  <1>2. Relabelled(s, m, Rest(s), t, x)
    BY <1>1, Mark
  <1> HIDE DEF m
  <1>3. /\ m.running = s.running /\ m.at = s.at /\ m.state = [s.state EXCEPT ![t] = x]
    BY <1>2 DEF Relabelled
  <1>4. \A u \in Threads : m.state[u] = IF u = t THEN x ELSE s.state[u]
    BY <1>1, <1>3, Fields
  <1>5. Off(m) = Off(s) \union {t} /\ Rest(m) = Rest(s) \union {t}
    BY <1>1, <1>3, <1>4 DEF Off, Rest
  <1>6. /\ \A u \in Threads : m.state[u] = "none" => m.at[u] = NoQueue
        /\ \A u \in Threads \ {s.running} : m.state[u] # "running"
    BY <1>3, <1>4 DEF KInv, Arranged
  <1>7. Idle \notin Off(m) /\ m.at[Idle] = RunQueue /\ m.at[m.running] = RunQueue
    BY <1>1, <1>3, <1>5 DEF KInv, Arranged
  <1> QED BY <1>2, <1>4, <1>5, <1>6, <1>7 DEF m

\* t is off from now on, wherever it was.
Halted(s, e, t) ==
  /\ KInv(e) /\ Top(e) /\ Follows(s, e) /\ Off(e) = Off(s) \union {t} /\ e.at = s.at

LEMMA HaltRunning ==
  ASSUME NEW s, KInv(s), s.running \in Workers, NEW x \in {"stopped", "destroyed"}
  PROVE  Halted(s, __osDispatchThread(Marked(s, s.running, x)), s.running)
  <1> DEFINE m == Marked(s, s.running, x)
             e == __osDispatchThread(m)
  <1>1. Placed(s, Rest(s)) /\ s.running \in Rest(s) /\ s.state[s.running] # "none" /\ Arranged(s)
    BY DEF KInv, Arranged, Rest, Off, Workers
  <1>2. /\ Relabelled(s, m, Rest(s), s.running, x) /\ Off(m) = Off(s) \union {s.running}
        /\ Rest(m) = Rest(s) \union {s.running}
        /\ \A u \in Threads : m.state[u] = "none" => m.at[u] = NoQueue
        /\ \A u \in Threads \ {s.running} : m.state[u] # "running"
        /\ Idle \notin Off(m) /\ m.at[Idle] = RunQueue /\ m.at[m.running] = RunQueue
    BY <1>1, MarkOff
  <1> HIDE DEF m
  <1>3. Placed(m, Rest(s)) /\ Follows(s, m) /\ m.running = s.running /\ m.at = s.at
    BY <1>2 DEF Relabelled
  <1>4. Rest(m) = Rest(s)
    BY <1>1, <1>2
  <1>5. Arranged(m) /\ m.running \in Off(m)
    BY <1>2, <1>3, <1>4 DEF Arranged
  <1>6. Switched(m, e) /\ e.at = m.at
    BY <1>5, Depart
  <1> HIDE DEF e
  <1>7. Follows(s, e)
    BY <1>1, <1>3, <1>5, <1>6, FollowsSwitched
  <1>8. Halted(s, e, s.running)
    BY <1>2, <1>3, <1>6, <1>7 DEF Halted, Switched
  <1> QED BY <1>8 DEF m, e

LEMMA HaltOther ==
  ASSUME NEW s, KInv(s), Top(s), NEW t \in Workers, t \notin Rest(s),
         NEW x \in {"stopped", "destroyed"}
  PROVE  Halted(s, __osDequeueThread(Marked(s, t, x), t), t)
  <1> DEFINE m == Marked(s, t, x)
             e == __osDequeueThread(m, t)
  <1>1. /\ Placed(s, Rest(s)) /\ s.state[t] # "none" /\ t # s.running /\ t \in Threads
        /\ s.running \notin Off(s) /\ s.running \in Threads /\ t \notin Off(s)
    BY Fields DEF KInv, Arranged, Rest, Off, Workers, Placed
  <1>2. /\ Relabelled(s, m, Rest(s), t, x) /\ Off(m) = Off(s) \union {t}
        /\ Rest(m) = Rest(s) \union {t}
        /\ \A u \in Threads \ {t} : m.state[u] = s.state[u]
        /\ \A u \in Threads : m.state[u] = "none" => m.at[u] = NoQueue
        /\ \A u \in Threads \ {s.running} : m.state[u] # "running"
        /\ Idle \notin Off(m) /\ m.at[Idle] = RunQueue /\ m.at[m.running] = RunQueue
    BY <1>1, MarkOff
  <1> HIDE DEF m
  <1>3. Placed(m, Rest(s)) /\ Follows(s, m) /\ m.running = s.running /\ m.at = s.at
    BY <1>2 DEF Relabelled
  <1>4. Left(m, e, Rest(s), t)
    BY <1>1, <1>3, Dequeue
  <1> HIDE DEF e
  <1>5. /\ Placed(e, Rest(m)) /\ Follows(m, e) /\ e.running = m.running
        /\ e.state = m.state /\ e.at = m.at
    BY <1>2, <1>4 DEF Left
  <1>6. Off(e) = Off(m) /\ Rest(e) = Rest(m)
    BY <1>5 DEF Off, Rest
  <1>7. KInv(e)
    BY <1>1, <1>2, <1>3, <1>5, <1>6 DEF KInv, Arranged
  <1>8. Follows(s, e)
    BY <1>1, <1>3, <1>5, FollowsTrans
  <1>9. Top(e)
    <2>1. e.pri = s.pri /\ e.at = s.at /\ e.running = s.running /\ Rest(s) \subseteq Rest(e)
      BY <1>2, <1>3, <1>5, <1>6, <1>8 DEF Follows
    <2>2. e.state[e.running] = s.state[s.running]
      BY <1>1, <1>2, <1>5, <2>1
    <2> QED BY <2>1, <2>2 DEF Top
  <1>10. Halted(s, e, t)
    BY <1>2, <1>3, <1>5, <1>6, <1>7, <1>8, <1>9 DEF Halted
  <1> QED BY <1>10 DEF m, e

\* A stopped thread that is destroyed is in no queue.
LEMMA HaltStopped ==
  ASSUME NEW s, KInv(s), Top(s), NEW t \in Workers, s.state[t] = "stopped"
  PROVE  Halted(s, Marked(s, t, "destroyed"), t)
  <1> DEFINE m == Marked(s, t, "destroyed")
  <1>1. t \in Off(s) /\ t \in Threads /\ t \in Rest(s) /\ s.running # t /\ s.running \in Threads
    BY Fields DEF Off, Rest, KInv, Arranged, Placed, Workers
  <1>2. /\ Relabelled(s, m, Rest(s), t, "destroyed") /\ Off(m) = Off(s) \union {t}
        /\ Rest(m) = Rest(s) \union {t}
        /\ \A u \in Threads \ {t} : m.state[u] = s.state[u]
        /\ \A u \in Threads : m.state[u] = "none" => m.at[u] = NoQueue
        /\ \A u \in Threads \ {s.running} : m.state[u] # "running"
        /\ Idle \notin Off(m) /\ m.at[Idle] = RunQueue /\ m.at[m.running] = RunQueue
    BY MarkOff
  <1> HIDE DEF m
  <1>3. Placed(m, Rest(s)) /\ Follows(s, m) /\ m.running = s.running /\ m.at = s.at
    BY <1>2 DEF Relabelled
  <1>4. Rest(m) = Rest(s) /\ Off(m) = Off(s)
    BY <1>1, <1>2
  <1>5. KInv(m)
    BY <1>2, <1>3, <1>4 DEF KInv, Arranged
  <1>6. Top(m)
    <2>1. m.pri = s.pri /\ m.state[m.running] = s.state[s.running]
      BY <1>1, <1>2, <1>3 DEF Follows
    <2> QED BY <1>3, <1>4, <2>1 DEF Top
  <1>7. Halted(s, m, t)
    BY <1>1, <1>3, <1>4, <1>5, <1>6 DEF Halted
  <1> QED BY <1>7 DEF m

\* The queues do not depend on the priority of one who is in none.
Priced(s, t, p) == [s EXCEPT !.pri[t] = p]

Repriced(s, e, Out, t, p) ==
  /\ Placed(e, Out) /\ e.tq = s.tq /\ e.pri = [s.pri EXCEPT ![t] = p]
  /\ e.at = s.at /\ e.state = s.state /\ e.running = s.running

LEMMA Price ==
  ASSUME NEW s, NEW Out, Placed(s, Out), NEW t \in Threads, t \in Out, NEW p \in Priorities
  PROVE  Repriced(s, Priced(s, t, p), Out, t, p)
  <1> DEFINE e == Priced(s, t, p)
  <1>1. s \in KTypes /\ s.pri \in [Threads -> Priorities \union {0}]
    BY DEF Placed, KTypes
  <1>2. /\ e \in KTypes /\ e.tq = s.tq /\ e.pri = [s.pri EXCEPT ![t] = p]
        /\ e.at = s.at /\ e.state = s.state /\ e.running = s.running
    <2>1. [s.pri EXCEPT ![t] = p] \in [Threads -> Priorities \union {0}]
      BY <1>1
    <2> QED BY <1>1, <2>1 DEF KTypes, Priced
  <1> HIDE DEF e
  <1>3. \A u \in Threads : e.pri[u] = IF u = t THEN p ELSE s.pri[u]
    BY <1>1, <1>2
  <1>4. ASSUME NEW tq \in ThreadQueues PROVE Sorted(e.pri, s.tq[tq])
    <2>1. /\ Members(s.tq[tq]) = {u \in Threads \ Out : s.at[u] = tq}
          /\ Sorted(s.pri, s.tq[tq])
      BY DEF Placed
    <2>2. \A i \in DOMAIN s.tq[tq] : s.tq[tq][i] \in Threads \ Out
      BY <2>1 DEF Members
    <2>3. \A i \in DOMAIN s.tq[tq] : e.pri[s.tq[tq][i]] = s.pri[s.tq[tq][i]]
      BY <1>3, <2>2
    <2> QED BY <2>1, <2>3 DEF Sorted
  <1>5. Placed(e, Out)
    BY <1>2, <1>4 DEF Placed
  <1> QED BY <1>2, <1>5 DEF Repriced, e

\* The queues are as before but for the place of t in its own.
Moved(s, m, t) ==
  \A tq \in ThreadQueues :
    /\ Members(m.tq[tq]) = Members(s.tq[tq])
    /\ \A a, u \in Members(s.tq[tq]) \ {t} :
         AheadIn(s.tq[tq], a, u) /\ m.pri[a] = m.pri[u] => AheadIn(m.tq[tq], a, u)

LEMMA Requeue ==
  ASSUME NEW s, KInv(s), NEW t \in Threads, s.state[t] \notin {"none", "destroyed"},
         NEW p \in Priorities
  PROVE  LET m == Requeued(Priced(s, t, p), t)
         IN  /\ Placed(m, Rest(s)) /\ Moved(s, m, t) /\ m.pri = [s.pri EXCEPT ![t] = p]
             /\ m.at = s.at /\ m.state = s.state /\ m.running = s.running
  <1> DEFINE Out == Rest(s)
             b == Priced(s, t, p)
             m == Requeued(b, t)
  <1>1. /\ s \in KTypes /\ Placed(s, Out) /\ s.pri \in [Threads -> Nat]
        /\ s.pri \in [Threads -> Priorities \union {0}]
    BY Fields DEF KInv, Arranged, Placed, KTypes
  <1>2. /\ b.tq = s.tq /\ b.pri = [s.pri EXCEPT ![t] = p]
        /\ b.at = s.at /\ b.state = s.state /\ b.running = s.running
    BY <1>1 DEF Priced, KTypes
  <1>3. CASE t = s.running \/ s.state[t] = "stopped"
    <2>1. m = b /\ t \in Out
      BY <1>2, <1>3 DEF Requeued, Rest, Off
    <2>2. Repriced(s, b, Out, t, p)
      BY <1>1, <2>1, Price
    <2> HIDE DEF b, m, Out
    <2>3. Moved(s, b, t)
      BY <1>2 DEF Moved
    <2> QED BY <1>2, <2>1, <2>2, <2>3 DEF Repriced, b, m, Out
  <1>4. CASE t # s.running /\ s.state[t] # "stopped"
    <2> DEFINE d == __osDequeueThread(s, t)
               c == Priced(d, t, p)
               tq == s.at[t]
    <2>1. t \in Threads \ Out /\ tq \in ThreadQueues
      BY <1>1, <1>4 DEF Rest, Off, Placed
    <2>2. Left(s, d, Out, t)
      BY <1>1, <2>1, Dequeue
    <2>3. /\ Placed(d, Out \union {t}) /\ Follows(s, d) /\ d.at = s.at
          /\ d.state = s.state /\ d.running = s.running /\ d.pri = s.pri /\ d \in KTypes
      BY <2>2 DEF Left, Follows, Placed
    <2>4. Repriced(d, c, Out \union {t}, t, p)
      BY <2>1, <2>3, Price
    <2>5. m = __osEnqueueThread(c, tq, t)
      <3>1. m = __osEnqueueThread(__osDequeueThread(b, t), tq, t)
        BY <1>2, <1>4 DEF Requeued
      <3>2. __osDequeueThread(b, t) = c
        BY <1>1 DEF KTypes, __osDequeueThread, Priced
      <3> QED BY <3>1, <3>2
    <2> HIDE DEF b, m, c, d, Out
    <2>6. Joined(c, m, Out \union {t}, t, tq)
      <3>1. Placed(c, Out \union {t}) /\ t \in Threads /\ t \in Out \union {t}
        BY <2>1, <2>4 DEF Repriced
      <3>2. Joined(c, __osEnqueueThread(c, tq, t), Out \union {t}, t, tq)
        BY <2>1, <3>1, Enqueue
      <3> QED BY <2>5, <3>2
    <2>7. /\ Placed(m, (Out \union {t}) \ {t}) /\ Follows(c, m) /\ c.tq = d.tq
          /\ m.at = [s.at EXCEPT ![t] = tq] /\ m.state = s.state /\ m.running = s.running
          /\ m.pri = [s.pri EXCEPT ![t] = p] /\ c.pri = m.pri
      BY <2>3, <2>4, <2>6 DEF Joined, Repriced, Follows
    <2>8. m.at = s.at /\ (Out \union {t}) \ {t} = Out
      BY <1>1, <2>1, <2>7, Fields
    <2>9. ASSUME NEW x \in ThreadQueues
          PROVE  /\ Members(m.tq[x]) = Members(s.tq[x])
                 /\ \A a, u \in Members(s.tq[x]) \ {t} :
                      AheadIn(s.tq[x], a, u) /\ m.pri[a] = m.pri[u] => AheadIn(m.tq[x], a, u)
      <3>1. /\ Members(s.tq[x]) = {u \in Threads \ Out : s.at[u] = x}
            /\ Members(d.tq[x]) = {u \in Threads \ (Out \union {t}) : s.at[u] = x}
            /\ Members(m.tq[x]) = {u \in Threads \ Out : s.at[u] = x}
        BY <1>1, <2>3, <2>7, <2>8 DEF Placed
      <3>2. InTurn(s.pri, s.tq[x], d.tq[x]) /\ InTurn(m.pri, d.tq[x], m.tq[x])
        BY <2>3, <2>7 DEF Follows
      <3>3. ASSUME NEW a \in Members(s.tq[x]) \ {t}, NEW u \in Members(s.tq[x]) \ {t},
                   AheadIn(s.tq[x], a, u), m.pri[a] = m.pri[u]
            PROVE  AheadIn(m.tq[x], a, u)
        <4>1. a \in Threads /\ u \in Threads /\ a # t /\ u # t
          BY <3>1
        <4>2. s.pri[a] = s.pri[u]
          BY <1>1, <2>7, <3>3, <4>1
        <4>3. a \in Members(d.tq[x]) /\ u \in Members(d.tq[x]) /\ a \in Members(m.tq[x])
              /\ u \in Members(m.tq[x])
          BY <3>1
        <4>4. AheadIn(d.tq[x], a, u)
          BY <3>2, <3>3, <4>2, <4>3 DEF InTurn
        <4> QED BY <3>2, <3>3, <4>3, <4>4 DEF InTurn
      <3> QED BY <3>1, <3>3
    <2>10. Moved(s, m, t)
      BY <2>9 DEF Moved
    <2> QED BY <2>7, <2>8, <2>10 DEF m, b, Out
  <1> QED BY <1>3, <1>4

LEMMA FollowsInTurn ==
  ASSUME NEW s, NEW e, Follows(s, e)
  PROVE  NobodyOvertakes(s, e)
  <1> SUFFICES ASSUME NEW tq \in ThreadQueues,
                      NEW t \in Queued(s, tq) \intersect Queued(e, tq),
                      NEW u \in Queued(e, tq),
                      u \notin Queued(s, tq) \/ Before(s, tq, t, u),
                      e.pri[t] = s.pri[t], e.pri[t] = e.pri[u]
               PROVE  Before(e, tq, t, u)
    BY Zenon DEF NobodyOvertakes
  <1>1. /\ Queued(s, tq) = Members(s.tq[tq]) /\ Queued(e, tq) = Members(e.tq[tq])
        /\ Before(s, tq, t, u) <=> AheadIn(s.tq[tq], t, u)
        /\ Before(e, tq, t, u) <=> AheadIn(e.tq[tq], t, u)
    BY Zenon DEF Queued, Members, Before, AheadIn
  <1>2. InTurn(s.pri, s.tq[tq], e.tq[tq]) /\ e.pri = s.pri
    BY DEF Follows
  <1> QED BY <1>1, <1>2 DEF InTurn

\* A change of priority, and the call that makes the highest one run.
LEMMA SetPri ==
  ASSUME NEW s, KInv(s), Top(s), NEW t \in Threads, s.state[t] \notin {"none", "destroyed"},
         NEW p \in Priorities, s.pri[t] # p
  PROVE  LET e == Preempted(Requeued(Priced(s, t, p), t))
         IN  /\ KInv(e) /\ Top(e) /\ Off(e) = Off(s) /\ e.at = s.at
             /\ NobodyOvertakes(s, e)
  <1> DEFINE m == Requeued(Priced(s, t, p), t)
             e == Preempted(m)
  <1>1. /\ s \in KTypes /\ Placed(s, Rest(s)) /\ Arranged(s) /\ s.pri \in [Threads -> Nat]
    BY Fields DEF KInv, Arranged, Placed
  <1>2. /\ Placed(m, Rest(s)) /\ Moved(s, m, t) /\ m.pri = [s.pri EXCEPT ![t] = p]
        /\ m.at = s.at /\ m.state = s.state /\ m.running = s.running
    BY Requeue
  <1> HIDE DEF m
  <1>3. Off(m) = Off(s) /\ Rest(m) = Rest(s)
    BY <1>2 DEF Off, Rest
  <1>4. KInv(m) /\ m.state[m.running] = "running"
    BY <1>2, <1>3 DEF KInv, Arranged, Top
  <1>5. Switched(m, e) /\ e.at = m.at
    BY <1>4, Preempt
  <1> HIDE DEF e
  <1>6. KInv(e) /\ Top(e) /\ Off(e) = Off(s) /\ e.at = s.at /\ Follows(m, e) /\ e.pri = m.pri
    BY <1>2, <1>3, <1>5 DEF Switched, Follows
  <1>7. NobodyOvertakes(s, e)
    <2> SUFFICES ASSUME NEW tq \in ThreadQueues,
                        NEW a \in Queued(s, tq) \intersect Queued(e, tq),
                        NEW u \in Queued(e, tq),
                        u \notin Queued(s, tq)
                          \/ (Before(s, tq, a, u) /\ e.pri[u] = s.pri[u]),
                        e.pri[a] = s.pri[a], e.pri[a] = e.pri[u]
                 PROVE  Before(e, tq, a, u)
      BY Zenon DEF NobodyOvertakes
    <2>1. /\ Queued(s, tq) = Members(s.tq[tq]) /\ Queued(e, tq) = Members(e.tq[tq])
          /\ Before(s, tq, a, u) <=> AheadIn(s.tq[tq], a, u)
          /\ Before(e, tq, a, u) <=> AheadIn(e.tq[tq], a, u)
      BY Zenon DEF Queued, Members, Before, AheadIn
    <2>2. e.pri[t] = p
      BY <1>1, <1>2, <1>6
    <2>3. a # t
      BY <2>2
    <2>4. InTurn(e.pri, m.tq[tq], e.tq[tq]) /\ Members(m.tq[tq]) = Members(s.tq[tq])
      BY <1>2, <1>6 DEF Follows, Moved
    <2>5. CASE u \notin Queued(s, tq)
      BY <2>1, <2>4, <2>5 DEF InTurn
    <2>6. CASE Before(s, tq, a, u) /\ e.pri[u] = s.pri[u]
      <3>1. u # t /\ u \in Members(s.tq[tq])
        BY <2>1, <2>2, <2>6 DEF AheadIn, Members
      <3>2. AheadIn(m.tq[tq], a, u)
        BY <1>2, <1>6, <2>1, <2>3, <2>6, <3>1 DEF Moved
      <3> QED BY <2>1, <2>4, <3>2 DEF InTurn
    <2> QED BY <2>5, <2>6
  <1> QED BY <1>6, <1>7 DEF e, m

LEMMA Create ==
  ASSUME NEW s, KInv(s), Top(s), NEW t \in Workers, s.state[t] = "none", NEW p \in Priorities
  PROVE  LET e == [s EXCEPT !.pri[t] = p, !.state[t] = "stopped", !.at[t] = NoQueue]
         IN  /\ KInv(e) /\ Top(e) /\ Off(e) = Off(s) /\ e.at = s.at
             /\ NobodyOvertakes(s, e)
  <1> DEFINE e == [s EXCEPT !.pri[t] = p, !.state[t] = "stopped", !.at[t] = NoQueue]
             b == Priced(s, t, p)
             m == Marked(b, t, "stopped")
  <1>1. /\ s \in KTypes /\ Placed(s, Rest(s)) /\ t \in Off(s) /\ t \in Rest(s)
        /\ t \in Threads /\ t # Idle /\ t # s.running /\ s.running \in Threads /\ s.at[t] = NoQueue
        /\ s.running \notin Off(s)
    BY Fields DEF KInv, Arranged, Placed, Rest, Off, Workers
  <1>2. e = m
    <2>1. [s.at EXCEPT ![t] = NoQueue] = s.at
      BY <1>1, Fields
    <2> QED BY <1>1, <2>1 DEF KTypes, Marked, Priced
  <1>3. Repriced(s, b, Rest(s), t, p)
    BY <1>1, Price
  <1> HIDE DEF b
  <1>4. /\ Placed(b, Rest(s)) /\ b.tq = s.tq /\ b.pri = [s.pri EXCEPT ![t] = p]
        /\ b.at = s.at /\ b.state = s.state /\ b.running = s.running /\ b \in KTypes
    BY <1>3 DEF Repriced, Placed
  <1>5. Relabelled(b, m, Rest(s), t, "stopped")
    BY <1>1, <1>4, Mark
  <1>6. m.tq = s.tq
    BY <1>4 DEF Marked, KTypes
  <1> HIDE DEF m, e
  <1>7. /\ Placed(m, Rest(s)) /\ m.running = s.running /\ m.at = s.at
        /\ m.state = [s.state EXCEPT ![t] = "stopped"] /\ m.pri = [s.pri EXCEPT ![t] = p]
    BY <1>4, <1>5 DEF Relabelled, Follows
  <1>8. /\ \A u \in Threads : m.state[u] = IF u = t THEN "stopped" ELSE s.state[u]
        /\ \A u \in Threads : m.pri[u] = IF u = t THEN p ELSE s.pri[u]
    BY <1>1, <1>7, Fields
  <1>9. Off(m) = Off(s) /\ Rest(m) = Rest(s)
    BY <1>1, <1>7, <1>8 DEF Off, Rest
  <1>10. KInv(m)
    <2>1. \A u \in Threads : m.state[u] = "none" => m.at[u] = NoQueue
      BY <1>7, <1>8 DEF KInv, Arranged
    <2>2. \A u \in Threads \ {m.running} : m.state[u] # "running"
      BY <1>7, <1>8 DEF KInv, Arranged
    <2> QED BY <1>7, <1>9, <2>1, <2>2 DEF KInv, Arranged
  <1>11. Top(m)
    BY <1>1, <1>7, <1>8, <1>9 DEF Top
  <1>12. NobodyOvertakes(s, m)
    BY <1>6, Zenon DEF NobodyOvertakes, Queued, Before
  <1> QED BY <1>2, <1>7, <1>9, <1>10, <1>11, <1>12 DEF e

-----------------------------------------------------------------------------
(* Sleepers, and those on the way.                                         *)

Sleepers(s, tq) == {t \in Threads \ Off(s) : s.at[t] = tq}

Way(s, cl, tq) ==
  {t \in Threads : cl[t] # NoCall /\ SleepsOn(cl[t]) = tq /\ s.at[t] = RunQueue}

\* While somebody sleeps on tq, n are on their way to it.
Enough(s, cl, tq, n) == Sleepers(s, tq) # {} => Cardinality(Way(s, cl, tq)) >= n

Balanced(s, cl, rings) ==
  \A q \in Queues :
    /\ Enough(s, cl, MtQueue(q), rings[q].validCount)
    /\ Enough(s, cl, FullQueue(q), MsgCount - rings[q].validCount)

\* Who sleeps on a queue sleeps there for a call of its own.
Attached(s, cl) ==
  \A t \in Threads :
    (\E q \in Queues : s.at[t] \in {MtQueue(q), FullQueue(q)})
      => cl[t] # NoCall /\ s.at[t] = SleepsOn(cl[t])

LEMMA SomebodySleeps ==
  ASSUME NEW s, Arranged(s), NEW tq \in ThreadQueues \ {RunQueue}
  PROVE  /\ s.tq[tq] # <<>> <=> Sleepers(s, tq) # {}
         /\ Sleepers(s, tq) = {t \in Threads \ Rest(s) : s.at[t] = tq}
  <1>1. Placed(s, Rest(s)) /\ s.at[s.running] = RunQueue
    BY DEF Arranged
  <1>2. s.tq[tq] = <<>> <=> \A t \in Threads \ Rest(s) : s.at[t] # tq
    BY <1>1, Nobody
  <1>3. Sleepers(s, tq) = {t \in Threads \ Rest(s) : s.at[t] = tq}
    BY <1>1 DEF Sleepers, Rest
  <1> QED BY <1>2, <1>3

LEMMA WayFinite ==
  ASSUME NEW s, NEW cl, NEW tq
  PROVE  IsFiniteSet(Way(s, cl, tq)) /\ Cardinality(Way(s, cl, tq)) \in Nat
  <1>1. Way(s, cl, tq) \in SUBSET Threads
    BY DEF Way
  <1>2. IsFiniteSet(Way(s, cl, tq))
    BY <1>1, FS_Subset, KernelAssumption
  <1> QED BY <1>2, FS_CardinalityType

\* More on the way, and nobody who sleeps now where nobody slept.
LEMMA EnoughKept ==
  ASSUME NEW s, NEW e, NEW cl, NEW c2, NEW tq, NEW n \in Int, NEW n2 \in Int, n2 <= n,
         Enough(s, cl, tq, n), Sleepers(e, tq) # {} => Sleepers(s, tq) # {},
         Way(s, cl, tq) \subseteq Way(e, c2, tq)
  PROVE  Enough(e, c2, tq, n2)
  <1>1. /\ Cardinality(Way(s, cl, tq)) \in Nat /\ Cardinality(Way(e, c2, tq)) \in Nat
        /\ Cardinality(Way(s, cl, tq)) <= Cardinality(Way(e, c2, tq))
    <2>1. IsFiniteSet(Way(e, c2, tq)) /\ Way(s, cl, tq) \in SUBSET Way(e, c2, tq)
      BY WayFinite
    <2> QED BY <2>1, WayFinite, FS_Subset
  <1> QED BY <1>1 DEF Enough

\* One more on the way serves one more.
LEMMA EnoughMore ==
  ASSUME NEW s, NEW e, NEW cl, NEW c2, NEW tq, NEW n \in Int,
         Enough(s, cl, tq, n), Sleepers(e, tq) # {} => Sleepers(s, tq) # {},
         Way(s, cl, tq) \subseteq Way(e, c2, tq), NEW h \in Way(e, c2, tq), h \notin Way(s, cl, tq)
  PROVE  Enough(e, c2, tq, n + 1)
  <1> DEFINE W == Way(s, cl, tq)
             V == Way(e, c2, tq)
  <1>1. /\ IsFiniteSet(W) /\ IsFiniteSet(V) /\ Cardinality(W) \in Nat /\ Cardinality(V) \in Nat
    BY WayFinite
  <1>2. Enough(s, cl, tq, n) <=> (Sleepers(s, tq) # {} => Cardinality(W) >= n)
    BY DEF Enough
  <1>3. Enough(e, c2, tq, n + 1) <=> (Sleepers(e, tq) # {} => Cardinality(V) >= n + 1)
    BY DEF Enough
  <1> HIDE DEF W, V
  <1>4. Cardinality(W) <= Cardinality(V \ {h})
    <2>1. W \in SUBSET (V \ {h}) /\ IsFiniteSet(V \ {h})
      BY <1>1, FS_RemoveElement DEF W, V
    <2> QED BY <2>1, FS_Subset
  <1>5. Cardinality(V \ {h}) = Cardinality(V) - 1
    BY <1>1, FS_RemoveElement DEF V
  <1> QED BY <1>1, <1>2, <1>3, <1>4, <1>5

\* One less on the way serves one less.
LEMMA EnoughLess ==
  ASSUME NEW s, NEW e, NEW cl, NEW c2, NEW tq, NEW n \in Int,
         Enough(s, cl, tq, n), Sleepers(e, tq) # {} => Sleepers(s, tq) # {},
         NEW r, Way(s, cl, tq) \ {r} \subseteq Way(e, c2, tq)
  PROVE  Enough(e, c2, tq, n - 1)
  <1> DEFINE W == Way(s, cl, tq)
             V == Way(e, c2, tq)
  <1>1. /\ IsFiniteSet(W) /\ IsFiniteSet(V) /\ Cardinality(W) \in Nat /\ Cardinality(V) \in Nat
    BY WayFinite
  <1>2. Enough(s, cl, tq, n) <=> (Sleepers(s, tq) # {} => Cardinality(W) >= n)
    BY DEF Enough
  <1>3. Enough(e, c2, tq, n - 1) <=> (Sleepers(e, tq) # {} => Cardinality(V) >= n - 1)
    BY DEF Enough
  <1>4. W \ {r} \in SUBSET V
    OBVIOUS
  <1> HIDE DEF W, V
  <1>5. Cardinality(W \ {r}) <= Cardinality(V)
    BY <1>1, <1>4, FS_Subset
  <1>6. Cardinality(W \ {r}) >= Cardinality(W) - 1
    <2>1. Cardinality(W \ {r}) = IF r \in W THEN Cardinality(W) - 1 ELSE Cardinality(W)
      BY <1>1, FS_RemoveElement, Zenon
    <2> QED BY <1>1, <2>1
  <1>7. Cardinality(W \ {r}) \in Nat
    BY <1>1, FS_RemoveElement, FS_CardinalityType
  <1> QED BY <1>1, <1>2, <1>3, <1>5, <1>6, <1>7

\* tq is the mtqueue or the fullqueue of a message queue.
MailQueues == ThreadQueues \ {RunQueue}

LEMMA MailQueueNames ==
  ASSUME NEW tq
  PROVE  tq \in MailQueues <=> \E q \in Queues : tq \in {MtQueue(q), FullQueue(q)}
  <1>1. \A q \in Queues : MtQueue(q) # RunQueue /\ FullQueue(q) # RunQueue
    BY QueueNames
  <1> QED BY <1>1 DEF MailQueues, ThreadQueues

\* Nobody has moved, and nobody has come back.
LEMMA QuietMail ==
  ASSUME NEW s, NEW e, NEW cl, e.at = s.at, Off(s) \subseteq Off(e)
  PROVE  /\ Attached(s, cl) => Attached(e, cl)
         /\ \A tq \in MailQueues, n \in Int : Enough(s, cl, tq, n) => Enough(e, cl, tq, n)
  <1>1. \A tq : Way(s, cl, tq) = Way(e, cl, tq) /\ Sleepers(e, tq) \subseteq Sleepers(s, tq)
    BY DEF Way, Sleepers
  <1> QED BY <1>1 DEF Attached, Enough

\* The one who is woken is on the way.
LEMMA WokenMail ==
  ASSUME NEW s, NEW e, NEW cl, Arranged(s), Arranged(e), NEW wq \in MailQueues, Woken(s, e, wq),
         Attached(s, cl)
  PROVE  /\ Attached(e, cl)
         /\ \A tq \in MailQueues, n \in Int : Enough(s, cl, tq, n) => Enough(e, cl, tq, n)
         /\ \A n \in Int : Enough(s, cl, wq, n) => Enough(e, cl, wq, n + 1)
  <1>1. s.at \in [Threads -> ThreadQueues \union {NoQueue}] /\ Off(e) = Off(s)
    BY Fields DEF Arranged, Placed, Woken
  <1>2. CASE (\A t \in Threads \ Rest(s) : s.at[t] # wq) /\ e.at = s.at
    <2>1. Sleepers(e, wq) = {}
      <3>1. Sleepers(s, wq) = {}
        BY <1>2, SomebodySleeps DEF MailQueues
      <3> QED BY <1>1, <1>2, <3>1 DEF Sleepers
    <2>2. \A n : Enough(e, cl, wq, n)
      BY <2>1 DEF Enough
    <2> QED BY <1>1, <1>2, <2>2, QuietMail
  <1>3. CASE \E h \in Threads \ Rest(s) : s.at[h] = wq /\ e.at = [s.at EXCEPT ![h] = RunQueue]
    <2>1. PICK h \in Threads \ Rest(s) : s.at[h] = wq /\ e.at = [s.at EXCEPT ![h] = RunQueue]
      BY <1>3
    <2>2. \A t \in Threads : e.at[t] = IF t = h THEN RunQueue ELSE s.at[t]
      BY <1>1, <2>1
    <2>3. \A tq \in MailQueues : Sleepers(e, tq) \subseteq Sleepers(s, tq)
      BY <1>1, <2>2 DEF Sleepers, MailQueues
    <2>4. \A tq : Way(s, cl, tq) \subseteq Way(e, cl, tq)
      BY <2>2 DEF Way
    <2>5. h \in Way(e, cl, wq) /\ h \notin Way(s, cl, wq)
      <3>1. PICK q \in Queues : wq \in {MtQueue(q), FullQueue(q)}
        BY MailQueueNames
      <3>2. cl[h] # NoCall /\ SleepsOn(cl[h]) = wq
        BY <2>1, <3>1 DEF Attached
      <3> QED BY <2>1, <2>2, <3>2 DEF Way, MailQueues
    <2>6. \A tq \in MailQueues, n \in Int : Enough(s, cl, tq, n) => Enough(e, cl, tq, n)
      <3> SUFFICES ASSUME NEW tq \in MailQueues, NEW n \in Int, Enough(s, cl, tq, n)
                   PROVE  Enough(e, cl, tq, n)
        OBVIOUS
      <3>1. Sleepers(e, tq) # {} => Sleepers(s, tq) # {}
        BY <2>3
      <3> QED BY <2>4, <3>1, EnoughKept
    <2>7. \A n \in Int : Enough(s, cl, wq, n) => Enough(e, cl, wq, n + 1)
      <3>1. Sleepers(e, wq) # {} => Sleepers(s, wq) # {}
        BY <2>3
      <3> QED BY <2>4, <2>5, <3>1, EnoughMore
    <2>8. Attached(e, cl)
      <3> SUFFICES ASSUME NEW t \in Threads,
                          NEW q \in Queues, e.at[t] \in {MtQueue(q), FullQueue(q)}
                   PROVE  cl[t] # NoCall /\ e.at[t] = SleepsOn(cl[t])
        BY DEF Attached
      <3>1. e.at[t] = s.at[t]
        BY <2>2, QueueNames
      <3> QED BY <3>1 DEF Attached
    <2> QED BY <2>6, <2>7, <2>8
  <1> QED BY <1>2, <1>3 DEF Woken

\* A thread that is started again may find somebody to go in its place.
LEMMA StartMail ==
  ASSUME NEW s, NEW e, NEW cl, KInv(s), KInv(e), NEW t \in Threads, NEW h, StartDone(s, e, t, h)
  PROVE  /\ Attached(s, cl) => Attached(e, cl)
         /\ \A tq \in MailQueues, n \in Int : Enough(s, cl, tq, n) => Enough(e, cl, tq, n)
  <1>1. /\ s.at \in [Threads -> ThreadQueues \union {NoQueue}] /\ Off(e) = Off(s) \ {t}
        /\ h \in Threads /\ e.at = [s.at EXCEPT ![h] = RunQueue]
        /\ h = t \/ (h \notin Off(s) /\ s.at[h] = s.at[t])
    BY Fields DEF KInv, Arranged, Placed, StartDone
  <1>2. \A u \in Threads : e.at[u] = IF u = h THEN RunQueue ELSE s.at[u]
    BY <1>1
  <1>3. \A tq : Way(s, cl, tq) \subseteq Way(e, cl, tq)
    BY <1>2 DEF Way
  <1>4. \A tq \in MailQueues : Sleepers(e, tq) # {} => Sleepers(s, tq) # {}
    BY <1>1, <1>2 DEF Sleepers, MailQueues
  <1>5. \A tq \in MailQueues, n \in Int : Enough(s, cl, tq, n) => Enough(e, cl, tq, n)
    BY <1>3, <1>4, EnoughKept
  <1>6. ASSUME Attached(s, cl), NEW u \in Threads,
               NEW q \in Queues, e.at[u] \in {MtQueue(q), FullQueue(q)}
        PROVE  cl[u] # NoCall /\ e.at[u] = SleepsOn(cl[u])
    <2>1. e.at[u] = s.at[u]
      BY <1>2, <1>6, QueueNames
    <2> QED BY <1>6, <2>1 DEF Attached
  <1> QED BY <1>5, <1>6 DEF Attached

\* A call has ended.
LEMMA DoneMail ==
  ASSUME NEW s, NEW cl, NEW r \in DOMAIN cl, Arranged(s), s.at[r] = RunQueue, Attached(s, cl),
         DOMAIN cl = Threads
  PROVE  LET c2 == [cl EXCEPT ![r] = NoCall]
         IN  /\ Attached(s, c2)
             /\ \A tq \in MailQueues, n \in Int : Enough(s, cl, tq, n) => Enough(s, c2, tq, n - 1)
             /\ \A tq \in MailQueues, n \in Int :
                  (cl[r] = NoCall \/ SleepsOn(cl[r]) # tq) /\ Enough(s, cl, tq, n)
                    => Enough(s, c2, tq, n)
  <1> DEFINE c2 == [cl EXCEPT ![r] = NoCall]
  <1>1. c2[r] = NoCall /\ \A t \in Threads \ {r} : c2[t] = cl[t]
    OBVIOUS
  <1> HIDE DEF c2
  <1>2. \A tq : Way(s, cl, tq) \ {r} \subseteq Way(s, c2, tq)
    BY <1>1 DEF Way
  <1>3. ASSUME NEW tq \in MailQueues, NEW n \in Int, Enough(s, cl, tq, n)
        PROVE  Enough(s, c2, tq, n - 1)
    BY <1>2, <1>3, EnoughLess
  <1>4. ASSUME NEW tq \in MailQueues, NEW n \in Int, Enough(s, cl, tq, n),
               cl[r] = NoCall \/ SleepsOn(cl[r]) # tq
        PROVE  Enough(s, c2, tq, n)
    <2>1. r \notin Way(s, cl, tq)
      BY <1>4 DEF Way
    <2>2. Way(s, cl, tq) \subseteq Way(s, c2, tq)
      BY <1>2, <2>1
    <2> QED BY <1>4, <2>2, EnoughKept
  <1>5. Attached(s, c2)
    <2> SUFFICES ASSUME NEW t \in Threads,
                        NEW q \in Queues, s.at[t] \in {MtQueue(q), FullQueue(q)}
                 PROVE  c2[t] # NoCall /\ s.at[t] = SleepsOn(c2[t])
      BY DEF Attached
    <2>1. t # r
      BY QueueNames
    <2> QED BY <1>1, <2>1 DEF Attached
  <1> QED BY <1>3, <1>4, <1>5 DEF c2

LEMMA ModRange ==
  ASSUME NEW x \in Nat
  PROVE  x % MsgCount \in 0..MsgCount - 1
  BY KernelAssumption

-----------------------------------------------------------------------------
(* The message queues.                                                     *)

Rings ==
  [msg : [0..MsgCount - 1 -> Msgs \union {NoMsg}],
   first : 0..MsgCount - 1, validCount : 0..MsgCount]

LEMMA RingTypes ==
  ASSUME NEW r \in Rings
  PROVE  /\ MsgCount \in Nat \ {0} /\ r.first \in 0..MsgCount - 1
         /\ r.validCount \in 0..MsgCount /\ EndOf(r) \in 0..MsgCount - 1
         /\ r.msg \in [0..MsgCount - 1 -> Msgs \union {NoMsg}]
         /\ \A m \in Msgs : r.validCount < MsgCount =>
              /\ Sent(r, m) \in Rings /\ Sent(r, m).validCount = r.validCount + 1
              /\ Jammed(r, m) \in Rings /\ Jammed(r, m).validCount = r.validCount + 1
         /\ r.validCount # 0 =>
              Taken(r) \in Rings /\ Taken(r).validCount = r.validCount - 1
  <1>1. /\ MsgCount \in Nat \ {0} /\ r.first \in 0..MsgCount - 1 /\ r.validCount \in 0..MsgCount
        /\ r.msg \in [0..MsgCount - 1 -> Msgs \union {NoMsg}]
    BY KernelAssumption DEF Rings
  <1>2. EndOf(r) \in 0..MsgCount - 1
    BY <1>1, ModRange DEF EndOf
  <1>3. ASSUME NEW m \in Msgs, r.validCount < MsgCount
        PROVE  /\ Sent(r, m) \in Rings /\ Sent(r, m).validCount = r.validCount + 1
               /\ Jammed(r, m) \in Rings /\ Jammed(r, m).validCount = r.validCount + 1
    <2>1. r.validCount + 1 \in 0..MsgCount
      BY <1>1, <1>3
    <2>2. [r.msg EXCEPT ![EndOf(r)] = m] \in [0..MsgCount - 1 -> Msgs \union {NoMsg}]
      BY <1>1, <1>2
    <2>3. Sent(r, m) \in Rings /\ Sent(r, m).validCount = r.validCount + 1
      BY <2>1, <2>2 DEF Sent, Rings
    <2> DEFINE f == (r.first + MsgCount - 1) % MsgCount
    <2>4. f \in 0..MsgCount - 1
      <3>1. r.first + MsgCount - 1 \in Nat
        BY <1>1
      <3> QED BY <3>1, ModRange
    <2> HIDE DEF f
    <2>5. [r.msg EXCEPT ![f] = m] \in [0..MsgCount - 1 -> Msgs \union {NoMsg}]
      BY <1>1, <2>4
    <2>6. Jammed(r, m) \in Rings /\ Jammed(r, m).validCount = r.validCount + 1
      BY <2>1, <2>4, <2>5 DEF Jammed, Rings, f
    <2> QED BY <2>3, <2>6
  <1>4. ASSUME r.validCount # 0
        PROVE  Taken(r) \in Rings /\ Taken(r).validCount = r.validCount - 1
    <2>1. (r.first + 1) % MsgCount \in 0..MsgCount - 1 /\ r.validCount - 1 \in 0..MsgCount
      <3>1. r.first + 1 \in Nat
        BY <1>1
      <3>2. (r.first + 1) % MsgCount \in 0..MsgCount - 1
        BY <3>1, ModRange
      <3> QED BY <1>1, <1>4, <3>2
    <2> QED BY <2>1 DEF Taken, Rings
  <1> QED BY <1>1, <1>2, <1>3, <1>4

\* A transfer that does not have to wait changes the count by one.
LEMMA TransferCount ==
  ASSUME NEW r \in Rings, NEW c \in Calls,
         IF c.op = "recv" THEN r.validCount # 0 ELSE r.validCount < MsgCount
  PROVE  /\ Transferred(r, c) \in Rings
         /\ Transferred(r, c).validCount
              = IF c.op = "recv" THEN r.validCount - 1 ELSE r.validCount + 1
  <1>1. CASE c.op = "recv"
    BY <1>1, RingTypes DEF Transferred
  <1>2. CASE c.op \in {"send", "jam"}
    <2>1. c.m \in Msgs
      BY <1>2 DEF Calls
    <2>2. Transferred(r, c) \in {Sent(r, c.m), Jammed(r, c.m)}
      BY <1>2 DEF Transferred
    <2> QED BY <1>2, <2>1, <2>2, RingTypes
  <1> QED BY <1>1, <1>2 DEF Calls

-----------------------------------------------------------------------------
(* The inductive invariant.                                                *)

Inv ==
  /\ KInv(k)
  /\ mq \in [Queues -> Rings] /\ call \in [Threads -> Calls \union {NoCall}]
  /\ received \in Msgs \union {NoMsg} /\ mode \in {"thread", "exception"}
  /\ mode = "thread" => Top(k)
  /\ mode = "exception" => k.state[k.running] = "runnable"
  /\ call[Idle] = NoCall
  /\ Attached(k, call)
  /\ Balanced(k, call, mq)

LEMMA InitInv ==
  ASSUME Init PROVE Inv
  <1>1. Idle \in Threads /\ 0 \in 0..MsgCount - 1 /\ 0 \in 0..MsgCount /\ MsgCount \in Nat
    BY KernelAssumption
  <1>2. k \in KTypes
    BY <1>1, QueueNames DEF Init, KTypes
  <1>3. Rest(k) = Threads /\ Idle \notin Off(k) /\ k.running = Idle
    BY <1>1 DEF Init, Rest, Off
  <1>4. Placed(k, Rest(k))
    <2>1. \A tq \in ThreadQueues : k.tq[tq] = <<>>
      BY DEF Init
    <2>2. Distinct(<<>>) /\ Members(<<>>) = {} /\ \A pri : Sorted(pri, <<>>)
      BY DEF Distinct, Members, Sorted
    <2> QED BY <1>2, <1>3, <2>1, <2>2 DEF Placed
  <1>5. KInv(k)
    BY <1>1, <1>3, <1>4 DEF KInv, Arranged, Init
  <1>6. Top(k)
    BY <1>1, <1>3 DEF Top, Init
  <1>7. mq \in [Queues -> Rings]
    BY <1>1 DEF Init, Rings
  <1>8. Attached(k, call)
    BY QueueNames DEF Attached, Init
  <1>9. Balanced(k, call, mq)
    <2>1. \A tq \in MailQueues : Sleepers(k, tq) = {}
      BY <1>3 DEF Sleepers, Init, MailQueues, Off
    <2> QED BY <2>1, QueueNames DEF Balanced, Enough, MailQueues
  <1> QED BY <1>1, <1>5, <1>6, <1>7, <1>8, <1>9 DEF Inv, Init

\* Threads may have gone off, and another one may run.
LEMMA QuietStep ==
  ASSUME Inv, KInv(k'), k'.at = k.at, Off(k) \subseteq Off(k'),
         UNCHANGED <<mq, call, received>>, mode' \in {"thread", "exception"},
         mode' = "thread" => Top(k'), mode' = "exception" => k'.state[k'.running] = "runnable"
  PROVE  Inv'
  <1>1. \A q \in Queues : mq[q].validCount \in Int /\ MsgCount - mq[q].validCount \in Int
    BY RingTypes DEF Inv
  <1>2. \A q \in Queues : MtQueue(q) \in MailQueues /\ FullQueue(q) \in MailQueues
    BY QueueNames DEF MailQueues
  <1>3. Attached(k', call) /\ Balanced(k', call, mq)
    BY <1>1, <1>2, QuietMail DEF Inv, Balanced
  <1> QED BY <1>3 DEF Inv

\* The counts, and the bound on them.
LEMMA Counts ==
  ASSUME Inv, NEW q \in Queues
  PROVE  /\ mq[q] \in Rings /\ mq[q].validCount \in 0..MsgCount /\ MsgCount \in Nat \ {0}
         /\ MtQueue(q) \in MailQueues /\ FullQueue(q) \in MailQueues
         /\ Enough(k, call, MtQueue(q), mq[q].validCount)
         /\ Enough(k, call, FullQueue(q), MsgCount - mq[q].validCount)
  <1>1. mq[q] \in Rings
    BY DEF Inv
  <1> QED BY <1>1, RingTypes, QueueNames DEF Inv, Balanced, MailQueues

-----------------------------------------------------------------------------
(* The calls, one by one.                                                  *)

\* What a step shows: the invariant, and that nobody overtakes.
Good == Inv' /\ NobodyOvertakes(k, k')

LEMMA CreateStep ==
  ASSUME Inv, NEW t \in Workers, NEW p \in Priorities, osCreateThread(t, p)
  PROVE  Good
  <1>1. /\ KInv(k') /\ Top(k') /\ Off(k') = Off(k) /\ k'.at = k.at /\ NobodyOvertakes(k, k')
    BY Create DEF Inv, osCreateThread, Free
  <1>2. Inv'
    BY <1>1, QuietStep DEF osCreateThread, Free
  <1> QED BY <1>1, <1>2 DEF Good

LEMMA SetPriStep ==
  ASSUME Inv, NEW t \in Workers, NEW p \in Priorities, osSetThreadPri(t, p)
  PROVE  Good
  <1>1. k' = Preempted(Requeued(Priced(k, t, p), t)) /\ t \in Threads
    BY DEF osSetThreadPri, Priced, Workers
  <1>2. /\ KInv(k') /\ Top(k') /\ Off(k') = Off(k) /\ k'.at = k.at /\ NobodyOvertakes(k, k')
    BY <1>1, SetPri DEF Inv, osSetThreadPri, Free
  <1>3. Inv'
    BY <1>2, QuietStep DEF osSetThreadPri, Free
  <1> QED BY <1>2, <1>3 DEF Good

LEMMA StartStep ==
  ASSUME Inv, NEW t \in Workers, osStartThread(t)
  PROVE  Good
  <1>1. PICK h : StartDone(k, k', t, h)
    BY StartStopped DEF Inv, osStartThread, Free, Workers
  <1>2. KInv(k') /\ Top(k') /\ Follows(k, k')
    BY <1>1 DEF StartDone
  <1>3. Attached(k', call) /\ Balanced(k', call, mq)
    <2>1. /\ Attached(k', call)
          /\ \A tq \in MailQueues, n \in Int : Enough(k, call, tq, n) => Enough(k', call, tq, n)
      BY <1>1, <1>2, StartMail DEF Inv, Workers
    <2> QED BY <2>1, Counts DEF Balanced
  <1>4. Inv'
    BY <1>2, <1>3 DEF Inv, osStartThread, Free
  <1> QED BY <1>2, <1>4, FollowsInTurn DEF Good

LEMMA HaltedStep ==
  ASSUME Inv, NEW t \in Workers, Halted(k, k', t), UNCHANGED <<mq, call, received, mode>>,
         mode = "thread"
  PROVE  Good
  <1>1. /\ KInv(k') /\ Top(k') /\ Off(k) \subseteq Off(k') /\ k'.at = k.at /\ Follows(k, k')
    BY DEF Halted
  <1>2. Inv'
    BY <1>1, QuietStep
  <1> QED BY <1>1, <1>2, FollowsInTurn DEF Good

LEMMA StopStep ==
  ASSUME Inv, NEW t \in Workers, osStopThread(t)
  PROVE  Good
  <1>1. Halted(k, k', t)
    <2>1. CASE t = k.running
      <3>1. k' = __osDispatchThread(Marked(k, k.running, "stopped"))
        BY <2>1 DEF osStopThread, Stopped, Marked
      <3> QED BY <2>1, <3>1, HaltRunning DEF Inv
    <2>2. CASE t # k.running
      <3>1. k' = __osDequeueThread(Marked(k, t, "stopped"), t)
        BY <2>2 DEF osStopThread, Stopped, Marked
      <3>2. t \notin Rest(k)
        BY <2>2 DEF osStopThread, Rest, Off
      <3> QED BY <3>1, <3>2, HaltOther DEF Inv, osStopThread, Free
    <2> QED BY <2>1, <2>2
  <1> QED BY <1>1, HaltedStep DEF osStopThread, Free

LEMMA DestroyStep ==
  ASSUME Inv, NEW t \in Workers, osDestroyThread(t)
  PROVE  Good
  <1>1. Halted(k, k', t)
    <2>1. CASE t = k.running
      <3>1. k' = __osDispatchThread(Marked(k, k.running, "destroyed"))
        BY <2>1 DEF osDestroyThread, Marked
      <3> QED BY <2>1, <3>1, HaltRunning DEF Inv
    <2>2. CASE t # k.running /\ k.state[t] = "stopped"
      <3>1. k' = Marked(k, t, "destroyed")
        BY <2>2 DEF osDestroyThread, Marked
      <3> QED BY <2>2, <3>1, HaltStopped DEF Inv, osDestroyThread, Free
    <2>3. CASE t # k.running /\ k.state[t] # "stopped"
      <3>1. k' = __osDequeueThread(Marked(k, t, "destroyed"), t)
        BY <2>3 DEF osDestroyThread, Marked
      <3>2. t \notin Rest(k)
        BY <2>3 DEF osDestroyThread, Rest, Off
      <3> QED BY <3>1, <3>2, HaltOther DEF Inv, osDestroyThread, Free
    <2> QED BY <2>1, <2>2, <2>3
  <1> QED BY <1>1, HaltedStep DEF osDestroyThread, Free

\* The running thread, marked x, goes to tq and another one is dispatched.
LEMMA MarkAndYield ==
  ASSUME NEW s, KInv(s), NEW x \in {"runnable", "waiting"}, NEW tq \in ThreadQueues,
         tq = RunQueue \/ s.running # Idle
  PROVE  LET e == __osEnqueueAndYield([s EXCEPT !.state[s.running] = x], tq)
         IN  /\ KInv(e) /\ Top(e) /\ Follows(s, e) /\ Off(e) = Off(s)
             /\ e.at = [s.at EXCEPT ![s.running] = tq]
  <1> DEFINE m == Marked(s, s.running, x)
             e == __osEnqueueAndYield(m, tq)
  <1>0. x \in {"runnable", "running", "waiting"}
    OBVIOUS
  <1>1. e = __osEnqueueAndYield([s EXCEPT !.state[s.running] = x], tq)
    BY DEF Marked
  <1>2. /\ s.running \in Threads /\ Arranged(s)
        /\ s.state \in [Threads -> {"none", "stopped", "runnable", "running",
                                    "waiting", "destroyed"}]
    BY Fields DEF KInv, Arranged, Placed
  <1>3. /\ KInv(m) /\ Follows(s, m) /\ Off(m) = Off(s) /\ m.at = s.at
        /\ m.running = s.running /\ m.state = [s.state EXCEPT ![s.running] = x]
    BY <1>0, MarkRunning
  <1> HIDE DEF m
  <1>4. m.state[m.running] # "running" /\ Arranged(m)
    BY <1>2, <1>3 DEF KInv
  <1>5. Switched(m, e) /\ e.at = [m.at EXCEPT ![m.running] = tq]
    BY <1>3, <1>4, Yield
  <1> HIDE DEF e
  <1>6. Follows(s, e)
    BY <1>2, <1>3, <1>4, <1>5, FollowsSwitched
  <1> QED BY <1>1, <1>3, <1>5, <1>6 DEF Switched

LEMMA YieldStep ==
  ASSUME Inv, osYieldThread
  PROVE  Good
  <1>1. /\ KInv(k') /\ Top(k') /\ Follows(k, k') /\ Off(k') = Off(k)
        /\ k'.at = [k.at EXCEPT ![k.running] = RunQueue]
    BY MarkAndYield, QueueNames DEF Inv, osYieldThread
  <1>2. k'.at = k.at
    <2>1. k.at \in [Threads -> ThreadQueues \union {NoQueue}] /\ k.at[k.running] = RunQueue
      BY Fields DEF Inv, KInv, Arranged, Placed
    <2> QED BY <1>1, <2>1
  <1>3. Inv'
    BY <1>1, <1>2, QuietStep DEF osYieldThread, Free
  <1> QED BY <1>1, <1>3, FollowsInTurn DEF Good

LEMMA ExceptionStep ==
  ASSUME Inv, __osException
  PROVE  Good
  <1>1. k' = Marked(k, k.running, "runnable") /\ k.running \in Threads
    BY Fields DEF __osException, Marked, Inv, KInv, Arranged, Placed
  <1>2. /\ KInv(k') /\ Follows(k, k') /\ Off(k') = Off(k) /\ k'.at = k.at
        /\ k'.running = k.running /\ k'.state = [k.state EXCEPT ![k.running] = "runnable"]
    BY <1>1, MarkRunning DEF Inv
  <1>3. k'.state[k'.running] = "runnable"
    <2>1. k.state \in [Threads -> {"none", "stopped", "runnable", "running",
                                   "waiting", "destroyed"}]
      BY Fields DEF Inv, KInv, Arranged, Placed
    <2> QED BY <1>1, <1>2, <2>1
  <1>4. Inv'
    BY <1>2, <1>3, QuietStep DEF __osException
  <1> QED BY <1>2, <1>4, FollowsInTurn DEF Good

LEMMA RedispatchStep ==
  ASSUME Inv, redispatch
  PROVE  Good
  <1>1. KInv(k) /\ k.state[k.running] = "runnable" /\ k.running \in Threads /\ Placed(k, Rest(k))
        /\ k.at \in [Threads -> ThreadQueues \union {NoQueue}] /\ k.at[k.running] = RunQueue
    BY Fields DEF Inv, redispatch, KInv, Arranged, Placed
  <1>2. KInv(k') /\ Top(k') /\ Follows(k, k') /\ Off(k') = Off(k) /\ k'.at = k.at
    <2>1. CASE k.pri[k.running] >= HeadPri(k)
      <3>1. k' = Marked(k, k.running, "running")
        BY <2>1 DEF redispatch, Marked
      <3>2. /\ KInv(k') /\ Follows(k, k') /\ Off(k') = Off(k) /\ k'.at = k.at
            /\ k'.running = k.running /\ k'.state = [k.state EXCEPT ![k.running] = "running"]
        BY <1>1, <3>1, MarkRunning
      <3>3. \A t \in Threads \ Rest(k) : k.at[t] = RunQueue => k.pri[t] <= k.pri[k.running]
        BY <1>1, <2>1, HighestByHead
      <3>4. k'.state[k'.running] = "running"
        <4>1. k.state \in [Threads -> {"none", "stopped", "runnable", "running",
                                       "waiting", "destroyed"}]
          BY Fields DEF Inv, KInv, Arranged, Placed
        <4> QED BY <1>1, <3>2, <4>1
      <3>5. Top(k')
        BY <3>2, <3>3, <3>4 DEF Top, Rest, Follows
      <3> QED BY <3>2, <3>5
    <2>2. CASE ~(k.pri[k.running] >= HeadPri(k))
      <3>1. k' = __osEnqueueAndYield(k, RunQueue)
        BY <2>2 DEF redispatch
      <3>2. Switched(k, k') /\ k'.at = [k.at EXCEPT ![k.running] = RunQueue]
        BY <1>1, <3>1, Yield, QueueNames
      <3> QED BY <1>1, <3>2 DEF Switched
    <2> QED BY <2>1, <2>2
  <1>3. Inv'
    BY <1>2, QuietStep DEF redispatch
  <1> QED BY <1>2, <1>3, FollowsInTurn DEF Good

LEMMA CallNames ==
  ASSUME NEW c \in Calls
  PROVE  /\ c # NoCall /\ c.q \in Queues
         /\ SleepsOn(c) \in MailQueues /\ Wakes(c) \in MailQueues
         /\ c.op = "recv" => SleepsOn(c) = MtQueue(c.q) /\ Wakes(c) = FullQueue(c.q)
         /\ c.op # "recv" => SleepsOn(c) = FullQueue(c.q) /\ Wakes(c) = MtQueue(c.q)
  <1>1. c \in MailCalls /\ c.q \in Queues
    BY DEF Calls, MailCalls
  <1>2. c # NoCall
    BY <1>1, KernelAssumption
  <1> QED BY <1>1, <1>2, QueueNames DEF SleepsOn, Wakes, MailQueues

\* A caller that has to wait: nobody need be on the way to where it sleeps.
LEMMA SleepStep ==
  ASSUME Inv, NEW c \in Calls, mode = "thread", call[k.running] \in {NoCall, c},
         k.running # Idle, Sleep(c)
  PROVE  Good
  <1> DEFINE r == k.running
             sq == SleepsOn(c)
  <1>1. /\ c # NoCall /\ c.q \in Queues /\ sq \in MailQueues /\ sq \in ThreadQueues
        /\ r \in Threads /\ k.at[r] = RunQueue
        /\ k.at \in [Threads -> ThreadQueues \union {NoQueue}]
    BY CallNames, Fields DEF Inv, KInv, Arranged, Placed, MailQueues
  <1>2. /\ KInv(k') /\ Top(k') /\ Follows(k, k') /\ Off(k') = Off(k)
        /\ k'.at = [k.at EXCEPT ![r] = sq]
    BY <1>1, MarkAndYield DEF Inv, Sleep
  <1>3. call' = [call EXCEPT ![r] = c] /\ call \in [Threads -> Calls \union {NoCall}]
    BY DEF Sleep, Inv
  <1>4. /\ \A t \in Threads : k'.at[t] = IF t = r THEN sq ELSE k.at[t]
        /\ \A t \in Threads : call'[t] = IF t = r THEN c ELSE call[t]
        /\ call' \in [Threads -> Calls \union {NoCall}]
    BY <1>1, <1>2, <1>3
  <1> HIDE DEF sq
  <1>5. Attached(k', call')
    <2> SUFFICES ASSUME NEW t \in Threads,
                        NEW q \in Queues, k'.at[t] \in {MtQueue(q), FullQueue(q)}
                 PROVE  call'[t] # NoCall /\ k'.at[t] = SleepsOn(call'[t])
      BY DEF Attached
    <2>1. CASE t = r
      BY <1>1, <1>4, <2>1 DEF sq
    <2>2. CASE t # r
      BY <1>4, <2>2 DEF Inv, Attached
    <2> QED BY <2>1, <2>2
  <1>6. ASSUME NEW tq \in MailQueues, tq # sq, NEW n \in Int, Enough(k, call, tq, n)
        PROVE  Enough(k', call', tq, n)
    <2>1. Sleepers(k', tq) \subseteq Sleepers(k, tq)
      BY <1>2, <1>4, <1>6 DEF Sleepers, MailQueues
    <2>2. r \notin Way(k, call, tq)
      BY <1>6 DEF Way, sq
    <2>3. Way(k, call, tq) \subseteq Way(k', call', tq)
      BY <1>4, <2>2 DEF Way
    <2>4. Sleepers(k', tq) # {} => Sleepers(k, tq) # {}
      BY <2>1
    <2>5. n <= n /\ Enough(k, call, tq, n)
      BY <1>6
    <2> QED BY <2>3, <2>4, <2>5, EnoughKept, Zenon
  <1>7. ASSUME NEW n \in Int, n <= 0 PROVE Enough(k', call', sq, n)
    BY <1>7, WayFinite DEF Enough
  <1>8. ASSUME NEW q \in Queues
        PROVE  /\ Enough(k', call', MtQueue(q), mq[q].validCount)
               /\ Enough(k', call', FullQueue(q), MsgCount - mq[q].validCount)
    <2>1. /\ mq[q].validCount \in 0..MsgCount /\ MsgCount \in Nat
          /\ MtQueue(q) \in MailQueues /\ FullQueue(q) \in MailQueues
          /\ Enough(k, call, MtQueue(q), mq[q].validCount)
          /\ Enough(k, call, FullQueue(q), MsgCount - mq[q].validCount)
      BY Counts
    <2>2. CASE c.op = "recv" /\ q = c.q
      <3>1. mq[q].validCount = 0 /\ sq = MtQueue(q) /\ FullQueue(q) # sq
        BY <2>2, CallNames, QueueNames DEF Sleep, MustWait, MQ_IS_EMPTY, sq
      <3> QED BY <1>6, <1>7, <2>1, <3>1
    <2>3. CASE c.op # "recv" /\ q = c.q
      <3>1. mq[q].validCount >= MsgCount /\ sq = FullQueue(q) /\ MtQueue(q) # sq
        BY <2>3, CallNames, QueueNames DEF Sleep, MustWait, MQ_IS_FULL, sq
      <3>2. MsgCount - mq[q].validCount <= 0 /\ MsgCount - mq[q].validCount \in Int
        BY <2>1, <3>1
      <3> QED BY <1>6, <1>7, <2>1, <3>1, <3>2
    <2>4. CASE q # c.q
      <3>1. MtQueue(q) # sq /\ FullQueue(q) # sq
        BY <1>1, <2>4, CallNames, QueueNames DEF sq
      <3> QED BY <1>6, <2>1, <3>1
    <2> QED BY <2>2, <2>3, <2>4
  <1>9. Balanced(k', call', mq)
    BY <1>8 DEF Balanced
  <1>10. call'[Idle] = NoCall
    BY <1>4, KernelAssumption DEF Inv
  <1>11. Inv'
    BY <1>2, <1>4, <1>5, <1>9, <1>10 DEF Inv, Sleep
  <1> QED BY <1>2, <1>11, FollowsInTurn DEF Good

\* A caller that need not wait: one place more and one message less, or the
\* other way round, and one of those who wait for it is on the way.
LEMMA TransferStep ==
  ASSUME Inv, NEW c \in Calls, mode = "thread", call[k.running] \in {NoCall, c},
         ~MustWait(c), Transfer(c)
  PROVE  Good
  <1> DEFINE r == k.running
             wq == Wakes(c)
  <1>1. /\ c # NoCall /\ c.q \in Queues /\ wq \in MailQueues /\ r \in Threads
        /\ KInv(k) /\ Arranged(k) /\ Top(k) /\ call \in [Threads -> Calls \union {NoCall}]
        /\ wq \in ThreadQueues \ {RunQueue} /\ k.at[r] = RunQueue
        /\ k.at \in [Threads -> ThreadQueues \union {NoQueue}] /\ Attached(k, call)
    BY CallNames, Fields DEF Inv, KInv, Arranged, Placed, MailQueues
  <1>2. KInv(k') /\ Top(k') /\ Woken(k, k', wq)
    BY <1>1, WakeOne DEF Transfer
  <1>3. Arranged(k') /\ k'.at[r] = RunQueue
    <2>1. k'.at = k.at \/ \E h \in Threads : k'.at = [k.at EXCEPT ![h] = RunQueue]
      BY <1>2 DEF Woken
    <2> QED BY <1>1, <1>2, <2>1 DEF KInv
  <1>4. /\ Attached(k', call)
        /\ \A tq \in MailQueues, n \in Int : Enough(k, call, tq, n) => Enough(k', call, tq, n)
        /\ \A n \in Int : Enough(k, call, wq, n) => Enough(k', call, wq, n + 1)
    BY <1>1, <1>2, <1>3, WokenMail
  <1>5. call' = [call EXCEPT ![r] = NoCall] /\ call' \in [Threads -> Calls \union {NoCall}]
        /\ call'[Idle] = NoCall
    BY <1>1 DEF Transfer, Inv
  <1>6. /\ Attached(k', call')
        /\ \A tq \in MailQueues, n \in Int : Enough(k', call, tq, n) => Enough(k', call', tq, n - 1)
        /\ \A tq \in MailQueues, n \in Int :
             (call[r] = NoCall \/ SleepsOn(call[r]) # tq) /\ Enough(k', call, tq, n)
               => Enough(k', call', tq, n)
    BY <1>1, <1>3, <1>4, <1>5, DoneMail
  <1>7. \A tq \in MailQueues, n \in Int :
          tq # SleepsOn(c) /\ Enough(k', call, tq, n) => Enough(k', call', tq, n)
    BY <1>6
  <1>8. /\ mq' = [mq EXCEPT ![c.q] = Transferred(mq[c.q], c)]
        /\ mq \in [Queues -> Rings] /\ mq[c.q] \in Rings
    BY <1>1 DEF Transfer, Inv
  <1>9. /\ Transferred(mq[c.q], c) \in Rings
        /\ Transferred(mq[c.q], c).validCount = IF c.op = "recv" THEN mq[c.q].validCount - 1
                                                ELSE mq[c.q].validCount + 1
    <2>1. IF c.op = "recv" THEN mq[c.q].validCount # 0 ELSE mq[c.q].validCount < MsgCount
      BY <1>1, Counts DEF MustWait, MQ_IS_EMPTY, MQ_IS_FULL
    <2> QED BY <1>8, <2>1, TransferCount
  <1>10. /\ mq' \in [Queues -> Rings]
         /\ \A q \in Queues : mq'[q] = IF q = c.q THEN Transferred(mq[q], c) ELSE mq[q]
    BY <1>1, <1>8, <1>9
  <1>11. ASSUME NEW q \in Queues
         PROVE  /\ Enough(k', call', MtQueue(q), mq'[q].validCount)
                /\ Enough(k', call', FullQueue(q), MsgCount - mq'[q].validCount)
    <2>1. /\ mq[q].validCount \in 0..MsgCount /\ MsgCount \in Nat
          /\ MtQueue(q) \in MailQueues /\ FullQueue(q) \in MailQueues
          /\ Enough(k, call, MtQueue(q), mq[q].validCount)
          /\ Enough(k, call, FullQueue(q), MsgCount - mq[q].validCount)
      BY Counts
    <2> DEFINE v == mq[q].validCount
    <2>2. v \in Int /\ MsgCount - v \in Int
      BY <2>1
    <2> HIDE DEF v, wq
    <2>3. CASE c.op = "recv" /\ q = c.q
      <3>1. /\ mq'[q].validCount = v - 1
            /\ SleepsOn(c) = MtQueue(q) /\ wq = FullQueue(q) /\ FullQueue(q) # SleepsOn(c)
        BY <1>9, <1>10, <2>3, CallNames, QueueNames DEF wq, v
      <3>2. Enough(k', call', MtQueue(q), v - 1)
        BY <1>4, <1>6, <2>1, <2>2 DEF v
      <3>3. Enough(k', call', FullQueue(q), MsgCount - v + 1)
        <4>1. Enough(k', call, FullQueue(q), MsgCount - v + 1)
          BY <1>4, <2>1, <2>2, <3>1 DEF v
        <4>2. MsgCount - v + 1 \in Int
          BY <2>2
        <4> QED BY <1>7, <2>1, <3>1, <4>1, <4>2
      <3>4. MsgCount - (v - 1) = MsgCount - v + 1
        BY <2>1, <2>2
      <3> QED BY <3>1, <3>2, <3>3, <3>4
    <2>4. CASE c.op # "recv" /\ q = c.q
      <3>1. /\ mq'[q].validCount = v + 1
            /\ SleepsOn(c) = FullQueue(q) /\ wq = MtQueue(q) /\ MtQueue(q) # SleepsOn(c)
        BY <1>9, <1>10, <2>4, CallNames, QueueNames DEF wq, v
      <3>2. Enough(k', call', FullQueue(q), MsgCount - v - 1)
        BY <1>4, <1>6, <2>1, <2>2 DEF v
      <3>3. Enough(k', call', MtQueue(q), v + 1)
        <4>1. Enough(k', call, MtQueue(q), v + 1)
          BY <1>4, <2>1, <2>2, <3>1 DEF v
        <4>2. v + 1 \in Int
          BY <2>2
        <4> QED BY <1>7, <2>1, <3>1, <4>1, <4>2
      <3>4. MsgCount - (v + 1) = MsgCount - v - 1
        BY <2>1, <2>2
      <3> QED BY <3>1, <3>2, <3>3, <3>4
    <2>5. CASE q # c.q
      <3>1. MtQueue(q) # SleepsOn(c) /\ FullQueue(q) # SleepsOn(c)
        BY <1>1, <2>5, CallNames, QueueNames
      <3>2. mq'[q].validCount = v
        BY <1>10, <2>5 DEF v
      <3> QED BY <1>4, <1>7, <2>1, <2>2, <3>1, <3>2 DEF v
    <2> QED BY <2>3, <2>4, <2>5
  <1>12. Balanced(k', call', mq')
    BY <1>11 DEF Balanced
  <1>13. received' \in Msgs \union {NoMsg}
    <2>1. mq[c.q].msg[mq[c.q].first] \in Msgs \union {NoMsg}
      BY <1>8, RingTypes
    <2> QED BY <2>1 DEF Transfer, Inv
  <1>14. Inv'
    BY <1>2, <1>5, <1>6, <1>10, <1>12, <1>13 DEF Inv, Transfer
  <1> QED BY <1>2, <1>14, FollowsInTurn DEF Good, Woken

LEMMA CallStep ==
  ASSUME Inv, NEW c \in Calls, Call(c)
  PROVE  Good
  BY SleepStep, TransferStep DEF Call, Free

LEMMA ResumeStep ==
  ASSUME Inv, Resume
  PROVE  Good
  <1>1. k.running \in Threads
    BY Fields DEF Inv, KInv, Arranged, Placed
  <1>2. call[k.running] \in Calls /\ k.running # Idle
    BY <1>1 DEF Inv, Resume
  <1> QED BY <1>2, SleepStep, TransferStep DEF Resume

\* What the message queues need of the threads.
MailRight(s, cl, rings) ==
  Attached(s, cl) /\ rings \in [Queues -> Rings] /\ Balanced(s, cl, rings)

Posted(rings, q, m) == [rings EXCEPT ![q] = Sent(rings[q], m)]

\* One more message in q, and one receiver more on the way.
LEMMA PostedMail ==
  ASSUME NEW s, NEW e, NEW cl, NEW rings, NEW q \in Queues, NEW m \in Msgs,
         MailRight(s, cl, rings), rings[q].validCount < MsgCount,
         Arranged(s), Arranged(e), Woken(s, e, MtQueue(q))
  PROVE  MailRight(e, cl, Posted(rings, q, m))
  <1> DEFINE r2 == Posted(rings, q, m)
  <1> HIDE DEF r2
  <1>0. /\ r2 = [rings EXCEPT ![q] = Sent(rings[q], m)]
        /\ Attached(s, cl) /\ rings \in [Queues -> Rings] /\ Balanced(s, cl, rings)
    BY DEF MailRight, Posted, r2
  <1>1. rings[q] \in Rings
    BY <1>0
  <1>2. Sent(rings[q], m) \in Rings /\ Sent(rings[q], m).validCount = rings[q].validCount + 1
    BY <1>1, RingTypes
  <1>3. /\ r2 \in [Queues -> Rings]
        /\ \A p \in Queues : r2[p] = IF p = q THEN Sent(rings[q], m) ELSE rings[p]
    BY <1>0, <1>2
  <1>4. MtQueue(q) \in MailQueues
    BY QueueNames DEF MailQueues
  <1>5. /\ Attached(e, cl)
        /\ \A tq \in MailQueues, n \in Int : Enough(s, cl, tq, n) => Enough(e, cl, tq, n)
        /\ \A n \in Int : Enough(s, cl, MtQueue(q), n) => Enough(e, cl, MtQueue(q), n + 1)
    BY <1>0, <1>4, WokenMail
  <1>6. ASSUME NEW p \in Queues
        PROVE  /\ Enough(e, cl, MtQueue(p), r2[p].validCount)
               /\ Enough(e, cl, FullQueue(p), MsgCount - r2[p].validCount)
    <2> DEFINE v == rings[p].validCount
    <2>1. v \in 0..MsgCount /\ MsgCount \in Nat
      BY <1>0, RingTypes
    <2>2. v \in Int /\ MsgCount - v \in Int
      BY <2>1
    <2>3. MtQueue(p) \in MailQueues /\ FullQueue(p) \in MailQueues
      BY QueueNames DEF MailQueues
    <2>4. Enough(s, cl, MtQueue(p), v) /\ Enough(s, cl, FullQueue(p), MsgCount - v)
      BY <1>0 DEF Balanced
    <2> HIDE DEF v
    <2>5. Enough(e, cl, MtQueue(p), v) /\ Enough(e, cl, FullQueue(p), MsgCount - v)
      BY <1>5, <2>2, <2>3, <2>4
    <2>6. CASE p # q
      BY <1>3, <2>5, <2>6 DEF v
    <2>7. CASE p = q
      <3>1. r2[p].validCount = v + 1
        BY <1>2, <1>3, <2>7 DEF v
      <3>2. Enough(e, cl, MtQueue(p), v + 1)
        BY <1>5, <2>2, <2>4, <2>7
      <3>3. Enough(e, cl, FullQueue(p), MsgCount - (v + 1))
        <4>1. MsgCount - (v + 1) \in Int /\ MsgCount - (v + 1) <= MsgCount - v
          BY <2>1, <2>2
        <4> QED BY <2>2, <2>5, <4>1, EnoughKept
      <3> QED BY <3>1, <3>2, <3>3
    <2> QED BY <2>6, <2>7
  <1> QED BY <1>3, <1>5, <1>6 DEF MailRight, Balanced, r2

LEMMA SendStep ==
  ASSUME Inv, NEW q \in Queues, NEW m \in Msgs, send_mesg(q, m)
  PROVE  Good
  <1>1. KInv(k) /\ Arranged(k) /\ MtQueue(q) \in ThreadQueues \ {RunQueue}
    BY QueueNames DEF Inv, KInv
  <1>2. /\ Arranged(k') /\ Woken(k, k', MtQueue(q))
        /\ k'.running = k.running /\ k'.state = k.state
    BY <1>1, Ready DEF send_mesg
  <1>3. KInv(k')
    BY <1>1, <1>2 DEF KInv, Woken
  <1>4. mq[q].validCount < MsgCount
    BY Counts DEF send_mesg, MQ_IS_FULL
  <1>5. Attached(k', call) /\ mq' \in [Queues -> Rings] /\ Balanced(k', call, mq')
    <2>1. MailRight(k, call, mq)
      BY DEF Inv, MailRight
    <2>2. MailRight(k', call, Posted(mq, q, m))
      BY <1>1, <1>2, <1>4, <2>1, PostedMail
    <2>3. mq' = Posted(mq, q, m)
      BY DEF send_mesg, Posted
    <2> QED BY <2>2, <2>3 DEF MailRight
  <1>6. Inv'
    BY <1>2, <1>3, <1>5 DEF Inv, send_mesg
  <1> QED BY <1>2, <1>6, FollowsInTurn DEF Good, Woken

\* The running thread is gone, and another one is dispatched.
LEMMA DepartMail ==
  ASSUME NEW s, NEW e, NEW cl, NEW rings \in [Queues -> Rings], Switched(s, e), e.at = s.at,
         Attached(s, cl), Balanced(s, cl, rings)
  PROVE  Attached(e, cl) /\ Balanced(e, cl, rings)
  <1>1. /\ Attached(e, cl)
        /\ \A tq \in MailQueues, n \in Int : Enough(s, cl, tq, n) => Enough(e, cl, tq, n)
    BY QuietMail DEF Switched
  <1>2. ASSUME NEW q \in Queues
        PROVE  /\ rings[q].validCount \in Int /\ MsgCount - rings[q].validCount \in Int
               /\ MtQueue(q) \in MailQueues /\ FullQueue(q) \in MailQueues
    <2>1. rings[q] \in Rings
      OBVIOUS
    <2> QED BY <2>1, RingTypes, QueueNames DEF MailQueues
  <1> QED BY <1>1, <1>2 DEF Balanced

LEMMA PanicStep ==
  ASSUME Inv, NEW q \in Queues, NEW m \in Msgs, k.running # Idle, panic(q, m)
  PROVE  Good
  <1> DEFINE r == k.running
             s == Marked(k, r, "stopped")
             e == Readied(s, MtQueue(q))
  <1>1. /\ KInv(k) /\ r \in Workers /\ r \in Rest(k) /\ k.state[r] # "none"
        /\ mq \in [Queues -> Rings] /\ Attached(k, call) /\ Balanced(k, call, mq)
        /\ Arranged(k) /\ MtQueue(q) \in ThreadQueues \ {RunQueue}
        /\ k.at[r] = RunQueue
    BY Fields, QueueNames DEF Inv, KInv, Arranged, Placed, Workers, Rest, Off
  <1>2. s = [k EXCEPT !.state[k.running] = "stopped"]
    BY DEF Marked
  <1>3. /\ Relabelled(k, s, Rest(k), r, "stopped") /\ Off(s) = Off(k) \union {r}
        /\ Rest(s) = Rest(k) \union {r}
        /\ \A u \in Threads : s.state[u] = "none" => s.at[u] = NoQueue
        /\ \A u \in Threads \ {r} : s.state[u] # "running"
        /\ Idle \notin Off(s) /\ s.at[Idle] = RunQueue /\ s.at[s.running] = RunQueue
    BY <1>1, MarkOff
  <1> HIDE DEF s
  <1>4. /\ Follows(k, s) /\ s.running = r /\ s.at = k.at /\ Placed(s, Rest(s))
        /\ s.running \in Off(s) /\ Rest(s) = Rest(k)
    <2>1. Rest(s) = Rest(k)
      BY <1>1, <1>3
    <2> QED BY <1>3, <2>1 DEF Relabelled
  <1>5. Arranged(s)
    BY <1>3, <1>4 DEF Arranged
  <1>6. Attached(s, call) /\ Balanced(s, call, mq)
    <2>1. /\ Attached(s, call)
          /\ \A tq \in MailQueues, n \in Int : Enough(k, call, tq, n) => Enough(s, call, tq, n)
      BY <1>1, <1>3, <1>4, QuietMail
    <2> QED BY <1>1, <2>1, Counts DEF Balanced
  <1>7. CASE MQ_IS_FULL(q)
    <2>1. k' = __osDispatchThread(s) /\ mq' = mq
      BY <1>2, <1>7 DEF panic
    <2>2. Switched(s, k') /\ k'.at = s.at
      BY <1>4, <1>5, <2>1, Depart
    <2>3. Follows(k, k')
      BY <1>1, <1>4, <1>5, <2>2, FollowsSwitched
    <2>4. Attached(k', call) /\ Balanced(k', call, mq)
      BY <1>1, <1>6, <2>2, DepartMail
    <2>5. Inv'
      BY <2>1, <2>2, <2>4 DEF Inv, panic, Free, Switched
    <2> QED BY <2>3, <2>5, FollowsInTurn DEF Good
  <1>8. CASE ~MQ_IS_FULL(q)
    <2>1. k' = __osDispatchThread(e) /\ mq' = [mq EXCEPT ![q] = Sent(mq[q], m)]
      BY <1>2, <1>8 DEF panic
    <2>2. mq[q].validCount < MsgCount
      BY <1>8, Counts DEF MQ_IS_FULL
    <2>3. Arranged(e) /\ Woken(s, e, MtQueue(q)) /\ e.running = r
      BY <1>1, <1>4, <1>5, Ready
    <2> HIDE DEF e
    <2>4. Attached(e, call) /\ mq' \in [Queues -> Rings] /\ Balanced(e, call, mq')
      <3>1. MailRight(s, call, mq)
        BY <1>1, <1>6 DEF MailRight
      <3>2. MailRight(e, call, Posted(mq, q, m))
        BY <1>5, <2>2, <2>3, <3>1, PostedMail
      <3>3. mq' = Posted(mq, q, m)
        BY <2>1 DEF Posted
      <3> QED BY <3>2, <3>3 DEF MailRight
    <2>5. e.running \in Off(e) /\ Follows(s, e) /\ Off(e) = Off(s)
      BY <1>4, <2>3 DEF Woken
    <2>6. Switched(e, k') /\ k'.at = e.at
      BY <2>1, <2>3, <2>5, Depart
    <2>7. Follows(k, k')
      <3>1. Follows(k, e)
        <4>1. /\ Placed(k, Rest(k)) /\ Placed(s, Rest(k)) /\ Placed(e, Rest(e))
          BY <1>1, <1>4, <2>3 DEF Arranged
        <4> QED BY <1>4, <2>5, <4>1, FollowsTrans
      <3> QED BY <1>1, <2>3, <2>6, <3>1, FollowsSwitched
    <2>8. Attached(k', call) /\ Balanced(k', call, mq')
      BY <2>4, <2>6, DepartMail
    <2>9. Inv'
      BY <2>4, <2>6, <2>8 DEF Inv, panic, Free, Switched
    <2> QED BY <2>7, <2>9, FollowsInTurn DEF Good
  <1> QED BY <1>7, <1>8

LEMMA NextGood ==
  ASSUME Inv, [Next]_vars
  PROVE  Good
  <1>1. CASE UNCHANGED vars
    <2>1. NobodyOvertakes(k, k')
      BY <1>1, InTurnRefl, FollowsInTurn DEF Follows, vars
    <2>2. Inv'
      BY <1>1 DEF Inv, vars
    <2> QED BY <2>1, <2>2 DEF Good
  <1>2. ASSUME NEW t \in Workers, NEW p \in Priorities,
               osCreateThread(t, p) \/ osSetThreadPri(t, p)
        PROVE  Good
    BY <1>2, CreateStep, SetPriStep
  <1>3. ASSUME NEW t \in Workers, osStartThread(t) \/ osStopThread(t) \/ osDestroyThread(t)
        PROVE  Good
    BY <1>3, StartStep, StopStep, DestroyStep
  <1>4. ASSUME NEW c \in Calls, Call(c) PROVE Good
    BY <1>4, CallStep
  <1>5. ASSUME NEW q \in Queues, NEW m \in Msgs,
               send_mesg(q, m) \/ (k.running # Idle /\ panic(q, m))
        PROVE  Good
    BY <1>5, SendStep, PanicStep
  <1>6. ASSUME osYieldThread \/ Resume \/ __osException \/ redispatch PROVE Good
    BY <1>6, YieldStep, ResumeStep, ExceptionStep, RedispatchStep
  <1> QED BY <1>1, <1>2, <1>3, <1>4, <1>5, <1>6 DEF Next

-----------------------------------------------------------------------------
(* What the invariant says.                                                *)

\* Who is in a queue is there at one place.
LEMMA OnePosition ==
  ASSUME Inv, NEW tq \in ThreadQueues, NEW t \in Threads
  PROVE  /\ t \in Rest(k) \/ k.at[t] # tq => Positions(tq, t) = {}
         /\ t \notin Rest(k) /\ k.at[t] = tq =>
              \E i \in DOMAIN k.tq[tq] : Positions(tq, t) = {i}
  <1> DEFINE q == k.tq[tq]
  <1>1. /\ Distinct(q) /\ Members(q) = {u \in Threads \ Rest(k) : k.at[u] = tq}
        /\ Positions(tq, t) = {i \in DOMAIN q : q[i] = t}
    BY DEF Inv, KInv, Arranged, Placed, Positions
  <1> HIDE DEF q
  <1>2. ASSUME t \in Rest(k) \/ k.at[t] # tq PROVE Positions(tq, t) = {}
    <2>1. t \notin Members(q)
      BY <1>1, <1>2
    <2> QED BY <1>1, <2>1 DEF Members
  <1>3. ASSUME t \notin Rest(k), k.at[t] = tq
        PROVE  \E i \in DOMAIN q : Positions(tq, t) = {i}
    <2>1. PICK i \in DOMAIN q : q[i] = t
      <3>1. t \in Members(q)
        BY <1>1, <1>3
      <3> QED BY <3>1 DEF Members
    <2>2. \A j \in DOMAIN q : q[j] = t => j = i
      BY <1>1, <2>1 DEF Distinct
    <2>3. Positions(tq, t) = {i}
      BY <1>1, <2>1, <2>2
    <2> QED BY <2>1, <2>3
  <1> QED BY <1>2, <1>3 DEF q

LEMMA InvTypes ==
  ASSUME Inv PROVE TypeOK
  BY Zenon DEF Inv, KInv, Arranged, Placed, KTypes, Rings, TypeOK

LEMMA InvQueues ==
  ASSUME Inv PROVE InOneSortedQueue
  <1>1. ASSUME NEW t \in Threads, t \in Rest(k), NEW tq \in ThreadQueues
        PROVE  Positions(tq, t) = {}
    BY <1>1, OnePosition
  <1>2. ASSUME NEW t \in Threads, t \notin Rest(k)
        PROVE  /\ \E i \in DOMAIN k.tq[k.at[t]] : Positions(k.at[t], t) = {i}
               /\ \A tq \in ThreadQueues \ {k.at[t]} : Positions(tq, t) = {}
    <2>1. k.at[t] \in ThreadQueues
      BY <1>2 DEF Inv, KInv, Arranged, Placed
    <2>2. \E i \in DOMAIN k.tq[k.at[t]] : Positions(k.at[t], t) = {i}
      BY <1>2, <2>1, OnePosition
    <2>3. ASSUME NEW tq \in ThreadQueues \ {k.at[t]} PROVE Positions(tq, t) = {}
      BY <2>3, OnePosition
    <2> QED BY <2>2, <2>3
  <1>3. \A t \in Threads :
          t \in Rest(k) <=> t = k.running \/ k.state[t] \in {"none", "stopped", "destroyed"}
    BY DEF Rest, Off
  <1>4. \A tq \in ThreadQueues : \A i, j \in DOMAIN k.tq[tq] :
          i < j => k.pri[k.tq[tq][i]] >= k.pri[k.tq[tq][j]]
    BY DEF Inv, KInv, Arranged, Placed, Sorted
  <1> QED BY <1>1, <1>2, <1>3, <1>4 DEF InOneSortedQueue

LEMMA InvHighest ==
  ASSUME Inv PROVE HighestRuns
  <1> SUFFICES ASSUME mode = "thread"
               PROVE  /\ k.state[k.running] = "running"
                      /\ \A i \in DOMAIN k.tq[RunQueue] :
                           k.pri[k.tq[RunQueue][i]] <= k.pri[k.running]
    BY DEF HighestRuns
  <1>1. Top(k) /\ Placed(k, Rest(k))
    BY DEF Inv, KInv, Arranged
  <1>2. ASSUME NEW i \in DOMAIN k.tq[RunQueue]
        PROVE  k.pri[k.tq[RunQueue][i]] <= k.pri[k.running]
    <2>1. k.tq[RunQueue][i] \in Members(k.tq[RunQueue])
      BY DEF Members
    <2>2. Members(k.tq[RunQueue]) = {t \in Threads \ Rest(k) : k.at[t] = RunQueue}
      BY <1>1, QueueNames DEF Placed
    <2> QED BY <1>1, <2>1, <2>2 DEF Top
  <1> QED BY <1>1, <1>2 DEF Top

LEMMA InvSleeps ==
  ASSUME Inv PROVE SleepsForItsCall
  BY DEF Inv, Attached, SleepsForItsCall, Asleep

LEMMA InvWakeups ==
  ASSUME Inv PROVE NoLostWakeup
  <1>1. Arranged(k)
    BY DEF Inv, KInv
  <1>2. \A tq : OnTheWay(tq) = Way(k, call, tq)
    BY DEF OnTheWay, Way
  <1>3. ASSUME NEW q \in Queues
        PROVE  /\ k.tq[MtQueue(q)] # <<>> =>
                    Cardinality(OnTheWay(MtQueue(q))) >= mq[q].validCount
               /\ k.tq[FullQueue(q)] # <<>> =>
                    Cardinality(OnTheWay(FullQueue(q))) >= MsgCount - mq[q].validCount
    <2>1. /\ MtQueue(q) \in ThreadQueues \ {RunQueue} /\ FullQueue(q) \in ThreadQueues \ {RunQueue}
          /\ Enough(k, call, MtQueue(q), mq[q].validCount)
          /\ Enough(k, call, FullQueue(q), MsgCount - mq[q].validCount)
      BY Counts DEF MailQueues
    <2>2. /\ k.tq[MtQueue(q)] # <<>> => Sleepers(k, MtQueue(q)) # {}
          /\ k.tq[FullQueue(q)] # <<>> => Sleepers(k, FullQueue(q)) # {}
      BY <1>1, <2>1, SomebodySleeps
    <2> QED BY <1>2, <2>1, <2>2 DEF Enough
  <1> QED BY <1>3 DEF NoLostWakeup

-----------------------------------------------------------------------------
(* The theorems.                                                           *)

\* The threads and their queues fit together, those who sleep on a message
\* queue sleep there for their own call, and while somebody sleeps, one
\* thread is on its way for every message or free place.
THEOREM KernelInvariant == Spec => []Inv
  <1>1. Init => Inv
    BY InitInv
  <1>2. Inv /\ [Next]_vars => Inv'
    BY NextGood DEF Good
  <1> QED BY <1>1, <1>2, PTL DEF Spec

\* The thread structures, the rings and the calls keep their types.
THEOREM KernelTypeCorrect == Spec => []TypeOK
  BY KernelInvariant, InvTypes, PTL

\* A thread is in the queue its field names, once, or in none when it runs or
\* is stopped; every queue is sorted, whatever priorities are set meanwhile.
THEOREM QueuesInOrder == Spec => []InOneSortedQueue
  BY KernelInvariant, InvQueues, PTL

\* Outside the handler nobody who can run has a higher priority than the one
\* who does.
THEOREM HighestPriorityRuns == Spec => []HighestRuns
  BY KernelInvariant, InvHighest, PTL

\* Nobody sleeps on a queue but for its own call.
THEOREM SleepersHaveCalls == Spec => []SleepsForItsCall
  BY KernelInvariant, InvSleeps, PTL

\* No wakeup is lost, for any number of threads, queues and messages.
THEOREM WakeupsSuffice == Spec => []NoLostWakeup
  BY KernelInvariant, InvWakeups, PTL

\* Nobody of the same priority overtakes who waited before.
THEOREM ServedInTurn == Spec => FirstComeFirstServed
  <1>1. Inv /\ [Next]_vars => [NobodyOvertakes(k, k')]_vars
    BY NextGood DEF Good
  <1> QED BY <1>1, KernelInvariant, PTL DEF Spec, FirstComeFirstServed

-----------------------------------------------------------------------------
(* The mail boxes.                                                         *)

\* One turn round the ring.
LEMMA Wrapped ==
  ASSUME NEW x \in Nat, x < 2 * MsgCount
  PROVE  x % MsgCount = IF x < MsgCount THEN x ELSE x - MsgCount
  BY KernelAssumption

\* The messages of a ring in the order in which they are received.
InOrder(r) == [i \in 1..r.validCount |-> r.msg[(r.first + i - 1) % MsgCount]]

LEMMA InOrderTypes ==
  ASSUME NEW r \in Rings
  PROVE  /\ InOrder(r) \in Seq(Msgs \union {NoMsg}) /\ Len(InOrder(r)) = r.validCount
         /\ \A i \in 1..r.validCount : InOrder(r)[i] = r.msg[(r.first + i - 1) % MsgCount]
  <1>1. r.validCount \in Nat /\ 1..r.validCount \subseteq 1..MsgCount
    BY RingTypes
  <1>2. ASSUME NEW i \in 1..r.validCount
        PROVE  r.msg[(r.first + i - 1) % MsgCount] \in Msgs \union {NoMsg}
    <2>1. r.first + i - 1 \in Nat
      BY RingTypes
    <2>2. (r.first + i - 1) % MsgCount \in 0..MsgCount - 1
      BY <2>1, ModRange
    <2> QED BY <2>2, RingTypes
  <1>3. InOrder(r) \in [1..r.validCount -> Msgs \union {NoMsg}]
    BY <1>2 DEF InOrder
  <1>4. InOrder(r) \in Seq(Msgs \union {NoMsg}) /\ Len(InOrder(r)) = r.validCount
    BY <1>1, <1>3
  <1>5. \A i \in 1..r.validCount : InOrder(r)[i] = r.msg[(r.first + i - 1) % MsgCount]
    BY Zenon DEF InOrder
  <1> QED BY <1>4, <1>5

\* osSendMesg puts a message behind all others.
LEMMA SentInOrder ==
  ASSUME NEW r \in Rings, NEW m \in Msgs, r.validCount < MsgCount
  PROVE  InOrder(Sent(r, m)) = Append(InOrder(r), m)
  <1> DEFINE S == Msgs \union {NoMsg}
             e == Sent(r, m)
             v == r.validCount
             a == InOrder(r)
             b == InOrder(e)
  <1>1. /\ v \in 0..MsgCount /\ r.first \in 0..MsgCount - 1 /\ MsgCount \in Nat \ {0}
        /\ e \in Rings /\ e.validCount = v + 1 /\ EndOf(r) \in 0..MsgCount - 1
        /\ r.msg \in [0..MsgCount - 1 -> S]
    BY RingTypes
  <1>2. e.first = r.first /\ e.msg = [r.msg EXCEPT ![EndOf(r)] = m]
    BY DEF Sent, Rings
  <1>3. EndOf(r) = IF r.first + v < MsgCount THEN r.first + v ELSE r.first + v - MsgCount
    <2> DEFINE x == r.first + v
    <2>1. x \in Nat /\ x < 2 * MsgCount /\ x = r.first + v
      BY <1>1
    <2>2. EndOf(r) = x % MsgCount
      BY Zenon DEF EndOf
    <2> HIDE DEF x, v
    <2>3. x % MsgCount = IF x < MsgCount THEN x ELSE x - MsgCount
      BY <2>1, Wrapped
    <2> QED BY <1>1, <2>1, <2>2, <2>3
  <1> HIDE DEF e, v
  <1>4. /\ a \in Seq(S) /\ Len(a) = v /\ b \in Seq(S) /\ Len(b) = v + 1
        /\ \A i \in 1..v : a[i] = r.msg[(r.first + i - 1) % MsgCount]
        /\ \A i \in 1..v + 1 : b[i] = e.msg[(r.first + i - 1) % MsgCount]
    BY <1>1, <1>2, InOrderTypes DEF v
  <1>5. /\ Append(a, m) \in Seq(S) /\ Len(Append(a, m)) = v + 1
        /\ \A i \in 1..v : Append(a, m)[i] = a[i]
        /\ Append(a, m)[v + 1] = m
    BY <1>4, AppendProperties
  <1> HIDE DEF a, b, S
  <1>6. ASSUME NEW i \in 1..v + 1 PROVE b[i] = Append(a, m)[i]
    <2> DEFINE x == r.first + i - 1
               n == x % MsgCount
    <2>2. b[i] = e.msg[n]
      BY <1>4
    <2>3. /\ v \in Nat /\ v < MsgCount /\ x \in Nat /\ x < 2 * MsgCount /\ x = r.first + i - 1
          /\ i = v + 1 => x = r.first + v
      BY <1>1, r.validCount < MsgCount DEF v
    <2> HIDE DEF x
    <2>1. /\ n = (IF x < MsgCount THEN x ELSE x - MsgCount) /\ n \in 0..MsgCount - 1
      BY <2>3, Wrapped, ModRange
    <2>0. b[i] = e.msg[n] /\ (i \in 1..v => a[i] = r.msg[n])
      BY <1>4, <2>2 DEF x
    <2> HIDE DEF n
    <2>4. CASE i = v + 1
      <3>1. n = EndOf(r)
        BY <1>1, <1>3, <2>1, <2>3, <2>4
      <3>2. e.msg[n] = m
        BY <1>1, <1>2, <3>1
      <3> QED BY <1>5, <2>2, <2>4, <3>2
    <2>5. CASE i \in 1..v
      <3>1. n # EndOf(r)
        BY <1>1, <1>3, <2>1, <2>3, <2>5
      <3>2. e.msg[n] = r.msg[n]
        BY <1>1, <1>2, <2>1, <3>1
      <3> QED BY <1>5, <2>0, <2>5, <3>2
    <2>6. i = v + 1 \/ i \in 1..v
      BY <2>3
    <2> QED BY <2>4, <2>5, <2>6
  <1>7. b = Append(a, m)
    BY <1>4, <1>5, <1>6, SeqEqual
  <1> QED BY <1>7 DEF a, b, e

\* osJamMesg puts a message before all others.
LEMMA JammedInOrder ==
  ASSUME NEW r \in Rings, NEW m \in Msgs, r.validCount < MsgCount
  PROVE  InOrder(Jammed(r, m)) = <<m>> \o InOrder(r)
  <1> DEFINE S == Msgs \union {NoMsg}
             e == Jammed(r, m)
             v == r.validCount
             f == (r.first + MsgCount - 1) % MsgCount
             a == InOrder(r)
             b == InOrder(e)
             c == <<m>> \o a
  <1>1. /\ v \in 0..MsgCount /\ r.first \in 0..MsgCount - 1 /\ MsgCount \in Nat \ {0}
        /\ e \in Rings /\ e.validCount = v + 1 /\ r.msg \in [0..MsgCount - 1 -> S]
    BY RingTypes
  <1>2. e.first = f /\ e.msg = [r.msg EXCEPT ![f] = m]
    BY DEF Jammed, Rings
  <1>3. /\ f = (IF r.first = 0 THEN MsgCount - 1 ELSE r.first - 1)
        /\ f \in 0..MsgCount - 1
    <2> DEFINE x == r.first + MsgCount - 1
    <2>1. x \in Nat /\ x < 2 * MsgCount /\ x = r.first + MsgCount - 1
      BY <1>1
    <2>2. f = x % MsgCount
      OBVIOUS
    <2> HIDE DEF x, f
    <2>3. x % MsgCount = IF x < MsgCount THEN x ELSE x - MsgCount
      BY <2>1, Wrapped
    <2> QED BY <1>1, <2>1, <2>2, <2>3
  <1> HIDE DEF e, v, f
  <1>4. /\ a \in Seq(S) /\ Len(a) = v /\ b \in Seq(S) /\ Len(b) = v + 1
        /\ \A i \in 1..v : a[i] = r.msg[(r.first + i - 1) % MsgCount]
        /\ \A i \in 1..v + 1 : b[i] = e.msg[(f + i - 1) % MsgCount]
    BY <1>1, <1>2, InOrderTypes DEF v
  <1>5. /\ c \in Seq(S) /\ Len(c) = v + 1
        /\ \A i \in 1..v + 1 : c[i] = IF i <= 1 THEN m ELSE a[i - 1]
    <2>1. <<m>> \in Seq(S) /\ Len(<<m>>) = 1 /\ <<m>>[1] = m
      OBVIOUS
    <2>2. c \in Seq(S) /\ Len(c) = 1 + v
          /\ \A i \in 1..1 + v : c[i] = IF i <= 1 THEN <<m>>[i] ELSE a[i - 1]
      BY <1>4, <2>1, ConcatProperties
    <2> QED BY <1>1, <2>1, <2>2
  <1> HIDE DEF a, b, c, S
  <1>6. ASSUME NEW i \in 1..v + 1 PROVE b[i] = c[i]
    <2> DEFINE x == f + i - 1
               n == x % MsgCount
    <2>2. b[i] = e.msg[n]
      BY <1>4
    <2>0. v \in Nat /\ v < MsgCount /\ x \in Nat /\ x < 2 * MsgCount /\ x = f + i - 1
      BY <1>1, <1>3, r.validCount < MsgCount DEF v
    <2>1. /\ n = (IF x < MsgCount THEN x ELSE x - MsgCount) /\ n \in 0..MsgCount - 1
      <3> HIDE DEF x
      <3> QED BY <2>0, Wrapped, ModRange
    <2>3. CASE i = 1
      <3>1. x = f
        BY <1>3, <2>3
      <3> HIDE DEF n, x
      <3>2. n = f
        BY <1>1, <1>3, <2>1, <3>1
      <3>3. e.msg[n] = m
        BY <1>1, <1>2, <1>3, <3>2
      <3> QED BY <1>5, <2>2, <2>3, <3>3
    <2>4. CASE i \in 2..v + 1
      <3> DEFINE y == r.first + (i - 1) - 1
                 o == y % MsgCount
      <3>1. i - 1 \in 1..v /\ i - 1 \in 1..MsgCount
        BY <1>1, <2>4, r.validCount < MsgCount DEF v
      <3>0. y \in Nat /\ y < 2 * MsgCount /\ y = r.first + i - 2 /\ x = f + i - 1
        BY <1>1, <3>1
      <3>2. /\ o = (IF y < MsgCount THEN y ELSE y - MsgCount) /\ o \in 0..MsgCount - 1
        <4> HIDE DEF y
        <4> QED BY <3>0, Wrapped, ModRange
      <3>3. a[i - 1] = r.msg[o]
        BY <1>4, <3>1
      <3> HIDE DEF n, o, x, y
      <3>4. n = o /\ n # f
        <4>2. CASE r.first = 0
          BY <1>1, <1>3, <2>0, <2>1, <2>4, <3>0, <3>2, <4>2
        <4>3. CASE r.first # 0
          <5>1. f = r.first - 1 /\ x = y /\ x = f + i - 1 /\ f \in Nat
            BY <1>1, <1>3, <2>0, <3>0, <4>3
          <5>2. n = o
            BY <2>1, <3>2, <5>1
          <5>3. i \in Nat /\ 2 <= i /\ i <= v + 1 /\ i <= MsgCount /\ MsgCount \in Nat
            BY <1>1, <2>0, <2>4
          <5>4. n # f
            BY <2>1, <5>1, <5>3
          <5> QED BY <5>2, <5>4
        <4> QED BY <4>2, <4>3
      <3>5. e.msg[n] = r.msg[n]
        BY <1>1, <1>2, <1>3, <2>1, <3>4
      <3>6. c[i] = a[i - 1]
        BY <1>5, <2>4
      <3> QED BY <2>2, <3>3, <3>4, <3>5, <3>6
    <2> QED BY <1>1, <2>3, <2>4
  <1>7. b = c
    BY <1>4, <1>5, <1>6, SeqEqual
  <1> QED BY <1>7 DEF a, b, c, e

\* osRecvMesg takes the first message.
LEMMA TakenInOrder ==
  ASSUME NEW r \in Rings, r.validCount # 0
  PROVE  /\ InOrder(r) # <<>> /\ Head(InOrder(r)) = r.msg[r.first]
         /\ InOrder(Taken(r)) = Tail(InOrder(r))
  <1> DEFINE S == Msgs \union {NoMsg}
             e == Taken(r)
             v == r.validCount
             f == (r.first + 1) % MsgCount
             a == InOrder(r)
             b == InOrder(e)
             c == Tail(a)
  <1>1. /\ v \in 1..MsgCount /\ r.first \in 0..MsgCount - 1 /\ MsgCount \in Nat \ {0}
        /\ e \in Rings /\ e.validCount = v - 1 /\ r.msg \in [0..MsgCount - 1 -> S]
    BY RingTypes
  <1>2. e.first = f /\ e.msg = r.msg
    BY DEF Taken, Rings
  <1>3. /\ f = (IF r.first = MsgCount - 1 THEN 0 ELSE r.first + 1)
        /\ f \in 0..MsgCount - 1
    <2> DEFINE x == r.first + 1
    <2>1. x \in Nat /\ x < 2 * MsgCount
      BY <1>1
    <2> HIDE DEF x
    <2>2. x % MsgCount = IF x < MsgCount THEN x ELSE x - MsgCount
      BY <2>1, Wrapped
    <2> QED BY <1>1, <2>2 DEF x
  <1> HIDE DEF e, v, f
  <1>4. /\ a \in Seq(S) /\ Len(a) = v /\ b \in Seq(S) /\ Len(b) = v - 1
        /\ \A i \in 1..v : a[i] = r.msg[(r.first + i - 1) % MsgCount]
        /\ \A i \in 1..v - 1 : b[i] = r.msg[(f + i - 1) % MsgCount]
    BY <1>1, <1>2, InOrderTypes DEF v
  <1>5. a # <<>> /\ Head(a) = a[1] /\ a[1] = r.msg[r.first]
    <2>1. a # <<>> /\ Head(a) = a[1]
      BY <1>1, <1>4
    <2>2. 1 \in 1..v /\ 1 \in 1..MsgCount /\ r.first + 1 - 1 = r.first
      BY <1>1
    <2>3. r.first % MsgCount = r.first
      <3>1. r.first \in Nat /\ r.first < 2 * MsgCount /\ r.first < MsgCount
        BY <1>1
      <3> QED BY <3>1, Wrapped
    <2>4. a[1] = r.msg[(r.first + 1 - 1) % MsgCount]
      BY <1>4, <2>2
    <2> QED BY <2>1, <2>2, <2>3, <2>4
  <1>6. /\ c \in Seq(S) /\ Len(c) = v - 1 /\ \A i \in 1..v - 1 : c[i] = a[i + 1]
    <2>1. /\ c \in Seq(S) /\ Len(c) = Len(a) - 1 /\ \A i \in 1..Len(c) : c[i] = a[i + 1]
      BY <1>4, <1>5, HeadTailProperties
    <2> QED BY <1>4, <2>1
  <1> HIDE DEF a, b, c, S
  <1>7. ASSUME NEW i \in 1..v - 1 PROVE b[i] = c[i]
    <2> DEFINE x == f + i - 1
               n == x % MsgCount
               y == r.first + (i + 1) - 1
               o == y % MsgCount
    <2>1. i \in 1..MsgCount /\ i + 1 \in 1..MsgCount /\ i + 1 \in 1..v
      BY <1>1
    <2>3. b[i] = r.msg[n] /\ c[i] = a[i + 1] /\ a[i + 1] = r.msg[o]
      BY <1>4, <1>6, <2>1
    <2>5. /\ x \in Nat /\ x < 2 * MsgCount /\ x = f + i - 1
          /\ y \in Nat /\ y < 2 * MsgCount /\ y = r.first + i
      BY <1>1, <1>3, <2>1
    <2> HIDE DEF x, y
    <2>2. /\ n = IF x < MsgCount THEN x ELSE x - MsgCount
          /\ o = IF y < MsgCount THEN y ELSE y - MsgCount
      BY <2>5, Wrapped
    <2> HIDE DEF n, o
    <2>4. n = o
      <3>1. CASE r.first = MsgCount - 1
        BY <1>1, <1>3, <2>1, <2>2, <2>5, <3>1
      <3>2. CASE r.first # MsgCount - 1
        BY <1>1, <1>3, <2>1, <2>2, <2>5, <3>2
      <3> QED BY <3>1, <3>2
    <2> QED BY <2>3, <2>4
  <1>8. b = c
    BY <1>4, <1>6, <1>7, SeqEqual
  <1> QED BY <1>5, <1>8 DEF a, b, c, e

\* The boxes that the callers see.
Boxes(rings) == [q \in Queues |-> InOrder(rings[q])]

LEMMA BoxesShown ==
  /\ [q \in Queues |-> Contents(q)] = Boxes(mq)
  /\ [q \in Queues |-> Contents(q)]' = Boxes(mq')
  BY Zenon DEF Boxes, Contents, InOrder

\* A transfer changes its box and no other.
LEMMA BoxChanged ==
  ASSUME NEW rings \in [Queues -> Rings], NEW q \in Queues, NEW r
  PROVE  Boxes([rings EXCEPT ![q] = r]) = [Boxes(rings) EXCEPT ![q] = InOrder(r)]
  <1> DEFINE r2 == [rings EXCEPT ![q] = r]
             b == Boxes(r2)
             c == [Boxes(rings) EXCEPT ![q] = InOrder(r)]
  <1>1. \A p \in Queues : r2[p] = IF p = q THEN r ELSE rings[p]
    OBVIOUS
  <1> HIDE DEF r2
  <1>2. /\ b = [p \in Queues |-> InOrder(r2[p])]
        /\ \A p \in Queues : b[p] = InOrder(r2[p])
    BY Zenon DEF Boxes
  <1>3. /\ Boxes(rings) = [p \in Queues |-> InOrder(rings[p])]
        /\ \A p \in Queues : Boxes(rings)[p] = InOrder(rings[p])
    BY Zenon DEF Boxes
  <1>4. c = [p \in Queues |-> IF p = q THEN InOrder(r) ELSE InOrder(rings[p])]
    BY <1>3
  <1>5. \A p \in Queues : InOrder(r2[p]) = IF p = q THEN InOrder(r) ELSE InOrder(rings[p])
    BY <1>1
  <1>6. b = c
    BY <1>2, <1>4, <1>5
  <1> QED BY <1>6 DEF r2

\* What a call does to its ring is what the abstract call does to its box.
LEMMA EffectShown ==
  ASSUME Inv, NEW c \in Calls, ~MustWait(c),
         mq' = [mq EXCEPT ![c.q] = Transferred(mq[c.q], c)],
         received' = IF c.op = "recv" THEN mq[c.q].msg[mq[c.q].first] ELSE received
  PROVE  Mailbox!Effect(c)
  <1> DEFINE r == mq[c.q]
             bs == Boxes(mq)
  <1>1. c.q \in Queues /\ mq \in [Queues -> Rings] /\ r \in Rings
    BY CallNames DEF Inv
  <1>2. r.validCount \in 0..MsgCount /\ MsgCount \in Nat \ {0}
    BY <1>1, RingTypes
  <1>3. /\ bs[c.q] = InOrder(r) /\ Len(InOrder(r)) = r.validCount
        /\ InOrder(r) \in Seq(Msgs \union {NoMsg})
    <2>1. bs[c.q] = InOrder(r)
      BY <1>1, Zenon DEF Boxes
    <2> QED BY <1>1, <2>1, InOrderTypes
  <1>4. Boxes(mq') = [bs EXCEPT ![c.q] = InOrder(Transferred(r, c))]
    BY <1>1, BoxChanged
  <1> HIDE DEF bs, r
  <1>5. CASE c.op = "send"
    <2>1. r.validCount < MsgCount /\ c.m \in Msgs /\ Transferred(r, c) = Sent(r, c.m)
      BY <1>2, <1>5 DEF MustWait, MQ_IS_FULL, Calls, Transferred, r
    <2>2. Boxes(mq') = [bs EXCEPT ![c.q] = Append(bs[c.q], c.m)]
      BY <1>1, <1>3, <1>4, <2>1, SentInOrder
    <2>3. Mailbox!Put(c)
      BY <1>3, <1>5, <2>1, <2>2, BoxesShown DEF Mailbox!Put, bs
    <2> QED BY <2>3 DEF Mailbox!Effect
  <1>6. CASE c.op = "jam"
    <2>1. r.validCount < MsgCount /\ c.m \in Msgs /\ Transferred(r, c) = Jammed(r, c.m)
      BY <1>2, <1>6 DEF MustWait, MQ_IS_FULL, Calls, Transferred, r
    <2>2. Boxes(mq') = [bs EXCEPT ![c.q] = <<c.m>> \o bs[c.q]]
      BY <1>1, <1>3, <1>4, <2>1, JammedInOrder
    <2>3. Mailbox!PutFirst(c)
      BY <1>3, <1>6, <2>1, <2>2, BoxesShown DEF Mailbox!PutFirst, bs
    <2> QED BY <2>3 DEF Mailbox!Effect
  <1>7. CASE c.op = "recv"
    <2>1. r.validCount # 0 /\ Transferred(r, c) = Taken(r)
      BY <1>7 DEF MustWait, MQ_IS_EMPTY, Transferred, r
    <2>2. /\ Boxes(mq') = [bs EXCEPT ![c.q] = Tail(bs[c.q])]
          /\ bs[c.q] # <<>> /\ Head(bs[c.q]) = r.msg[r.first]
      BY <1>1, <1>3, <1>4, <2>1, TakenInOrder
    <2>3. received' = Head(bs[c.q])
      BY <1>7, <2>2 DEF r
    <2>4. Mailbox!Take(c)
      BY <1>7, <2>2, <2>3, BoxesShown DEF Mailbox!Take, bs
    <2> QED BY <2>4 DEF Mailbox!Effect
  <1> QED BY <1>5, <1>6, <1>7 DEF Calls

\* A step of the abstract boxes, or none.
MailStep == Mailbox!Next \/ UNCHANGED <<mq, call, received>>

LEMMA MailSleep ==
  ASSUME Inv, NEW c \in Calls, call[k.running] \in {NoCall, c}, Sleep(c)
  PROVE  MailStep
  <1>1. /\ k.running \in Threads /\ call \in [Threads -> Calls \union {NoCall}]
        /\ call' = [call EXCEPT ![k.running] = c] /\ UNCHANGED <<mq, received>>
    BY Fields DEF Inv, KInv, Arranged, Placed, Sleep
  <1>2. CASE call[k.running] = NoCall
    <2>1. c \in Mailbox!MailCalls
      BY DEF Calls, Mailbox!MailCalls
    <2>2. UNCHANGED [q \in Queues |-> Contents(q)]
      BY <1>1, BoxesShown
    <2>3. Mailbox!Wait(k.running)
      BY <1>1, <1>2, <2>1, <2>2 DEF Mailbox!Wait
    <2> QED BY <1>1, <2>3 DEF MailStep, Mailbox!Next
  <1>3. CASE call[k.running] = c
    <2>1. call' = call
      BY <1>1, <1>3
    <2> QED BY <1>1, <2>1 DEF MailStep
  <1> QED BY <1>2, <1>3

LEMMA MailTransfer ==
  ASSUME Inv, NEW c \in Calls, call[k.running] \in {NoCall, c}, ~MustWait(c), Transfer(c)
  PROVE  MailStep
  <1>1. /\ k.running \in Threads /\ call \in [Threads -> Calls \union {NoCall}]
        /\ call' = [call EXCEPT ![k.running] = NoCall] /\ c # NoCall
    BY Fields, CallNames DEF Inv, KInv, Arranged, Placed, Transfer
  <1>2. Mailbox!Effect(c)
    BY EffectShown DEF Transfer
  <1>3. CASE call[k.running] = NoCall
    <2>1. c \in Mailbox!MailCalls
      BY DEF Calls, Mailbox!MailCalls
    <2>2. call' = call
      BY <1>1, <1>3
    <2> QED BY <1>2, <2>1, <2>2 DEF MailStep, Mailbox!Next, Mailbox!AtOnce
  <1>4. CASE call[k.running] = c
    <2>1. Mailbox!Finish(k.running)
      BY <1>1, <1>2, <1>4 DEF Mailbox!Finish
    <2> QED BY <1>1, <2>1 DEF MailStep, Mailbox!Next
  <1> QED BY <1>3, <1>4

\* The message of an event is a send that does not wait.
LEMMA MailPosted ==
  ASSUME Inv, NEW q \in Queues, NEW m \in Msgs, ~MQ_IS_FULL(q),
         mq' = [mq EXCEPT ![q] = Sent(mq[q], m)], UNCHANGED <<call, received>>
  PROVE  MailStep
  <1> DEFINE c == [op |-> "send", q |-> q, m |-> m]
  <1>1. /\ c \in Calls /\ c \in Mailbox!MailCalls
        /\ c.op = "send" /\ c.q = q /\ c.m = m
    BY DEF Calls, Mailbox!MailCalls
  <1> HIDE DEF c
  <1>2. ~MustWait(c) /\ mq' = [mq EXCEPT ![c.q] = Transferred(mq[c.q], c)]
    BY <1>1 DEF MustWait, Transferred
  <1>3. Mailbox!Effect(c)
    BY <1>1, <1>2, EffectShown
  <1> QED BY <1>1, <1>3 DEF MailStep, Mailbox!Next, Mailbox!AtOnce

LEMMA NextMail ==
  ASSUME Inv, [Next]_vars
  PROVE  MailStep
  <1>1. ASSUME NEW c \in Calls, Call(c) PROVE MailStep
    BY <1>1, MailSleep, MailTransfer DEF Call, Free
  <1>2. ASSUME Resume PROVE MailStep
    <2>1. call[k.running] \in Calls
      <3>1. k.running \in Threads
        BY Fields DEF Inv, KInv, Arranged, Placed
      <3> QED BY <1>2, <3>1 DEF Inv, Resume
    <2> QED BY <1>2, <2>1, MailSleep, MailTransfer DEF Resume
  <1>3. ASSUME NEW q \in Queues, NEW m \in Msgs, send_mesg(q, m) \/ panic(q, m)
        PROVE  MailStep
    <2>1. CASE send_mesg(q, m)
      BY <2>1, MailPosted DEF send_mesg
    <2>2. CASE panic(q, m) /\ ~MQ_IS_FULL(q)
      <3>1. mq' = [mq EXCEPT ![q] = Sent(mq[q], m)] /\ UNCHANGED <<call, received>>
        BY <2>2 DEF panic
      <3> QED BY <2>2, <3>1, MailPosted
    <2>3. CASE panic(q, m) /\ MQ_IS_FULL(q)
      BY <2>3 DEF panic, MailStep
    <2> QED BY <1>3, <2>1, <2>2, <2>3
  <1>4. ASSUME NEW t \in Workers, NEW p \in Priorities,
               osCreateThread(t, p) \/ osSetThreadPri(t, p)
        PROVE  MailStep
    BY <1>4 DEF MailStep, osCreateThread, osSetThreadPri
  <1>5. ASSUME NEW t \in Workers, osStartThread(t) \/ osStopThread(t) \/ osDestroyThread(t)
        PROVE  MailStep
    BY <1>5 DEF MailStep, osStartThread, osStopThread, osDestroyThread
  <1>6. ASSUME osYieldThread \/ __osException \/ redispatch \/ UNCHANGED vars PROVE MailStep
    BY <1>6 DEF MailStep, osYieldThread, __osException, redispatch, vars
  <1> QED BY <1>1, <1>2, <1>3, <1>4, <1>5, <1>6 DEF Next

\* The message queues are bounded boxes in which every call that waits has its
\* effect once, in order, for any number of threads and messages.
THEOREM QueuesAreMailboxes == Spec => MailboxSpec
  <1>1. Init => Mailbox!Init
    <2> SUFFICES ASSUME Init PROVE Mailbox!Init
      OBVIOUS
    <2>1. \A q \in Queues : mq[q].validCount = 0
      BY DEF Init
    <2>2. \A q \in Queues : InOrder(mq[q]) = <<>>
      <3> SUFFICES ASSUME NEW q \in Queues PROVE InOrder(mq[q]) = <<>>
        OBVIOUS
      <3>1. mq[q] \in Rings
        BY InitInv DEF Inv
      <3>2. InOrder(mq[q]) \in Seq(Msgs \union {NoMsg}) /\ Len(InOrder(mq[q])) = 0
        BY <2>1, <3>1, InOrderTypes
      <3> QED BY <3>2, EmptySeq
    <2>3. Boxes(mq) = [q \in Queues |-> <<>>]
      BY <2>2 DEF Boxes
    <2> QED BY <2>3, BoxesShown DEF Init, Mailbox!Init
  <1>2. Inv /\ [Next]_vars => [Mailbox!Next]_<<[q \in Queues |-> Contents(q)], call, received>>
    <2> SUFFICES ASSUME Inv, [Next]_vars
                 PROVE  \/ Mailbox!Next
                        \/ UNCHANGED <<[q \in Queues |-> Contents(q)], call, received>>
      OBVIOUS
    <2>1. MailStep
      BY NextMail
    <2>2. ASSUME UNCHANGED <<mq, call, received>>
          PROVE  UNCHANGED <<[q \in Queues |-> Contents(q)], call, received>>
      BY <2>2, BoxesShown
    <2> QED BY <2>1, <2>2 DEF MailStep
  <1> QED BY <1>1, <1>2, KernelInvariant, PTL
          DEF Spec, MailboxSpec, Mailbox!Spec, Mailbox!boxVars

=============================================================================
