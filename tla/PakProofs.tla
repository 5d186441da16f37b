----------------------------- MODULE PakProofs -----------------------------
(***************************************************************************)
(* What TLAPS proves of Pak.                                               *)
(***************************************************************************)
EXTENDS Pak, FiniteSetTheorems, SequenceTheorems, WellFoundedInduction,
        NaturalsInduction, TLAPS

-----------------------------------------------------------------------------
(* The operators: sums, sequences and chains.                              *)

\* A set of numbers that has 0 and all successors has every number.
LEMMA Upward ==
  ASSUME NEW I \in SUBSET Nat, 0 \in I, \A n \in I : n + 1 \in I
  PROVE  I = Nat
<1> DEFINE Less == {ij \in Nat \X Nat : ij[1] < ij[2]}
           J == Nat \ I
<1>1. Less = OpToRel(<, Nat)
  BY Zenon DEF OpToRel
<1>2. SUFFICES ASSUME J # {} PROVE FALSE
  OBVIOUS
<1>3. PICK i \in J : \A j \in J : ~(<<j, i>> \in Less)
  BY <1>1, <1>2, NatLessThanWellFounded, WFMin, Zenon
<1>4. i \in Nat /\ i # 0 /\ i - 1 \in Nat /\ i - 1 \notin I
  BY <1>3
<1>5. <<i - 1, i>> \in Less
  BY <1>4
<1> QED BY <1>3, <1>4, <1>5

\* The tables whose links lead to a page, or nowhere.
Links == {t \in Table : \A p \in Pages : t[p] \in Pages \cup {EOF, FREE}}

\* The numbers in use.
LEMMA Numbers ==
  /\ FirstPage \in Nat /\ FirstPage > 3 /\ TableSize \in Nat /\ TableSize <= 128
  /\ FirstPage < TableSize /\ EntriesPerBlock \in Nat \ {0} /\ DirSize \in Nat \ {0}
  /\ Pages \subseteq 4..127 /\ FirstPage \in Pages
  /\ Entries = {0} \cup Pages /\ 0 \notin Pages
  /\ Pages \cup {EOF, FREE} \subseteq 0..255
  /\ EOF = 1 /\ FREE = 3 /\ EOF \notin Pages /\ FREE \notin Pages
  /\ Slots = 1..DirSize
BY PakAssumption DEF Pages, Entries, EOF, FREE, Slots

\* Links, entry by entry.
LEMMA LinksAre ==
  ASSUME NEW t
  PROVE  t \in Links <=> /\ t \in [Entries -> 0..255]
                         /\ \A p \in Pages : t[p] \in Pages \cup {EOF, FREE}
BY DEF Links, Table

\* The function that adds up the entries of t from the last down.
Adds(t, s) ==
  s = [e \in FirstPage..TableSize |-> IF e = TableSize THEN 0 ELSE t[e] + s[e + 1]]

LEMMA SumUnfold ==
  ASSUME NEW t
  PROVE  __osSumcalc(t) = (CHOOSE s : Adds(t, s))[FirstPage] % 256
BY DEF __osSumcalc, Adds

LEMMA AddsExists ==
  ASSUME NEW t \in Links
  PROVE  /\ Adds(t, CHOOSE s : Adds(t, s))
         /\ \A e \in FirstPage..TableSize : (CHOOSE s : Adds(t, s))[e] \in Nat
<1> DEFINE Body(s, e) == IF e = TableSize THEN 0 ELSE t[e] + s[e + 1]
           Part(n) == (TableSize - n)..TableSize
           I == {n \in Nat : n <= TableSize - FirstPage =>
                   \E s \in [Part(n) -> Nat] : s = [e \in Part(n) |-> Body(s, e)]}
<1>t. \A e \in FirstPage..(TableSize - 1) : t[e] \in Nat
  BY Numbers, LinksAre DEF Pages
<1>1. 0 \in I
  <2> DEFINE s == [e \in Part(0) |-> 0]
  <2>1. Part(0) = {TableSize}
    BY Numbers
  <2>2. s = [e \in Part(0) |-> Body(s, e)]
    BY <2>1
  <2> QED BY <2>2
<1>2. ASSUME NEW n \in I PROVE n + 1 \in I
  <2> SUFFICES ASSUME n + 1 <= TableSize - FirstPage 
           PROVE  \E s \in [Part(n + 1) -> Nat] : s = [e \in Part(n + 1) |-> Body(s, e)]
    OBVIOUS
  <2>1. PICK s \in [Part(n) -> Nat] : s = [e \in Part(n) |-> Body(s, e)]
    BY <1>2, Numbers
  <2> DEFINE k == TableSize - (n + 1)
             r == [e \in Part(n + 1) |-> IF e = k THEN t[k] + s[k + 1] ELSE s[e]]
  <2>a. n \in Nat /\ TableSize \in Nat /\ k \in Nat
    BY <1>2, Numbers
  <2>b. \A e : e \in Part(n + 1) <=> e = k \/ e \in Part(n)
    BY <2>a
  <2>2. /\ k \in FirstPage..(TableSize - 1) /\ Part(n + 1) = {k} \cup Part(n)
        /\ k \notin Part(n) /\ k + 1 \in Part(n) /\ n \in Nat
    <3>1. Part(n + 1) = {k} \cup Part(n)
      <4> HIDE DEF k
      <4> QED BY <2>b
    <3> QED BY <2>a, <3>1, Numbers
  <2>3. \A e \in Part(n) : r[e] = s[e] /\ s[e] = Body(s, e)
    BY <2>1, <2>2
  <2>4. \A e \in Part(n) : e # TableSize => e + 1 \in Part(n)
    BY <2>2, Numbers
  <2>5. \A e \in Part(n) : r[e] = Body(r, e)
    <3>1. \A e \in Part(n) : e # TableSize => r[e + 1] = s[e + 1]
      <4> HIDE DEF r
      <4> QED BY <2>3, <2>4
    <3> HIDE DEF r
    <3> QED BY <2>3, <3>1
  <2>6. r[k] = Body(r, k) /\ r[k] \in Nat
    BY <2>1, <2>2, <2>3, <1>t
  <2>7. \A e \in Part(n + 1) : r[e] = Body(r, e) /\ r[e] \in Nat
    BY <2>1, <2>2, <2>3, <2>5, <2>6
  <2>8. r = [e \in Part(n + 1) |-> Body(r, e)] /\ r \in [Part(n + 1) -> Nat]
    <3> HIDE DEF Body
    <3>1. \A e \in Part(n + 1) : r[e] = [x \in Part(n + 1) |-> Body(r, x)][e]
      BY <2>7
    <3> QED BY <3>1, <2>7
  <2> QED BY <2>8
<1>3. I = Nat
  <2> HIDE DEF I
  <2>1. I \in SUBSET Nat BY DEF I
  <2> QED BY <1>1, <1>2, <2>1, Upward
<1>4. TableSize - FirstPage \in I /\ Part(TableSize - FirstPage) = FirstPage..TableSize
  <2>1. TableSize - FirstPage \in Nat /\ TableSize - (TableSize - FirstPage) = FirstPage
    BY Numbers
  <2>2. TableSize - FirstPage \in I
    <3> HIDE DEF I
    <3> QED BY <2>1, <1>3
  <2> QED BY <2>1, <2>2
<1>5. PICK s \in [FirstPage..TableSize -> Nat] : Adds(t, s)
  BY <1>4, Numbers DEF Adds
<1> DEFINE c == CHOOSE q : Adds(t, q)
<1>6. Adds(t, c)
  BY <1>5
<1>7. \A n \in Nat : n <= TableSize - FirstPage => c[TableSize - n] \in Nat
  <2> DEFINE J == {n \in Nat : n <= TableSize - FirstPage => c[TableSize - n] \in Nat}
  <2> HIDE DEF c
  <2>0. \A e \in FirstPage..TableSize : c[e] = Body(c, e)
    BY <1>6 DEF Adds
  <2>1. 0 \in J
    BY <2>0, Numbers
  <2>2. ASSUME NEW n \in J PROVE n + 1 \in J
    <3> SUFFICES ASSUME n + 1 <= TableSize - FirstPage PROVE c[TableSize - (n + 1)] \in Nat
      OBVIOUS
    <3> DEFINE k == TableSize - (n + 1)
    <3>1. k \in FirstPage..(TableSize - 1) /\ k + 1 = TableSize - n /\ c[k + 1] \in Nat
      BY <2>2, Numbers
    <3>2. c[k] = t[k] + c[k + 1]
      BY <3>1, <2>0, Numbers
    <3> QED BY <3>1, <3>2, <1>t
  <2>3. J = Nat
    <3> HIDE DEF J
    <3>1. J \in SUBSET Nat BY DEF J
    <3> QED BY <2>1, <2>2, <3>1, Upward
  <2> QED BY <2>3
<1>8. ASSUME NEW e \in FirstPage..TableSize PROVE c[e] \in Nat
  <2>1. /\ TableSize - e \in Nat /\ TableSize - e <= TableSize - FirstPage
        /\ TableSize - (TableSize - e) = e
    BY Numbers
  <2> HIDE DEF c
  <2> QED BY <1>7, <2>1
<1> QED BY <1>6, <1>8

\* The checksum is a byte, and only the pages' entries decide it.
LEMMA SumType ==
  ASSUME NEW t \in Links
  PROVE  __osSumcalc(t) \in 0..255
<1> DEFINE s == CHOOSE x : Adds(t, x)
<1>1. s[FirstPage] \in Nat
  BY AddsExists, Numbers
<1>2. __osSumcalc(t) = s[FirstPage] % 256
  BY SumUnfold
<1> HIDE DEF s
<1> QED BY <1>1, <1>2

LEMMA SumSame ==
  ASSUME NEW t \in Links, NEW u \in Links, \A p \in Pages : t[p] = u[p]
  PROVE  __osSumcalc(t) = __osSumcalc(u)
<1> DEFINE s == CHOOSE x : Adds(t, x)
           r == CHOOSE x : Adds(u, x)
           J == {n \in Nat : n <= TableSize - FirstPage => s[TableSize - n] = r[TableSize - n]}
<1>1. Adds(t, s) /\ Adds(u, r)
  BY AddsExists
<1>s. __osSumcalc(t) = s[FirstPage] % 256 /\ __osSumcalc(u) = r[FirstPage] % 256
  BY SumUnfold
<1> HIDE DEF s, r
<1>2. \A e \in FirstPage..TableSize :
        /\ s[e] = IF e = TableSize THEN 0 ELSE t[e] + s[e + 1]
        /\ r[e] = IF e = TableSize THEN 0 ELSE u[e] + r[e + 1]
  BY <1>1 DEF Adds
<1>3. 0 \in J
  BY <1>2, Numbers
<1>4. ASSUME NEW n \in J PROVE n + 1 \in J
  <2> SUFFICES ASSUME n + 1 <= TableSize - FirstPage 
           PROVE  s[TableSize - (n + 1)] = r[TableSize - (n + 1)]
    OBVIOUS
  <2> DEFINE k == TableSize - (n + 1)
  <2>1. k \in FirstPage..(TableSize - 1) /\ k + 1 = TableSize - n /\ s[k + 1] = r[k + 1]
    BY <1>4, Numbers
  <2>2. k \in Pages
    BY <2>1 DEF Pages
  <2> QED BY <2>1, <2>2, <1>2, Numbers
<1>5. J = Nat
  <2> HIDE DEF J
  <2>1. J \in SUBSET Nat BY DEF J
  <2> QED BY <1>3, <1>4, <2>1, Upward
<1>6. s[FirstPage] = r[FirstPage]
  <2>0. TableSize - FirstPage \in Nat /\ TableSize - (TableSize - FirstPage) = FirstPage
    BY Numbers
  <2>1. TableSize - FirstPage \in J
    <3> HIDE DEF J
    <3> QED BY <1>5, <2>0
  <2> QED BY <2>0, <2>1
<1> QED BY <1>s, <1>6

\* A sealed table checks.
LEMMA SealedOK ==
  ASSUME NEW t \in Links
  PROVE  Sealed(t) \in Links /\ SumOK(Sealed(t))
<1>1. __osSumcalc(t) \in 0..255
  BY SumType
<1>2. Sealed(t) = [e \in Entries |-> IF e = 0 THEN __osSumcalc(t) ELSE t[e]]
  BY Numbers, LinksAre DEF Sealed
<1>3. Sealed(t) \in Links /\ \A p \in Pages : Sealed(t)[p] = t[p]
  <2> DEFINE v == __osSumcalc(t)
             u == [e \in Entries |-> IF e = 0 THEN v ELSE t[e]]
  <2> HIDE DEF v
  <2>1. v \in 0..255
    BY <1>1 DEF v
  <2>2. u \in [Entries -> 0..255]
    BY <2>1, LinksAre
  <2>3. \A p \in Pages : u[p] = t[p]
    BY Numbers
  <2>4. u \in Links
    <3> HIDE DEF u
    <3> QED BY <2>2, <2>3, LinksAre
  <2> QED BY <1>2, <2>3, <2>4 DEF v
<1>4. __osSumcalc(Sealed(t)) = __osSumcalc(t)
  BY <1>3, SumSame
<1> QED BY <1>2, <1>3, <1>4, Numbers DEF SumOK

\* Numbers up to m can be put in ascending order.
LEMMA Ordered ==
  ASSUME NEW m \in Nat, NEW S \in SUBSET (0..m)
  PROVE  /\ IsFiniteSet(S) /\ Cardinality(S) \in Nat
         /\ Ascending(S) \in [1..Cardinality(S) -> S]
         /\ \A i, j \in 1..Cardinality(S) : i < j => Ascending(S)[i] < Ascending(S)[j]
<1> DEFINE Sorts(s, T) == /\ s \in [1..Cardinality(T) -> T]
                          /\ \A i, j \in DOMAIN s : i < j => s[i] < s[j]
           I == {n \in Nat : \A T \in SUBSET (0..(n - 1)) :
                   IsFiniteSet(T) /\ Cardinality(T) \in Nat /\ \E s : Sorts(s, T)}
<1>1. 0 \in I
  <2>1. \A T \in SUBSET (0..(0 - 1)) : T = {}
    OBVIOUS
  <2>2. IsFiniteSet({}) /\ Cardinality({}) = 0
    BY FS_EmptySet
  <2>3. Sorts(<<>>, {})
    BY <2>2
  <2>4. \A T \in SUBSET (0..(0 - 1)) :
          IsFiniteSet(T) /\ Cardinality(T) \in Nat /\ \E s : Sorts(s, T)
    <3> SUFFICES ASSUME NEW T \in SUBSET (0..(0 - 1))
                 PROVE  IsFiniteSet(T) /\ Cardinality(T) \in Nat /\ \E s : Sorts(s, T)
      OBVIOUS
    <3>1. T = {}
      BY <2>1
    <3> HIDE DEF Sorts
    <3> QED BY <3>1, <2>2, <2>3
  <2> HIDE DEF Sorts
  <2> QED BY <2>4
<1>2. ASSUME NEW n \in I PROVE n + 1 \in I
  <2>1. n \in Nat
    OBVIOUS
  <2> SUFFICES ASSUME NEW T \in SUBSET (0..n)
               PROVE  IsFiniteSet(T) /\ Cardinality(T) \in Nat /\ \E s : Sorts(s, T)
    BY <2>1
  <2> DEFINE U == T \ {n}
  <2>2. U \in SUBSET (0..(n - 1))
    BY <2>1
  <2>3. IsFiniteSet(U) /\ Cardinality(U) \in Nat /\ \E s : Sorts(s, U)
    BY <2>2
  <2>4. CASE n \notin T
    <3>1. U = T
      BY <2>4
    <3> QED BY <2>3, <3>1
  <2>5. CASE n \in T
    <3> HIDE DEF U
    <3>1. PICK s : Sorts(s, U)
      BY <2>3
    <3> DEFINE k == Cardinality(U)
    <3>2. T = U \cup {n} /\ n \notin U
      BY <2>5 DEF U
    <3>3. IsFiniteSet(T) /\ Cardinality(T) = k + 1 /\ k \in Nat
      BY <2>3, <3>2, FS_AddElement
    <3> HIDE DEF k
    <3> DEFINE r == [i \in 1..(k + 1) |-> IF i = k + 1 THEN n ELSE s[i]]
    <3>4. s \in [1..k -> U] /\ \A i, j \in 1..k : i < j => s[i] < s[j]
      BY <3>1 DEF k
    <3>5. r \in [1..(k + 1) -> T]
      BY <3>2, <3>3, <3>4
    <3>6. ASSUME NEW i \in 1..(k + 1), NEW j \in 1..(k + 1), i < j PROVE r[i] < r[j]
      <4>0. i \in 1..k /\ i \in 1..(k + 1) /\ i # k + 1
        BY <3>3, <3>6
      <4>1. i \in 1..k /\ r[i] = s[i] /\ s[i] \in U /\ s[i] \in 0..(n - 1)
        BY <4>0, <3>4, <2>2
      <4>2. j = k + 1 \/ (j \in 1..k /\ r[j] = s[j])
        BY <3>3
      <4> QED BY <4>1, <4>2, <3>4, <3>6, <2>1
    <3>7. Sorts(r, T)
      BY <3>3, <3>5, <3>6
    <3> HIDE DEF Sorts, r
    <3> QED BY <3>3, <3>7
  <2> QED BY <2>4, <2>5
<1>3. I = Nat
  <2> HIDE DEF I
  <2>1. I \in SUBSET Nat BY DEF I
  <2> QED BY <1>1, <1>2, <2>1, Upward
<1>4. IsFiniteSet(S) /\ Cardinality(S) \in Nat /\ \E s : Sorts(s, S)
  <2>1. m + 1 \in I /\ m + 1 - 1 = m
    <3> HIDE DEF I
    <3> QED BY <1>3
  <2> HIDE DEF Sorts
  <2> QED BY <2>1
<1>5. Ascending(S) = CHOOSE s : Sorts(s, S)
  BY DEF Ascending
<1>6. Sorts(Ascending(S), S)
  <2> HIDE DEF Sorts
  <2> QED BY <1>4, <1>5
<1> QED BY <1>4, <1>6

LEMMA AscendingSeq ==
  ASSUME NEW m \in Nat, NEW S \in SUBSET (0..m)
  PROVE  Ascending(S) \in Seq(S) /\ Len(Ascending(S)) = Cardinality(S)
<1>1. Cardinality(S) \in Nat /\ Ascending(S) \in [1..Cardinality(S) -> S]
  BY Ordered
<1> QED BY <1>1, SeqDef, LenProperties

\* A set of positive numbers with all that are smaller is a range.
LEMMA DownClosed ==
  ASSUME NEW N \in Nat, NEW K \in SUBSET (1..N), \A k \in K : \A j \in 1..k : j \in K
  PROVE  \E m \in 0..N : K = 1..m
<1> DEFINE I == {n \in Nat : n <= N => \E m \in 0..n : K \cap (1..n) = 1..m}
<1>1. 0 \in I
  OBVIOUS
<1>2. ASSUME NEW n \in I PROVE n + 1 \in I
  <2> SUFFICES ASSUME n + 1 <= N PROVE \E m \in 0..(n + 1) : K \cap (1..(n + 1)) = 1..m
    OBVIOUS
  <2>1. n \in Nat
    OBVIOUS
  <2>2. CASE n + 1 \in K
    <3>1. \A j \in 1..(n + 1) : j \in K
      BY <2>2
    <3> QED BY <2>1, <3>1
  <2>3. CASE n + 1 \notin K
    <3>1. K \cap (1..(n + 1)) = K \cap (1..n)
      BY <2>1, <2>3
    <3>2. PICK m \in 0..n : K \cap (1..n) = 1..m
      BY <1>2, <2>1
    <3> QED BY <2>1, <3>1, <3>2
  <2> QED BY <2>2, <2>3
<1>3. I = Nat
  <2> HIDE DEF I
  <2>1. I \in SUBSET Nat BY DEF I
  <2> QED BY <1>1, <1>2, <2>1, Upward
<1>4. PICK m \in 0..N : K \cap (1..N) = 1..m
  <2>1. N \in I
    <3> HIDE DEF I
    <3> QED BY <1>3
  <2> QED BY <2>1
<1> QED
  <2>1. K \cap (1..N) = K
    OBVIOUS
  <2>2. K = 1..m
    BY <1>4, <2>1
  <2> WITNESS m \in 0..N
  <2> QED BY <2>2

\* The entries met on the way from p through t.
Follows(t, p, at) ==
  at = [i \in 1..Cardinality(Pages) |->
          IF i = 1 THEN p ELSE IF at[i - 1] \in Pages THEN t[at[i - 1]] ELSE EOF]
Way(t, p) == CHOOSE at : Follows(t, p, at)
\* The steps of it that reach a page for the first time.
Fresh(at, i) == at[i] \in Pages /\ \A j \in 1..(i - 1) : at[j] # at[i]
Steps(at) == {k \in 1..Cardinality(Pages) : \A j \in 1..k : Fresh(at, j)}

LEMMA WalkUnfold ==
  ASSUME NEW t, NEW p
  PROVE  Walk(t, p) = [i \in Steps(Way(t, p)) |-> Way(t, p)[i]]
BY DEF Walk, Steps, Fresh, Way, Follows

LEMMA PagesFinite ==
  /\ IsFiniteSet(Pages) /\ Cardinality(Pages) \in Nat
  /\ \A S \in SUBSET Pages : S \in SUBSET (0..127)
<1>1. Pages \in SUBSET (0..127)
  BY Numbers
<1> QED BY <1>1, Ordered

LEMMA StepsAre ==
  ASSUME NEW at
  PROVE  \E m \in 0..Cardinality(Pages) : Steps(at) = 1..m
<1>1. Cardinality(Pages) \in Nat /\ Steps(at) \in SUBSET (1..Cardinality(Pages))
  BY PagesFinite DEF Steps
<1>2. \A k \in Steps(at) : \A j \in 1..k : j \in Steps(at)
  BY PagesFinite DEF Steps
<1> DEFINE K == Steps(at)
<1>3. K \in SUBSET (1..Cardinality(Pages)) /\ \A k \in K : \A j \in 1..k : j \in K
  BY <1>1, <1>2
<1> DEFINE N == Cardinality(Pages)
<1>n. N \in Nat /\ K \in SUBSET (1..N)
  BY <1>1, <1>3
<1> HIDE DEF K, N
<1>k. \A k \in K : \A j \in 1..k : j \in K
  BY <1>3
<1>p. \E m \in 0..N : K = 1..m
  BY <1>n, <1>k, DownClosed
<1>4. \E m \in 0..Cardinality(Pages) : K = 1..m
  BY <1>p DEF N
<1> QED BY <1>4 DEF K

\* A walk is a sequence of pages, whatever the table.
LEMMA WalkType ==
  ASSUME NEW t, NEW p
  PROVE  Walk(t, p) \in Seq(Pages)
<1> DEFINE at == Way(t, p)
<1>1. PICK m \in 0..Cardinality(Pages) : Steps(at) = 1..m
  BY StepsAre
<1>2. \A i \in 1..m : at[i] \in Pages
  <2>1. \A i \in Steps(at) : i \in 1..i /\ Fresh(at, i)
    BY PagesFinite DEF Steps
  <2> QED BY <1>1, <2>1 DEF Fresh
<1>3. Walk(t, p) = [i \in 1..m |-> at[i]]
  BY <1>1, WalkUnfold
<1> HIDE DEF at
<1>4. m \in Nat
  BY PagesFinite
<1> QED BY <1>2, <1>3, <1>4, SeqDef

-----------------------------------------------------------------------------
(* The writes of a request.                                                *)

Copies == {"inode", "minode"}
TableWrites == [to : Copies \cup {"restore"}, at : 0..(Blocks - 1), val : Links]
EntryWrites == [to : {"dir"}, at : Slots, val : Entry \cup {NoFile}]
DataPages == [to : {"page"}, at : Pages, val : Names]
Writes == TableWrites \cup EntryWrites \cup DataPages

\* Writes that leave both copies of the table alone, but for a restored one.
Aside(W) == W \in Seq(Writes) /\ \A k \in 1..Len(W) : W[k].to \notin Copies
\* Writes of the directory and the data only.
NoTables(W) == W \in Seq(Writes) /\ \A k \in 1..Len(W) : W[k].to \in {"dir", "page"}
\* Writes that end with S in every block of both copies.
Complete(W, S) ==
  /\ W \in Seq(Writes) /\ W # <<>>
  /\ \A k \in 1..Len(W) : W[k].to \in Copies => W[k].val = S
  /\ \A c \in Copies, b \in 0..(Blocks - 1) :
       \E m \in 1..Len(W) : /\ W[m].to = c /\ W[m].at = b
                            /\ \A k \in m..Len(W) : W[k].to # "restore"

LEMMA BlocksAre ==
  /\ Blocks \in Nat \ {0}
  /\ \A e \in Entries : e \div EntriesPerBlock \in 0..(Blocks - 1)
<1>1. \A e \in Entries : e \in Nat /\ e <= TableSize - 1
  BY Numbers DEF Pages
<1>2. ASSUME NEW a \in Nat, NEW b \in Nat, a <= b
      PROVE  a \div EntriesPerBlock <= b \div EntriesPerBlock /\ a \div EntriesPerBlock \in Nat
  BY <1>2, Numbers
<1>3. TableSize - 1 \in Nat
  BY Numbers
<1>4. (TableSize - 1) \div EntriesPerBlock \in Nat
  BY <1>2, <1>3
<1> QED BY <1>1, <1>2, <1>3, <1>4 DEF Blocks

LEMMA WriteTypes ==
  /\ \A s \in Slots, v \in Entry \cup {NoFile} : Write("dir", s, v) \in EntryWrites
  /\ \A p \in Pages, n \in Names : Write("page", p, n) \in DataPages
  /\ \A c \in Copies \cup {"restore"}, b \in 0..(Blocks - 1), t \in Links :
       Write(c, b, t) \in TableWrites
  /\ \A c, b, t : Write(c, b, t).to = c /\ Write(c, b, t).at = b /\ Write(c, b, t).val = t
BY DEF Write, EntryWrites, DataPages, TableWrites

LEMMA WriteKinds ==
  ASSUME NEW w \in Writes
  PROVE  /\ w.to \in {"inode", "minode", "restore", "dir", "page"}
         /\ w.to \in Copies \cup {"restore"} => w.val \in Links
         /\ w.to = "dir" => w.val \in Entry \cup {NoFile}
         /\ w.to = "page" => w.val \in Names
BY DEF Writes, TableWrites, EntryWrites, DataPages, Copies

LEMMA DirWrites ==
  ASSUME NEW W \in Seq(Slots)
  PROVE  NoTables([i \in DOMAIN W |-> Write("dir", W[i], NoFile)])
<1> DEFINE D == [i \in 1..Len(W) |-> Write("dir", W[i], NoFile)]
<1>1. DOMAIN W = 1..Len(W) /\ Len(W) \in Nat /\ \A i \in 1..Len(W) : W[i] \in Slots
  BY LenProperties, ElementOfSeq
<1>2. \A i \in 1..Len(W) : D[i] \in EntryWrites /\ D[i].to = "dir"
  BY <1>1, WriteTypes
<1>3. D \in Seq(Writes) /\ Len(D) = Len(W)
  <2>1. D \in [1..Len(W) -> Writes]
    BY <1>2 DEF Writes
  <2> HIDE DEF D
  <2> QED BY <1>1, <2>1, SeqDef, LenProperties
<1> HIDE DEF D
<1>4. NoTables(D)
  BY <1>2, <1>3 DEF NoTables
<1> QED BY <1>1, <1>4 DEF D

LEMMA PageWrites ==
  ASSUME NEW W \in Seq(Pages), NEW n \in Names
  PROVE  NoTables(DataWrites(W, n)) /\ Len(DataWrites(W, n)) = Len(W)
<1> DEFINE D == [i \in 1..Len(W) |-> Write("page", W[i], n)]
<1>1. DOMAIN W = 1..Len(W) /\ Len(W) \in Nat /\ \A i \in 1..Len(W) : W[i] \in Pages
  BY LenProperties, ElementOfSeq
<1>2. \A i \in 1..Len(W) : D[i] \in DataPages /\ D[i].to = "page"
  BY <1>1, WriteTypes
<1>3. D \in Seq(Writes) /\ Len(D) = Len(W)
  <2>1. D \in [1..Len(W) -> Writes]
    BY <1>2 DEF Writes
  <2> HIDE DEF D
  <2> QED BY <1>1, <2>1, SeqDef, LenProperties
<1> HIDE DEF D
<1>4. NoTables(D)
  BY <1>2, <1>3 DEF NoTables
<1>5. DataWrites(W, n) = D
  BY <1>1 DEF DataWrites, D
<1> QED BY <1>3, <1>4, <1>5

LEMMA OneWrite ==
  ASSUME NEW s \in Slots, NEW v \in Entry \cup {NoFile}
  PROVE  NoTables(<<Write("dir", s, v)>>)
<1> DEFINE w == Write("dir", s, v)
<1>1. w \in Writes /\ w.to = "dir"
  BY WriteTypes DEF Writes
<1> HIDE DEF w
<1>2. NoTables(<<w>>)
  BY <1>1 DEF NoTables
<1> QED BY <1>2 DEF w

LEMMA OccupyWrites ==
  ASSUME NEW s \in Slots, NEW v \in Entry
  PROVE  NoTables(Occupy(s, v))
<1>1. [v EXCEPT !.occupied = TRUE] \in Entry
  BY DEF Entry
<1>2. NoTables(<<Write("dir", s, [v EXCEPT !.occupied = TRUE])>>)
  BY <1>1, OneWrite
<1>3. NoTables(<<>>)
  BY DEF NoTables
<1> QED BY <1>2, <1>3 DEF Occupy

\* One after the other.
LEMMA Joined ==
  ASSUME NEW A, NEW B
  PROVE  /\ NoTables(A) => Aside(A)
         /\ Aside(A) /\ Aside(B) => Aside(A \o B)
         /\ NoTables(A) /\ NoTables(B) => NoTables(A \o B)
<1>1. NoTables(A) => Aside(A)
  BY DEF NoTables, Aside, Copies
<1>2. ASSUME A \in Seq(Writes), B \in Seq(Writes)
      PROVE  /\ A \o B \in Seq(Writes)
             /\ \A k \in 1..Len(A \o B) : \/ k \in 1..Len(A) /\ (A \o B)[k] = A[k]
                                          \/ \E j \in 1..Len(B) : (A \o B)[k] = B[j]
  <2>1. /\ A \o B \in Seq(Writes) /\ Len(A) \in Nat /\ Len(B) \in Nat
        /\ Len(A \o B) = Len(A) + Len(B)
        /\ \A i \in 1..(Len(A) + Len(B)) :
             (A \o B)[i] = IF i <= Len(A) THEN A[i] ELSE B[i - Len(A)]
    BY <1>2, ConcatProperties, LenProperties
  <2>2. ASSUME NEW k \in 1..(Len(A) + Len(B))
        PROVE  \/ k \in 1..Len(A) /\ (A \o B)[k] = A[k]
               \/ \E j \in 1..Len(B) : (A \o B)[k] = B[j]
    <3>1. CASE k <= Len(A)
      BY <2>1, <3>1
    <3>2. CASE k > Len(A)
      <4>1. k - Len(A) \in 1..Len(B) /\ (A \o B)[k] = B[k - Len(A)]
        BY <2>1, <3>2
      <4> QED BY <4>1
    <3> QED BY <2>1, <3>1, <3>2
  <2> QED BY <2>1, <2>2
<1>3. ASSUME Aside(A), Aside(B) PROVE Aside(A \o B)
  BY <1>2, <1>3 DEF Aside
<1>4. ASSUME NoTables(A), NoTables(B) PROVE NoTables(A \o B)
  BY <1>2, <1>4 DEF NoTables
<1> QED BY <1>1, <1>3, <1>4

\* A table written whole, mirror and all.
LEMMA WriteInode ==
  ASSUME NEW t \in Links
  PROVE  Complete(__osPfsWriteInode(t), Sealed(t))
<1> DEFINE S == Sealed(t)
           n == 2 * Blocks
           W == [i \in 1..n |-> Write(IF i % 2 = 1 THEN "inode" ELSE "minode", (i - 1) \div 2, S)]
<1>1. S \in Links
  BY SealedOK
<1> HIDE DEF S
<1>2. n \in Nat /\ n >= 2
  BY BlocksAre
<1>3. ASSUME NEW i \in 1..n
      PROVE  /\ W[i] \in TableWrites /\ W[i].val = S /\ W[i].at = (i - 1) \div 2
             /\ W[i].to = IF i % 2 = 1 THEN "inode" ELSE "minode"
  <2>1. (i - 1) \div 2 \in 0..(Blocks - 1)
    BY BlocksAre
  <2>2. (IF i % 2 = 1 THEN "inode" ELSE "minode") \in Copies \cup {"restore"}
    BY DEF Copies
  <2>3. W[i] = Write(IF i % 2 = 1 THEN "inode" ELSE "minode", (i - 1) \div 2, S)
    OBVIOUS
  <2> HIDE DEF W, n
  <2> QED BY <1>1, <2>1, <2>2, <2>3, WriteTypes
<1>4. W \in Seq(Writes) /\ Len(W) = n
  <2>1. W \in [1..n -> Writes]
    BY <1>3 DEF Writes
  <2> HIDE DEF W, n
  <2> QED BY <1>2, <2>1, SeqDef, LenProperties
<1>5. ASSUME NEW b \in 0..(Blocks - 1)
      PROVE  /\ 2 * b + 1 \in 1..n /\ W[2 * b + 1].to = "inode" /\ W[2 * b + 1].at = b
             /\ 2 * b + 2 \in 1..n /\ W[2 * b + 2].to = "minode" /\ W[2 * b + 2].at = b
  <2>1. /\ 2 * b + 1 \in 1..n /\ (2 * b + 1) % 2 = 1 /\ (2 * b + 1 - 1) \div 2 = b
        /\ 2 * b + 2 \in 1..n /\ (2 * b + 2) % 2 = 0 /\ (2 * b + 2 - 1) \div 2 = b
    BY BlocksAre
  <2> DEFINE i == 2 * b + 1
             j == 2 * b + 2
  <2> HIDE DEF W, n, i, j
  <2>2. i \in 1..n /\ i % 2 = 1 /\ (i - 1) \div 2 = b
    BY <2>1 DEF i
  <2>3. W[i].to = "inode" /\ W[i].at = b
    BY <2>2, <1>3
  <2>4. j \in 1..n /\ j % 2 = 0 /\ (j - 1) \div 2 = b
    BY <2>1 DEF j
  <2>5. W[j].to = "minode" /\ W[j].at = b
    BY <2>4, <1>3
  <2> QED BY <2>2, <2>3, <2>4, <2>5 DEF i, j
<1> HIDE DEF n
<1>6. W = __osPfsWriteInode(t)
  BY DEF __osPfsWriteInode, n, S
<1> HIDE DEF W
<1>7. Complete(W, S)
  <2>1. W # <<>>
    BY <1>2, <1>4
  <2>2. \A k \in 1..Len(W) : W[k].to \in Copies => W[k].val = S
    BY <1>3, <1>4
  <2>3. \A k \in 1..Len(W) : W[k].to # "restore"
    BY <1>3, <1>4
  <2>4. ASSUME NEW c \in Copies, NEW b \in 0..(Blocks - 1)
        PROVE  \E m \in 1..Len(W) : W[m].to = c /\ W[m].at = b
    <3>1. CASE c = "inode"
      BY <1>4, <1>5, <3>1
    <3>2. CASE c = "minode"
      BY <1>4, <1>5, <3>2
    <3> QED BY <3>1, <3>2 DEF Copies
  <2>5. \A m \in 1..Len(W) : \A k \in m..Len(W) : k \in 1..Len(W)
    BY <1>2, <1>4
  <2> QED BY <1>4, <2>1, <2>2, <2>3, <2>4, <2>5 DEF Complete
<1> QED BY <1>6, <1>7 DEF S

\* What comes before and after a complete table leaves it complete.
LEMMA CompleteAfter ==
  ASSUME NEW A, NEW W, NEW S, Aside(A), Complete(W, S)
  PROVE  Complete(A \o W, S)
<1>1. A \in Seq(Writes) /\ W \in Seq(Writes) /\ W # <<>>
  BY DEF Aside, Complete
<1>2. /\ A \o W \in Seq(Writes) /\ Len(A) \in Nat /\ Len(W) \in Nat
      /\ Len(A \o W) = Len(A) + Len(W)
      /\ \A i \in 1..(Len(A) + Len(W)) :
           (A \o W)[i] = IF i <= Len(A) THEN A[i] ELSE W[i - Len(A)]
  BY <1>1, ConcatProperties, LenProperties
<1> DEFINE V == A \o W
<1> HIDE DEF V
<1>3. ASSUME NEW k \in 1..Len(V), V[k].to \in Copies PROVE V[k].val = S
  <2>1. k > Len(A)
    BY <1>2, <1>3 DEF Aside, V
  <2>2. k - Len(A) \in 1..Len(W) /\ V[k] = W[k - Len(A)]
    BY <1>2, <2>1 DEF V
  <2> QED BY <1>3, <2>2 DEF Complete
<1>4. ASSUME NEW c \in Copies, NEW b \in 0..(Blocks - 1)
      PROVE  \E m \in 1..Len(V) : /\ V[m].to = c /\ V[m].at = b
                                  /\ \A k \in m..Len(V) : V[k].to # "restore"
  <2>1. PICK m \in 1..Len(W) : /\ W[m].to = c /\ W[m].at = b
                               /\ \A k \in m..Len(W) : W[k].to # "restore"
    BY DEF Complete
  <2>2. m + Len(A) \in 1..Len(V) /\ V[m + Len(A)] = W[m]
    BY <1>2 DEF V
  <2>3. ASSUME NEW k \in (m + Len(A))..Len(V) PROVE V[k].to # "restore"
    <3>1. k - Len(A) \in m..Len(W) /\ V[k] = W[k - Len(A)]
      BY <1>2 DEF V
    <3> QED BY <2>1, <3>1
  <2> QED BY <2>1, <2>2, <2>3
<1>5. V # <<>>
  BY <1>1, <1>2 DEF V
<1> QED BY <1>2, <1>3, <1>4, <1>5 DEF Complete, V

LEMMA CompleteBefore ==
  ASSUME NEW B, NEW W, NEW S, NoTables(B), Complete(W, S)
  PROVE  Complete(W \o B, S)
<1>1. B \in Seq(Writes) /\ W \in Seq(Writes) /\ W # <<>>
  BY DEF NoTables, Complete
<1>2. /\ W \o B \in Seq(Writes) /\ Len(B) \in Nat /\ Len(W) \in Nat
      /\ Len(W \o B) = Len(W) + Len(B)
      /\ \A i \in 1..(Len(W) + Len(B)) :
           (W \o B)[i] = IF i <= Len(W) THEN W[i] ELSE B[i - Len(W)]
  BY <1>1, ConcatProperties, LenProperties
<1> DEFINE V == W \o B
<1> HIDE DEF V
<1>3. ASSUME NEW k \in 1..Len(V)
      PROVE  \/ k \in 1..Len(W) /\ V[k] = W[k]
             \/ V[k].to \in {"dir", "page"}
  <2>1. CASE k > Len(W)
    <3>1. k - Len(W) \in 1..Len(B) /\ V[k] = B[k - Len(W)]
      BY <1>2, <2>1 DEF V
    <3> QED BY <3>1 DEF NoTables
  <2>2. CASE k <= Len(W)
    BY <1>2, <2>2 DEF V
  <2> QED BY <1>2, <2>1, <2>2
<1>4. \A k \in 1..Len(V) : V[k].to \in Copies => V[k].val = S
  BY <1>3 DEF Complete, Copies
<1>5. ASSUME NEW c \in Copies, NEW b \in 0..(Blocks - 1)
      PROVE  \E m \in 1..Len(V) : /\ V[m].to = c /\ V[m].at = b
                                  /\ \A k \in m..Len(V) : V[k].to # "restore"
  <2>1. PICK m \in 1..Len(W) : /\ W[m].to = c /\ W[m].at = b
                               /\ \A k \in m..Len(W) : W[k].to # "restore"
    BY DEF Complete
  <2>2. m \in 1..Len(V) /\ V[m] = W[m]
    BY <1>2 DEF V
  <2>3. ASSUME NEW k \in m..Len(V) PROVE V[k].to # "restore"
    <3>1. k \in 1..Len(V) /\ (k \in 1..Len(W) => k \in m..Len(W))
      BY <1>2 DEF V
    <3> QED BY <2>1, <3>1, <1>3
  <2> QED BY <2>1, <2>2, <2>3
<1>6. V # <<>>
  BY <1>1, <1>2 DEF V
<1> QED BY <1>2, <1>4, <1>5, <1>6 DEF Complete, V

-----------------------------------------------------------------------------
(* Tables out of tables.                                                   *)

LEMMA RebuiltType ==
  ASSUME NEW t \in Links
  PROVE  Rebuilt(t) \in Links
<1> DEFINE used == UNION {ToSet(Walk(t, dir[s].start)) : s \in Kept(t)}
           u == [e \in Entries |-> IF e \in {0} \cup used THEN t[e] ELSE FREE]
<1>1. Rebuilt(t) = u
  BY DEF Rebuilt
<1> HIDE DEF used
<1>2. u \in Links
  <2>1. \A e \in Entries : u[e] \in {t[e], FREE}
    OBVIOUS
  <2>2. \A e \in Entries : u[e] \in 0..255
    BY <2>1, Numbers, LinksAre
  <2>3. \A p \in Pages : u[p] \in Pages \cup {EOF, FREE}
    BY <2>1, Numbers, LinksAre
  <2>4. u \in [Entries -> 0..255]
    BY <2>2
  <2> HIDE DEF u
  <2> QED BY <2>3, <2>4, LinksAre
<1> QED BY <1>1, <1>2

LEMMA ReleasedType ==
  ASSUME NEW t \in Links, NEW p
  PROVE  __osPfsReleasePages(t, p).inode \in Links
<1> DEFINE gone == ToSet(Walk(t, p))
           u == [e \in Entries |-> IF e \in gone THEN FREE ELSE t[e]]
<1>1. __osPfsReleasePages(t, p).inode = u
  BY DEF __osPfsReleasePages
<1> HIDE DEF gone
<1>2. u \in Links
  <2>1. \A e \in Entries : u[e] \in {t[e], FREE}
    OBVIOUS
  <2>2. \A e \in Entries : u[e] \in 0..255
    BY <2>1, Numbers, LinksAre
  <2>3. \A q \in Pages : u[q] \in Pages \cup {EOF, FREE}
    BY <2>1, Numbers, LinksAre
  <2>4. u \in [Entries -> 0..255]
    BY <2>2
  <2> HIDE DEF u
  <2> QED BY <2>3, <2>4, LinksAre
<1> QED BY <1>1, <1>2

LEMMA FreePagesType ==
  ASSUME NEW t
  PROVE  FreePages(t) \in Seq(Pages)
<1> DEFINE F == {p \in Pages : t[p] = FREE}
<1>1. F \in SUBSET (0..127)
  BY PagesFinite
<1>2. Ascending(F) \in Seq(F)
  <2> HIDE DEF F
  <2> QED BY <1>1, AscendingSeq
<1>3. Ascending(F) \in Seq(Pages)
  BY <1>2, SeqMonotonic
<1> QED BY <1>3 DEF FreePages

LEMMA DeclaredType ==
  ASSUME NEW t \in Links, NEW n \in Nat \ {0}, n <= Len(FreePages(t))
  PROVE  LET got == __osPfsDeclearPage(t, n)
         IN  /\ got.inode \in Links /\ got.first \in Pages
             /\ got.pages \in Seq(Pages) /\ Len(got.pages) = n
<1> DEFINE free == FreePages(t)
           got == SubSeq(free, 1, n)
           next(e) == CHOOSE i \in 2..n : got[i - 1] = e
           u == [e \in Entries |-> IF e \notin ToSet(got) THEN t[e]
                                   ELSE IF e = Last(got) THEN EOF ELSE got[next(e)]]
<1>1. /\ __osPfsDeclearPage(t, n).inode = u
      /\ __osPfsDeclearPage(t, n).first = got[1]
      /\ __osPfsDeclearPage(t, n).pages = got
  BY DEF __osPfsDeclearPage
<1>2. free \in Seq(Pages) /\ n <= Len(free)
  BY FreePagesType
<1> HIDE DEF free
<1>3. \A i \in 1..n : free[i] \in Pages
  BY <1>2, ElementOfSeq, LenProperties
<1>4. got \in Seq(Pages) /\ Len(got) = n
  BY <1>3, SubSeqProperties
<1> HIDE DEF got
<1>5. DOMAIN got = 1..n /\ \A i \in 1..n : got[i] \in Pages
  BY <1>4, LenProperties, ElementOfSeq
<1>6. ASSUME NEW e \in ToSet(got), e # Last(got) PROVE got[next(e)] \in Pages
  <2>1. PICK j \in 1..n : got[j] = e
    BY <1>5 DEF ToSet
  <2>2. j # n
    BY <1>4, <1>6, <2>1 DEF Last
  <2>3. j + 1 \in 2..n /\ got[j + 1 - 1] = e
    BY <2>1, <2>2
  <2>4. next(e) \in 2..n
    <3> DEFINE k == j + 1
    <3>1. k \in 2..n /\ got[k - 1] = e
      BY <2>1, <2>3
    <3> HIDE DEF k
    <3> QED BY <3>1
  <2> HIDE DEF next
  <2> QED BY <2>4, <1>5
<1> HIDE DEF next
<1>7. ToSet(got) \in SUBSET Pages
  BY <1>5 DEF ToSet
<1>8. ASSUME NEW e \in Entries
      PROVE  u[e] \in 0..255 /\ (e \in Pages => u[e] \in Pages \cup {EOF, FREE})
  <2>1. CASE e \notin ToSet(got)
    <3>1. u[e] = t[e]
      BY <2>1
    <3> HIDE DEF u
    <3> QED BY <3>1, Numbers, LinksAre
  <2>2. CASE e \in ToSet(got)
    <3>1. u[e] \in Pages \cup {EOF}
      BY <2>2, <1>6
    <3> HIDE DEF u
    <3> QED BY <3>1, Numbers
  <2> QED BY <2>1, <2>2
<1>9. u \in Links
  <2>1. u \in [Entries -> 0..255]
    BY <1>8
  <2>2. \A p \in Pages : u[p] \in Pages \cup {EOF, FREE}
    BY <1>8, Numbers
  <2> HIDE DEF u
  <2> QED BY <2>1, <2>2, LinksAre
<1> QED BY <1>1, <1>4, <1>5, <1>9

-----------------------------------------------------------------------------
(* Type correctness.                                                       *)

Kinds == {"none", "init", "check", "read", "write", "delete", "format"}
Ops == [kind : Kinds, name : Names \cup {NoFile}, size : Sizes \cup {0}, whole : BOOLEAN]
\* A request under way, and what a save is about.
OpOK(o) == /\ o \in Ops
           /\ o.kind = "write" => o.name \in Names /\ o.size \in Sizes

TypeInv ==
  /\ disk \in [Copies -> Links]
  /\ dir \in [Slots -> Entry \cup {NoFile}]
  /\ content \in [Pages -> Names \cup {NoFile}]
  /\ cache \in Links \cup {NoTable}
  /\ mounted \in BOOLEAN /\ clean \in BOOLEAN
  /\ todo \in Seq(Writes)
  /\ OpOK(op)
  /\ (op = NoOp) = (todo = <<>>)
  /\ saved \in [Names -> Sizes \cup {0}]

LEMMA NoOpOK == OpOK(NoOp) /\ NoOp.kind = "none"
BY DEF OpOK, NoOp, Ops, Kinds

\* Reading a table: what is kept of it, and what is put back on the way.
LEMMA ReadType ==
  ASSUME disk \in [Copies -> Links], NEW c \in Links \cup {NoTable}
  PROVE  /\ __osPfsReadInode(c).inode \in Links
         /\ __osPfsReadInode(c).ok \in BOOLEAN
         /\ Aside(__osPfsReadInode(c).todo)
         /\ CacheAfter(__osPfsReadInode(c)) \in Links \cup {NoTable}
<1>1. disk["inode"] \in Links /\ disk["minode"] \in Links
  BY DEF Copies
<1>2. Aside(<<>>)
  BY DEF Aside
<1>3. Aside(Restore)
  <2> DEFINE u == disk["minode"]
             W == [i \in 1..Blocks |-> Write("restore", i - 1, u)]
  <2> HIDE DEF u
  <2>1. \A i \in 1..Blocks : W[i] \in TableWrites /\ W[i].to = "restore"
    <3> SUFFICES ASSUME NEW i \in 1..Blocks
                 PROVE  W[i] \in TableWrites /\ W[i].to = "restore"
      OBVIOUS
    <3>1. i - 1 \in 0..(Blocks - 1) /\ u \in Links
      BY <1>1, BlocksAre DEF u
    <3>2. W[i] = Write("restore", i - 1, u)
      OBVIOUS
    <3>3. /\ Write("restore", i - 1, u) \in TableWrites
          /\ Write("restore", i - 1, u).to = "restore"
      BY <3>1 DEF Write, TableWrites
    <3> HIDE DEF W
    <3> QED BY <3>2, <3>3
  <2>2. W \in Seq(Writes) /\ Len(W) = Blocks
    <3>1. W \in [1..Blocks -> Writes]
      BY <2>1 DEF Writes
    <3> HIDE DEF W
    <3> QED BY <3>1, BlocksAre, SeqDef, LenProperties
  <2>3. Restore = W
    BY DEF Restore, u
  <2> HIDE DEF W
  <2> QED BY <2>1, <2>2, <2>3 DEF Aside, Copies
<1>4. /\ __osPfsReadInode(c).inode \in Links
      /\ __osPfsReadInode(c).ok \in BOOLEAN
      /\ Aside(__osPfsReadInode(c).todo)
  BY <1>1, <1>2, <1>3 DEF __osPfsReadInode
<1> QED BY <1>4 DEF CacheAfter

\* The checker writes a whole table, whatever it has read.
LEMMA CheckerWrites ==
  ASSUME disk \in [Copies -> Links], NEW c \in Links \cup {NoTable}
  PROVE  LET t == Rebuilt(__osPfsReadInode(c).inode)
         IN  t \in Links /\ Complete(osPfsChecker(c), Sealed(t))
<1> DEFINE read == __osPfsReadInode(c)
           B == Broken(read.inode)
           gone == Ascending(B)
           t == Rebuilt(read.inode)
           D == [i \in DOMAIN gone |-> Write("dir", gone[i], NoFile)]
<1>1. read.inode \in Links /\ Aside(read.todo)
  BY ReadType
<1>2. gone \in Seq(Slots)
  <2>1. B \in SUBSET (0..DirSize) /\ DirSize \in Nat /\ B \subseteq Slots
    BY Numbers DEF Broken
  <2> HIDE DEF B
  <2>2. gone \in Seq(B)
    BY <2>1, AscendingSeq
  <2> QED BY <2>1, <2>2, SeqMonotonic
<1>3. osPfsChecker(c) = read.todo \o D \o __osPfsWriteInode(t)
  BY DEF osPfsChecker
<1>4. t \in Links
  <2> DEFINE u == read.inode
  <2> HIDE DEF read
  <2>1. u \in Links
    BY <1>1
  <2> HIDE DEF u
  <2>2. Rebuilt(u) \in Links
    BY <2>1, RebuiltType
  <2> QED BY <2>2 DEF u
<1> HIDE DEF gone
<1>5. Aside(D)
  BY <1>2, DirWrites, Joined
<1> HIDE DEF D, t
<1>6. Aside(read.todo \o D)
  BY <1>1, <1>5, Joined
<1>7. Complete(__osPfsWriteInode(t), Sealed(t))
  BY <1>4, WriteInode
<1>8. Complete(read.todo \o D \o __osPfsWriteInode(t), Sealed(t))
  BY <1>6, <1>7, CompleteAfter
<1> QED BY <1>3, <1>4, <1>8 DEF t

\* A request that begins: its writes, and what it is.
LEMMA Begins ==
  ASSUME TypeInv, NEW k \in Kinds \ {"none"}, NEW n \in Names \cup {NoFile},
         NEW z \in Sizes \cup {0}, NEW b \in BOOLEAN, NEW W \in Seq(Writes),
         Start(k, n, z, b, W), k = "write" => n \in Names /\ z \in Sizes,
         cache' \in Links \cup {NoTable}, mounted' \in BOOLEAN, clean' \in BOOLEAN,
         saved' \in [Names -> Sizes \cup {0}]
  PROVE  TypeInv' /\ todo' = W /\ W # <<>> /\ op'.kind = k
<1>1. /\ op' = [kind |-> k, name |-> n, size |-> z, whole |-> b]
      /\ todo' = W /\ W # <<>> /\ disk' = disk /\ dir' = dir /\ content' = content
  BY DEF Start
<1>2. OpOK(op') /\ op'.kind = k /\ op' # NoOp
  BY <1>1, NoOpOK DEF OpOK, Ops
<1> QED BY <1>1, <1>2 DEF TypeInv

LEMMA InitStep ==
  ASSUME TypeInv, osPfsInit
  PROVE  /\ TypeInv' /\ clean' = clean /\ todo' # <<>>
         /\ \E t \in Links : Complete(todo', Sealed(t))
<1> DEFINE W == osPfsChecker(NoTable)
<1>0. disk \in [Copies -> Links] /\ NoTable \in Links \cup {NoTable}
  BY DEF TypeInv
<1>1. \E t \in Links : Complete(W, Sealed(t))
  BY <1>0, CheckerWrites
<1>2. W \in Seq(Writes)
  BY <1>1 DEF Complete
<1>3. Start("init", NoFile, 0, TRUE, W)
  BY DEF osPfsInit
<1>4. /\ cache' \in Links \cup {NoTable} /\ mounted' \in BOOLEAN /\ clean' = clean
      /\ clean' \in BOOLEAN /\ saved' \in [Names -> Sizes \cup {0}]
  BY ReadType DEF osPfsInit, TypeInv
<1> HIDE DEF W
<1>5. TypeInv' /\ todo' = W /\ W # <<>>
  BY <1>2, <1>3, <1>4, Begins DEF Kinds
<1> QED BY <1>1, <1>4, <1>5

LEMMA RepairStep ==
  ASSUME TypeInv, packRepair
  PROVE  /\ TypeInv' /\ clean' = clean /\ todo' # <<>>
         /\ \E t \in Links : Complete(todo', Sealed(t))
<1> DEFINE W == osPfsChecker(cache)
<1>0. disk \in [Copies -> Links] /\ cache \in Links \cup {NoTable}
  BY DEF TypeInv
<1>1. \E t \in Links : Complete(W, Sealed(t))
  BY <1>0, CheckerWrites
<1>2. W \in Seq(Writes)
  BY <1>1 DEF Complete
<1>3. Start("check", NoFile, 0, TRUE, W)
  BY DEF packRepair
<1>4. /\ cache' \in Links \cup {NoTable} /\ mounted' \in BOOLEAN /\ clean' = clean
      /\ clean' \in BOOLEAN /\ saved' \in [Names -> Sizes \cup {0}]
  BY <1>0, ReadType DEF packRepair, TypeInv
<1> HIDE DEF W
<1>5. TypeInv' /\ todo' = W /\ W # <<>>
  BY <1>2, <1>3, <1>4, Begins DEF Kinds
<1> QED BY <1>1, <1>4, <1>5

LEMMA FreeSpaceStep ==
  ASSUME TypeInv, packFreeSpace
  PROVE  TypeInv'
<1> DEFINE read == __osPfsReadInode(cache)
<1>1. /\ disk' = disk /\ dir' = dir /\ content' = content
      /\ mounted' = mounted /\ saved' = saved /\ clean' = clean
      /\ cache' = CacheAfter(read) /\ todo' = read.todo
      /\ op' = IF read.todo = <<>> THEN NoOp ELSE [NoOp EXCEPT !.kind = "read"]
  BY DEF packFreeSpace
<1>2. Aside(read.todo) /\ CacheAfter(read) \in Links \cup {NoTable}
  BY ReadType DEF TypeInv
<1>3. LET o == [NoOp EXCEPT !.kind = "read"] IN OpOK(o) /\ o # NoOp
  BY DEF OpOK, NoOp, Ops, Kinds
<1> HIDE DEF read
<1>4. OpOK(op') /\ (op' = NoOp) = (todo' = <<>>)
  BY <1>1, <1>3, NoOpOK
<1> QED BY <1>1, <1>2, <1>4 DEF TypeInv, Aside

LEMMA FormatStep ==
  ASSUME TypeInv, packFormat
  PROVE  /\ TypeInv' /\ clean' = clean /\ cache' = NoTable /\ todo' # <<>>
         /\ op'.kind = "format"
         /\ LET empty == [e \in Entries |-> IF e = 0 THEN 0 ELSE FREE]
            IN  empty \in Links /\ Complete(todo', Sealed(empty))
<1> DEFINE empty == [e \in Entries |-> IF e = 0 THEN 0 ELSE FREE]
           D == [s \in Slots |-> Write("dir", s, NoFile)]
           W == D \o __osPfsWriteInode(empty)
<1>1. empty \in Links
  <2>1. \A e \in Entries : empty[e] \in 0..255
    BY Numbers
  <2>2. \A p \in Pages : empty[p] \in Pages \cup {EOF, FREE}
    BY Numbers
  <2>3. empty \in [Entries -> 0..255]
    BY <2>1
  <2> HIDE DEF empty
  <2> QED BY <2>2, <2>3, LinksAre
<1>2. Start("format", NoFile, 0, TRUE, W)
  BY DEF packFormat
<1> HIDE DEF empty
<1>3. Aside(D)
  <2> DEFINE I == [s \in Slots |-> s]
  <2>1. I \in Seq(Slots) /\ DOMAIN I = Slots
    <3>1. I \in [1..DirSize -> Slots] /\ DirSize \in Nat
      BY Numbers
    <3> QED BY <3>1, SeqDef
  <2>2. D = [i \in DOMAIN I |-> Write("dir", I[i], NoFile)]
    BY <2>1
  <2> HIDE DEF D, I
  <2> QED BY <2>1, <2>2, DirWrites, Joined
<1> HIDE DEF D
<1>4. Complete(W, Sealed(empty))
  BY <1>1, <1>3, WriteInode, CompleteAfter
<1> HIDE DEF W
<1>5. W \in Seq(Writes)
  BY <1>4 DEF Complete
<1>6. /\ cache' = NoTable /\ mounted' = FALSE /\ clean' = clean /\ clean' \in BOOLEAN
      /\ saved' \in [Names -> Sizes \cup {0}]
  BY DEF packFormat, TypeInv
<1>7. TypeInv' /\ todo' = W /\ W # <<>> /\ op'.kind = "format"
  BY <1>2, <1>5, <1>6, Begins DEF Kinds
<1> QED BY <1>1, <1>4, <1>6, <1>7 DEF empty

LEMMA Listed ==
  ASSUME TypeInv, NEW s \in Slots, dir[s] # NoFile
  PROVE  dir[s] \in Entry /\ dir[s].name \in Names /\ dir[s].start \in Pages
BY DEF TypeInv, Entry

LEMMA WriteNewStep ==
  ASSUME TypeInv, NEW n \in Names, NEW z \in Sizes, NEW read,
         read = __osPfsReadInode(NoTable), WriteNew(n, z, read),
         cache' = CacheAfter(read), UNCHANGED <<mounted, saved, clean>>
  PROVE  /\ TypeInv' /\ todo' # <<>> /\ op'.kind = "write"
         /\ FirstFreeSlot \in FreeSlots
         /\ LET t == __osPfsDeclearPage(read.inode, z).inode
            IN  t \in Links /\ Complete(todo', Sealed(t))
<1> DEFINE got == __osPfsDeclearPage(read.inode, z)
           F == FirstFreeSlot
<1>1. read.inode \in Links /\ Aside(read.todo) /\ cache' \in Links \cup {NoTable}
  BY ReadType DEF TypeInv
<1>2. FreeSlots # {} /\ z \in Nat \ {0} /\ z <= Len(FreePages(read.inode))
  BY PakAssumption DEF WriteNew
<1>3. /\ got.inode \in Links /\ got.first \in Pages
      /\ got.pages \in Seq(Pages)
  BY <1>1, <1>2, DeclaredType
<1>f. F \in FreeSlots
  <2>1. FreeSlots \in SUBSET Nat /\ FreeSlots # {}
    BY <1>2, Numbers DEF FreeSlots
  <2>2. \E s \in FreeSlots : \A u \in FreeSlots : s <= u
    <3> DEFINE Less == {ij \in Nat \X Nat : ij[1] < ij[2]}
    <3>1. Less = OpToRel(<, Nat)
      BY Zenon DEF OpToRel
    <3>2. PICK i \in FreeSlots : \A j \in FreeSlots : ~(<<j, i>> \in Less)
      BY <2>1, <3>1, NatLessThanWellFounded, WFMin, Zenon
    <3>3. ASSUME NEW j \in FreeSlots PROVE i <= j
      <4>1. i \in Nat /\ j \in Nat /\ ~(<<j, i>> \in Less)
        BY <2>1, <3>2
      <4>2. <<j, i>> \in Nat \X Nat
        BY <4>1
      <4>3. ~(j < i)
        BY <4>1, <4>2
      <4> QED BY <4>1, <4>3
    <3> QED BY <3>3
  <2> QED BY <2>2 DEF FirstFreeSlot
<1>4. F \in Slots
  BY <1>f DEF FreeSlots
<1> DEFINE I == __osPfsWriteInode(got.inode)
           entry(b) == [name |-> n, start |-> got.first, occupied |-> b]
           W(b) == read.todo \o I \o <<Write("dir", F, entry(b))>>
                   \o DataWrites(got.pages, n) \o Occupy(F, entry(b))
<1>5. PICK b \in BOOLEAN : Start("write", n, z, TRUE, W(b))
  BY DEF WriteNew
<1>6. entry(b) \in Entry
  BY <1>3 DEF Entry
<1>7. Complete(I, Sealed(got.inode))
  BY <1>3, WriteInode
<1>8. NoTables(<<Write("dir", F, entry(b))>>)
  BY <1>4, <1>6, OneWrite
<1>9. NoTables(DataWrites(got.pages, n))
  BY <1>3, PageWrites
<1>10. NoTables(Occupy(F, entry(b)))
  BY <1>4, <1>6, OccupyWrites
<1> DEFINE S == Sealed(got.inode)
           B1 == <<Write("dir", F, entry(b))>>
           B2 == DataWrites(got.pages, n)
           B3 == Occupy(F, entry(b))
<1>11. W(b) = read.todo \o I \o B1 \o B2 \o B3
  OBVIOUS
<1> HIDE DEF I, B1, B2, B3, S, W
<1>12. Complete(read.todo \o I, S)
  BY <1>1, <1>7, CompleteAfter DEF S
<1>13. Complete(read.todo \o I \o B1, S)
  BY <1>8, <1>12, CompleteBefore DEF B1
<1>14. Complete(read.todo \o I \o B1 \o B2, S)
  BY <1>9, <1>13, CompleteBefore DEF B2
<1>15. Complete(read.todo \o I \o B1 \o B2 \o B3, S)
  BY <1>10, <1>14, CompleteBefore DEF B3
<1>16. Complete(W(b), S)
  BY <1>11, <1>15
<1>17. W(b) \in Seq(Writes)
  BY <1>16 DEF Complete
<1>18. mounted' \in BOOLEAN /\ clean' \in BOOLEAN /\ saved' \in [Names -> Sizes \cup {0}]
  BY DEF TypeInv
<1>19. TypeInv' /\ todo' = W(b) /\ W(b) # <<>> /\ op'.kind = "write"
  BY <1>1, <1>5, <1>17, <1>18, Begins DEF Kinds
<1> QED BY <1>3, <1>16, <1>19, <1>f DEF S

LEMMA LeastOfTwo ==
  ASSUME NEW z \in Nat, NEW l \in Nat
  PROVE  Min({z, l}) = IF z <= l THEN z ELSE l
<1>1. \E x \in {z, l} : \A y \in {z, l} : x <= y
  <2>1. z <= l \/ l <= z
    OBVIOUS
  <2> QED BY <2>1
<1>2. Min({z, l}) \in {z, l} /\ \A y \in {z, l} : Min({z, l}) <= y
  BY <1>1 DEF Min
<1> QED BY <1>2

\* The pages of a file that are written over.
LEMMA HereIs ==
  ASSUME NEW all \in Seq(Pages), NEW z \in Nat
  PROVE  LET here == SubSeq(all, 1, Min({z, Len(all)}))
         IN  /\ here \in Seq(Pages)
             /\ \A i \in 1..Len(here) : i \in 1..Len(all) /\ here[i] = all[i]
             /\ Len(here) = z => z <= Len(all) /\ \A i \in 1..z : all[i] = here[i]
<1> DEFINE l == Len(all)
           k == Min({z, l})
           here == SubSeq(all, 1, k)
<1>1. l \in Nat
  BY LenProperties
<1> HIDE DEF l
<1>2. k \in 0..l /\ k <= z
  BY <1>1, LeastOfTwo
<1> HIDE DEF k
<1>3. \A i \in 1..k : all[i] \in Pages
  BY <1>1, <1>2, ElementOfSeq DEF l
<1>4. /\ here \in Seq(Pages) /\ Len(here) = IF 1 <= k THEN k - 1 + 1 ELSE 0
      /\ \A i \in 1..(k - 1 + 1) : here[i] = all[1 + i - 1]
  BY <1>1, <1>2, <1>3, SubSeqProperties
<1>5. Len(here) = k /\ \A i \in 1..k : here[i] = all[i]
  BY <1>2, <1>4
<1> HIDE DEF here
<1>6. Len(here) = z => z <= l /\ \A i \in 1..z : all[i] = here[i]
  BY <1>1, <1>2, <1>5
<1>7. \A i \in 1..Len(here) : i \in 1..l /\ here[i] = all[i]
  BY <1>1, <1>2, <1>5
<1> QED BY <1>4, <1>6, <1>7 DEF here, k, l

LEMMA PagesHere ==
  ASSUME NEW read, NEW p \in Pages, NEW z \in Sizes
  PROVE  LET all == Walk(read.inode, p)
         IN  (IF read.ok THEN SubSeq(all, 1, Min({z, Len(all)})) ELSE <<p>>) \in Seq(Pages)
<1> DEFINE all == Walk(read.inode, p)
           here == SubSeq(all, 1, Min({z, Len(all)}))
<1>1. all \in Seq(Pages) /\ z \in Nat
  BY WalkType, PakAssumption
<1>2. here \in Seq(Pages)
  <2> HIDE DEF all
  <2> QED BY <1>1, HereIs
<1>3. <<p>> \in Seq(Pages)
  OBVIOUS
<1> QED BY <1>2, <1>3

LEMMA WriteOverStep ==
  ASSUME TypeInv, NEW n \in Names, NEW z \in Sizes, NEW read,
         read = __osPfsReadInode(NoTable), WriteOver(n, z, read),
         cache' = CacheAfter(read), UNCHANGED <<mounted, saved, clean>>
  PROVE  /\ TypeInv' /\ todo' # <<>> /\ op'.kind = "write"
         /\ \E B : NoTables(B) /\ todo' = read.todo \o B
<1>1. PICK s \in SlotOf(n) :
        LET all   == Walk(read.inode, dir[s].start)
            here  == IF read.ok THEN SubSeq(all, 1, Min({z, Len(all)})) ELSE <<dir[s].start>>
            whole == Len(here) = z
        IN  Start("write", n, z, whole,
                  read.todo \o DataWrites(here, n) \o (IF whole THEN Occupy(s, dir[s]) ELSE <<>>))
  BY DEF WriteOver
<1> DEFINE all   == Walk(read.inode, dir[s].start)
           here  == IF read.ok THEN SubSeq(all, 1, Min({z, Len(all)})) ELSE <<dir[s].start>>
           whole == Len(here) = z
           B1 == DataWrites(here, n)
           B2 == IF whole THEN Occupy(s, dir[s]) ELSE <<>>
<1>2. s \in Slots /\ dir[s] # NoFile /\ dir[s] \in Entry /\ dir[s].start \in Pages
  BY Listed DEF SlotOf
<1>3. here \in Seq(Pages)
  BY <1>2, PagesHere
<1> HIDE DEF here
<1>4. NoTables(B1) /\ NoTables(B2)
  <2>1. NoTables(Occupy(s, dir[s]))
    BY <1>2, OccupyWrites
  <2>2. NoTables(<<>>)
    BY DEF NoTables
  <2> QED BY <1>3, <2>1, <2>2, PageWrites
<1> DEFINE W == read.todo \o B1 \o B2
<1>5. Start("write", n, z, whole, W)
  BY <1>1 DEF here
<1>6. Aside(read.todo) /\ cache' \in Links \cup {NoTable}
  BY ReadType DEF TypeInv
<1> HIDE DEF B1, B2
<1>7. Aside(W) /\ NoTables(B1 \o B2)
  BY <1>4, <1>6, Joined
<1>8. W = read.todo \o (B1 \o B2)
  <2> DEFINE R == read.todo
  <2>1. R \in Seq(Writes) /\ B1 \in Seq(Writes) /\ B2 \in Seq(Writes)
    BY <1>4, <1>6 DEF Aside, NoTables
  <2>2. W = R \o B1 \o B2
    OBVIOUS
  <2> HIDE DEF R, W
  <2>3. (R \o B1) \o B2 = R \o (B1 \o B2)
    BY <2>1, ConcatAssociative
  <2> QED BY <2>2, <2>3 DEF R
<1> HIDE DEF W
<1>9. mounted' \in BOOLEAN /\ clean' \in BOOLEAN /\ saved' \in [Names -> Sizes \cup {0}]
  BY DEF TypeInv
<1>10. whole \in BOOLEAN /\ W \in Seq(Writes)
  BY <1>7 DEF Aside
<1> HIDE DEF whole
<1>11. TypeInv' /\ todo' = W /\ W # <<>> /\ op'.kind = "write"
  BY <1>5, <1>6, <1>9, <1>10, Begins DEF Kinds
<1> QED BY <1>7, <1>8, <1>11

LEMMA DeleteStep ==
  ASSUME TypeInv, NEW s \in Slots, packDeleteFile(s)
  PROVE  /\ TypeInv' /\ clean' = clean /\ todo' # <<>>
         /\ LET t == __osPfsReleasePages(__osPfsReadInode(NoTable).inode, dir[s].start).inode
            IN  t \in Links /\ Complete(todo', Sealed(t))
<1> DEFINE read == __osPfsReadInode(NoTable)
           freed == __osPfsReleasePages(read.inode, dir[s].start)
           I == __osPfsWriteInode(freed.inode)
           B == IF Ends(read.inode, dir[s].start) THEN <<Write("dir", s, NoFile)>> ELSE <<>>
           W == read.todo \o I \o B
<1>1. /\ dir[s] # NoFile /\ Start("delete", dir[s].name, 0, TRUE, W)
      /\ cache' = CacheAfter(read) /\ saved' = [saved EXCEPT ![dir[s].name] = 0]
      /\ mounted' = mounted /\ clean' = clean
  BY DEF packDeleteFile
<1>2. dir[s].name \in Names
  BY <1>1, Listed
<1>3. read.inode \in Links /\ Aside(read.todo) /\ cache' \in Links \cup {NoTable}
  BY <1>1, ReadType DEF TypeInv
<1> HIDE DEF read
<1>4. freed.inode \in Links
  BY <1>3, ReleasedType
<1> HIDE DEF freed
<1>5. NoTables(B)
  <2>1. NoTables(<<Write("dir", s, NoFile)>>) /\ NoTables(<<>>)
    BY OneWrite DEF NoTables
  <2> QED BY <2>1
<1> HIDE DEF B
<1>6. Complete(W, Sealed(freed.inode))
  <2>1. Complete(I, Sealed(freed.inode))
    BY <1>4, WriteInode
  <2> HIDE DEF I
  <2>2. Complete(read.todo \o I, Sealed(freed.inode))
    BY <1>3, <2>1, CompleteAfter
  <2> QED BY <1>5, <2>2, CompleteBefore
<1> HIDE DEF W
<1>7. W \in Seq(Writes)
  BY <1>6 DEF Complete
<1>8. /\ saved' \in [Names -> Sizes \cup {0}]
      /\ mounted' \in BOOLEAN /\ clean' \in BOOLEAN
  BY <1>1 DEF TypeInv
<1>9. TypeInv' /\ todo' = W /\ W # <<>>
  BY <1>1, <1>2, <1>3, <1>7, <1>8, Begins DEF Kinds
<1> QED BY <1>1, <1>4, <1>6, <1>9 DEF freed, read

-----------------------------------------------------------------------------
(* The writes, one by one.                                                 *)

LEMMA HeadTail ==
  ASSUME NEW W \in Seq(Writes), W # <<>>
  PROVE  /\ Head(W) \in Writes /\ Tail(W) \in Seq(Writes) /\ Len(W) \in Nat \ {0}
         /\ Len(Tail(W)) = Len(W) - 1 /\ Head(W) = W[1]
         /\ \A k \in 1..Len(Tail(W)) : Tail(W)[k] = W[k + 1]
BY HeadTailProperties, LenProperties

\* A table with one block of another.
Blend(t, u, b) == [e \in Entries |-> IF e \div EntriesPerBlock = b THEN u[e] ELSE t[e]]

LEMMA BlendType ==
  ASSUME NEW t \in Links, NEW u \in Links, NEW b
  PROVE  Blend(t, u, b) \in Links
<1> DEFINE v == [e \in Entries |-> IF e \div EntriesPerBlock = b THEN u[e] ELSE t[e]]
<1>1. \A e \in Entries : v[e] \in {u[e], t[e]}
  OBVIOUS
<1>2. \A e \in Entries : v[e] \in 0..255
  BY <1>1, LinksAre
<1>3. \A p \in Pages : v[p] \in Pages \cup {EOF, FREE}
  BY <1>1, Numbers, LinksAre
<1>4. v \in [Entries -> 0..255]
  BY <1>2
<1> HIDE DEF v
<1>5. v \in Links
  BY <1>3, <1>4, LinksAre
<1> QED BY <1>5 DEF v, Blend

\* What a block written does to the tables.
LEMMA InodeIs ==
  ASSUME disk \in [Copies -> Links], NEW w \in Writes, Inode(w)
  PROVE  LET c == IF w.to = "minode" THEN "minode" ELSE "inode"
         IN  disk' = [disk EXCEPT ![c] = Blend(disk[c], w.val, w.at)]
BY DEF Inode, Blend, Copies

LEMMA WrittenType ==
  ASSUME TypeInv, __osContRamWrite
  PROVE  TypeInv'
<1> DEFINE w == Head(todo)
<1>1. /\ w \in Writes /\ Tail(todo) \in Seq(Writes) /\ todo # <<>>
      /\ todo' = Tail(todo)
  BY HeadTail DEF __osContRamWrite, TypeInv
<1>2. /\ CASE w.to = "dir"  -> dir' = [dir EXCEPT ![w.at] = w.val] /\ UNCHANGED <<disk, content>>
           [] w.to = "page" -> content' = [content EXCEPT ![w.at] = w.val] /\ UNCHANGED <<disk, dir>>
           [] OTHER         -> Inode(w) /\ UNCHANGED <<dir, content>>
      /\ CacheStep(w)
      /\ IF Tail(todo) = <<>> THEN Finish ELSE UNCHANGED <<op, mounted, saved, clean>>
  BY DEF __osContRamWrite
<1> HIDE DEF w
<1>3. /\ disk' \in [Copies -> Links]
      /\ dir' \in [Slots -> Entry \cup {NoFile}]
      /\ content' \in [Pages -> Names \cup {NoFile}]
  <2>0. /\ disk \in [Copies -> Links]
        /\ dir \in [Slots -> Entry \cup {NoFile}]
        /\ content \in [Pages -> Names \cup {NoFile}]
    BY DEF TypeInv
  <2>1. CASE w.to = "dir"
    <3>1. dir' = [dir EXCEPT ![w.at] = w.val] /\ disk' = disk /\ content' = content
      BY <1>2, <2>1
    <3>2. w.val \in Entry \cup {NoFile}
      BY <1>1, <2>1, WriteKinds
    <3> QED BY <2>0, <3>1, <3>2
  <2>2. CASE w.to = "page"
    <3>1. content' = [content EXCEPT ![w.at] = w.val] /\ disk' = disk /\ dir' = dir
      BY <1>2, <2>2
    <3>2. w.val \in Names
      BY <1>1, <2>2, WriteKinds
    <3> QED BY <2>0, <3>1, <3>2
  <2>3. CASE w.to # "dir" /\ w.to # "page"
    <3>1. Inode(w) /\ dir' = dir /\ content' = content
      BY <1>2, <2>3
    <3>2. w.val \in Links
      BY <1>1, <2>3, WriteKinds DEF Copies
    <3> DEFINE c == IF w.to = "minode" THEN "minode" ELSE "inode"
    <3>3. disk' = [disk EXCEPT ![c] = Blend(disk[c], w.val, w.at)] /\ c \in Copies
      BY <1>1, <2>0, <3>1, InodeIs DEF Copies
    <3> HIDE DEF c
    <3>4. Blend(disk[c], w.val, w.at) \in Links
      BY <2>0, <3>2, <3>3, BlendType
    <3> QED BY <2>0, <3>1, <3>3, <3>4
  <2> QED BY <2>1, <2>2, <2>3
<1>4. cache' \in Links \cup {NoTable}
  <2>1. w.to = "minode" => w.val \in Links
    BY <1>1, WriteKinds DEF Copies
  <2> QED BY <1>2, <2>1 DEF CacheStep, TypeInv
<1>5. /\ mounted' \in BOOLEAN /\ clean' \in BOOLEAN /\ OpOK(op')
      /\ (op' = NoOp) = (todo' = <<>>)
      /\ saved' \in [Names -> Sizes \cup {0}]
  <2>1. CASE Tail(todo) = <<>>
    <3>1. Finish
      BY <1>2, <2>1
    <3>2. saved' \in [Names -> Sizes \cup {0}]
      BY <3>1 DEF Finish, TypeInv, OpOK
    <3> QED BY <1>1, <2>1, <3>1, <3>2, NoOpOK DEF Finish, TypeInv
  <2>2. CASE Tail(todo) # <<>>
    BY <1>1, <1>2, <2>2 DEF TypeInv
  <2> QED BY <2>1, <2>2
<1> QED BY <1>1, <1>3, <1>4, <1>5 DEF TypeInv

LEMMA LostType ==
  ASSUME TypeInv, InodeWriteLost
  PROVE  TypeInv'
<1>1. /\ Tail(todo) \in Seq(Writes) /\ todo # <<>> /\ todo' = Tail(todo)
      /\ UNCHANGED <<disk, dir, content, cache>>
      /\ IF Tail(todo) = <<>> THEN Finish ELSE UNCHANGED <<op, mounted, saved, clean>>
  BY HeadTail DEF InodeWriteLost, TypeInv
<1>2. /\ mounted' \in BOOLEAN /\ clean' \in BOOLEAN /\ OpOK(op')
      /\ (op' = NoOp) = (todo' = <<>>)
      /\ saved' \in [Names -> Sizes \cup {0}]
  <2>1. CASE Tail(todo) = <<>>
    <3>1. Finish
      BY <1>1, <2>1
    <3>2. saved' \in [Names -> Sizes \cup {0}]
      BY <3>1 DEF Finish, TypeInv, OpOK
    <3> QED BY <1>1, <2>1, <3>1, <3>2, NoOpOK DEF Finish, TypeInv
  <2>2. CASE Tail(todo) # <<>>
    BY <1>1, <2>2 DEF TypeInv
  <2> QED BY <2>1, <2>2
<1> QED BY <1>1, <1>2 DEF TypeInv

LEMMA FailsType ==
  ASSUME TypeInv, WriteFails
  PROVE  TypeInv'
<1>1. <<>> \in Seq(Writes)
  OBVIOUS
<1> QED BY <1>1, NoOpOK DEF WriteFails, TypeInv

LEMMA PowerType ==
  ASSUME TypeInv, PowerLoss
  PROVE  TypeInv'
<1>1. <<>> \in Seq(Writes)
  OBVIOUS
<1> QED BY <1>1, NoOpOK DEF PowerLoss, TypeInv

LEMMA SaveStep ==
  ASSUME TypeInv, NEW n \in Names, NEW z \in Sizes, packWriteFile(n, z)
  PROVE  TypeInv'
<1> DEFINE read == __osPfsReadInode(NoTable)
<1>1. /\ WriteNew(n, z, read) \/ WriteOver(n, z, read)
      /\ cache' = CacheAfter(read) /\ UNCHANGED <<mounted, saved, clean>>
  BY DEF packWriteFile
<1> HIDE DEF read
<1>2. read = __osPfsReadInode(NoTable)
  BY DEF read
<1> QED BY <1>1, <1>2, WriteNewStep, WriteOverStep

LEMMA EmptyTable ==
  [e \in Entries |-> IF e = 0 THEN 0 ELSE FREE] \in Links
<1> DEFINE empty == [e \in Entries |-> IF e = 0 THEN 0 ELSE FREE]
<1>1. \A e \in Entries : empty[e] \in 0..255
  BY Numbers
<1>2. \A p \in Pages : empty[p] \in Pages \cup {EOF, FREE}
  BY Numbers
<1>3. empty \in [Entries -> 0..255]
  BY <1>1
<1> HIDE DEF empty
<1>4. empty \in Links
  BY <1>2, <1>3, LinksAre
<1> QED BY <1>4 DEF empty

LEMMA InitType ==
  ASSUME Init
  PROVE  TypeInv
<1> DEFINE t == [e \in Entries |-> IF e = 0 THEN 0 ELSE FREE]
<1>1. Sealed(t) \in Links
  BY EmptyTable, SealedOK
<1>2. disk = [c \in Copies |-> Sealed(t)]
  BY DEF Init, Copies
<1> HIDE DEF t
<1>3. disk \in [Copies -> Links]
  BY <1>1, <1>2
<1>4. /\ dir \in [Slots -> Entry \cup {NoFile}]
      /\ content \in [Pages -> Names \cup {NoFile}]
      /\ saved \in [Names -> Sizes \cup {0}]
  BY DEF Init
<1>5. /\ cache \in Links \cup {NoTable} /\ mounted \in BOOLEAN /\ clean \in BOOLEAN
      /\ op = NoOp /\ todo = <<>>
  BY DEF Init
<1>6. todo \in Seq(Writes)
  BY <1>5
<1>7. OpOK(op)
  BY <1>5, NoOpOK
<1> QED BY <1>3, <1>4, <1>5, <1>6, <1>7 DEF TypeInv

LEMMA NextType ==
  ASSUME TypeInv, [Next]_vars
  PROVE  TypeInv'
<1>1. CASE osPfsInit
  BY <1>1, InitStep
<1>2. CASE packRepair
  BY <1>2, RepairStep
<1>3. CASE packFreeSpace
  BY <1>3, FreeSpaceStep
<1>4. CASE packFormat
  BY <1>4, FormatStep
<1>5. ASSUME NEW n \in Names, NEW z \in Sizes, packWriteFile(n, z) PROVE TypeInv'
  BY <1>5, SaveStep
<1>6. ASSUME NEW s \in Slots, packDeleteFile(s) PROVE TypeInv'
  BY <1>6, DeleteStep
<1>7. CASE __osContRamWrite
  BY <1>7, WrittenType
<1>8. CASE InodeWriteLost
  BY <1>8, LostType
<1>9. CASE WriteFails
  BY <1>9, FailsType
<1>10. CASE PowerLoss
  BY <1>10, PowerType
<1>11. CASE UNCHANGED vars
  BY <1>11 DEF TypeInv, vars
<1> QED BY <1>1, <1>2, <1>3, <1>4, <1>5, <1>6, <1>7, <1>8, <1>9, <1>10, <1>11 DEF Next

LEMMA TypesHold == Spec => []TypeInv
<1>1. Init => TypeInv
  BY InitType
<1>2. TypeInv /\ [Next]_vars => TypeInv'
  BY NextType
<1> QED BY <1>1, <1>2, PTL DEF Spec

LEMMA TypeInvOK == TypeInv => TypeOK
<1> SUFFICES ASSUME TypeInv PROVE TypeOK
  OBVIOUS
<1>1. disk \in [{"inode", "minode"} -> Table]
  BY DEF TypeInv, Copies, Links
<1>2. \A c \in {"inode", "minode"}, p \in Pages : disk[c][p] \in Pages \cup {EOF, FREE}
  BY DEF TypeInv, Copies, Links
<1>3. cache = NoTable \/ cache \in Table
  BY DEF TypeInv, Links
<1>4. op.kind \in {"none", "init", "check", "read", "write", "delete", "format"}
  BY DEF TypeInv, OpOK, Ops, Kinds
<1>5. (op = NoOp) = Idle
  BY DEF TypeInv, Idle
<1> QED BY <1>1, <1>2, <1>3, <1>4, <1>5 DEF TypeOK, TypeInv

\* The type of every variable; whatever is torn, a page's entry of a table
\* leads to a page or is PFS_EOF or PFS_PAGE_NOT_USED.
THEOREM PakTypes == Spec => []TypeOK
BY TypesHold, TypeInvOK, PTL

-----------------------------------------------------------------------------
(* Where the tables are heading.                                           *)

\* Some write from k on puts block b of copy c on the pak.
Pending(W, k, c, b) == \E m \in k..Len(W) : W[m].to = c /\ W[m].at = b
Agree(t, u, b) == \A e \in Entries : e \div EntriesPerBlock = b => t[e] = u[e]
BlockNos == 0..(Blocks - 1)

\* Once the writes W of a request of kind k are done, both copies are S: every
\* block of a copy d is S already or is still to be written, also after a
\* mirror copied back, and so is the cached table c.
Heads(S, d, W, c, k) ==
  /\ S \in Links /\ SumOK(S)
  /\ \A i \in 1..Len(W) : W[i].to \in Copies => W[i].val = S
  /\ \A x \in Copies, b \in BlockNos : Pending(W, 1, x, b) \/ Agree(d[x], S, b)
  /\ \A i \in 1..Len(W) : W[i].to = "restore" =>
       \A x \in Copies, b \in BlockNos : Pending(W, i + 1, x, b)
  /\ c = NoTable \/ c = S \/ (k # "format" /\ Pending(W, 1, "minode", Blocks - 1))

LEMMA CompleteHeads ==
  ASSUME NEW S \in Links, SumOK(S), NEW W, Complete(W, S), NEW d, NEW c, NEW k,
         k = "format" => c = NoTable
  PROVE  Heads(S, d, W, c, k)
<1>1. W \in Seq(Writes) /\ Len(W) \in Nat
  BY LenProperties DEF Complete
<1>2. ASSUME NEW x \in Copies, NEW b \in BlockNos, NEW i \in 0..Len(W),
             i = 0 \/ W[i].to = "restore"
      PROVE  Pending(W, i + 1, x, b)
  <2>1. PICK m \in 1..Len(W) : /\ W[m].to = x /\ W[m].at = b
                               /\ \A j \in m..Len(W) : W[j].to # "restore"
    BY DEF Complete, BlockNos
  <2>2. i < m
    BY <1>1, <1>2, <2>1
  <2>3. m \in (i + 1)..Len(W)
    BY <1>1, <2>2
  <2> QED BY <2>1, <2>3 DEF Pending
<1>3. \A x \in Copies, b \in BlockNos : Pending(W, 1, x, b)
  <2>1. 0 \in 0..Len(W) /\ 0 + 1 = 1
    BY <1>1
  <2> QED BY <1>2, <2>1
<1>4. \A i \in 1..Len(W) : W[i].to = "restore" =>
        \A x \in Copies, b \in BlockNos : Pending(W, i + 1, x, b)
  BY <1>1, <1>2
<1>5. "minode" \in Copies /\ Blocks - 1 \in BlockNos
  BY BlocksAre DEF Copies, BlockNos
<1> QED BY <1>3, <1>4, <1>5 DEF Heads, Complete

\* Nothing left to write of the tables.
LEMMA SettledHeads ==
  ASSUME NEW S \in Links, SumOK(S), NEW W, NoTables(W), NEW d,
         d["inode"] = S, d["minode"] = S, NEW c, c = NoTable \/ c = S, NEW k
  PROVE  Heads(S, d, W, c, k)
<1>1. \A x \in Copies, b \in BlockNos : Agree(d[x], S, b)
  BY DEF Agree, Copies
<1>2. \A i \in 1..Len(W) : W[i].to \notin Copies /\ W[i].to # "restore"
  BY DEF NoTables, Copies
<1> QED BY <1>1, <1>2 DEF Heads

LEMMA HeadsSettled ==
  ASSUME NEW S, NEW d \in [Copies -> Links], NEW c, NEW k, Heads(S, d, <<>>, c, k)
  PROVE  d["inode"] = S /\ d["minode"] = S /\ (c = NoTable \/ c = S)
<1>1. \A x, b : ~Pending(<<>>, 1, x, b)
  BY DEF Pending
<1>2. S \in Links /\ \A x \in Copies, b \in BlockNos : Agree(d[x], S, b)
  BY <1>1 DEF Heads
<1>3. ASSUME NEW x \in Copies PROVE d[x] = S
  <2>1. \A e \in Entries : d[x][e] = S[e]
    BY <1>2, BlocksAre DEF Agree, BlockNos
  <2>2. d[x] \in [Entries -> 0..255] /\ S \in [Entries -> 0..255]
    BY <1>2, LinksAre
  <2> QED BY <2>1, <2>2
<1> QED BY <1>1, <1>3 DEF Heads, Copies

\* The first write is done or, unless it is one of a table, fails unseen.
LEMMA PendingTail ==
  ASSUME NEW W \in Seq(Writes), W # <<>>, NEW x, NEW b
  PROVE  /\ \A i \in 1..Len(Tail(W)) : Pending(W, i + 2, x, b) => Pending(Tail(W), i + 1, x, b)
         /\ Pending(W, 2, x, b) => Pending(Tail(W), 1, x, b)
         /\ Pending(W, 1, x, b) =>
              (Head(W).to = x /\ Head(W).at = b) \/ Pending(Tail(W), 1, x, b)
<1> DEFINE V == Tail(W)
<1>1. /\ V \in Seq(Writes) /\ Len(W) \in Nat \ {0} /\ Len(V) = Len(W) - 1
      /\ Head(W) = W[1] /\ \A k \in 1..Len(V) : V[k] = W[k + 1]
  BY HeadTail
<1> HIDE DEF V
<1>2. ASSUME NEW i \in Nat, Pending(W, i + 2, x, b)
      PROVE  Pending(V, i + 1, x, b)
  <2>1. PICK m \in (i + 2)..Len(W) : W[m].to = x /\ W[m].at = b
    BY <1>2 DEF Pending
  <2>2. m - 1 \in (i + 1)..Len(V) /\ m - 1 \in 1..Len(V) /\ V[m - 1] = W[m]
    BY <1>1
  <2> QED BY <2>1, <2>2 DEF Pending
<1>3. Pending(W, 2, x, b) => Pending(V, 1, x, b)
  <2>1. 0 \in Nat /\ 0 + 2 = 2 /\ 0 + 1 = 1
    OBVIOUS
  <2> QED BY <1>2, <2>1
<1>4. ASSUME Pending(W, 1, x, b)
      PROVE  (Head(W).to = x /\ Head(W).at = b) \/ Pending(W, 2, x, b)
  <2>1. PICK m \in 1..Len(W) : W[m].to = x /\ W[m].at = b
    BY <1>4 DEF Pending
  <2>2. m = 1 \/ m \in 2..Len(W)
    BY <1>1
  <2> QED BY <1>1, <2>1, <2>2 DEF Pending
<1>5. \A i \in 1..Len(V) : i \in Nat
  BY <1>1
<1> QED BY <1>2, <1>3, <1>4, <1>5 DEF V

\* What is left of the plan but for the copies and the cache.
LEMMA RestTail ==
  ASSUME NEW S, NEW d, NEW c, NEW k, NEW W \in Seq(Writes), W # <<>>, Heads(S, d, W, c, k)
  PROVE  /\ \A i \in 1..Len(Tail(W)) : Tail(W)[i].to \in Copies => Tail(W)[i].val = S
         /\ \A i \in 1..Len(Tail(W)) : Tail(W)[i].to = "restore" =>
              \A x \in Copies, b \in BlockNos : Pending(Tail(W), i + 1, x, b)
         /\ Head(W).to \in Copies => Head(W).val = S
         /\ Head(W).to = "restore" =>
              \A x \in Copies, b \in BlockNos : Pending(Tail(W), 1, x, b)
<1> DEFINE V == Tail(W)
<1>1. /\ V \in Seq(Writes) /\ Len(W) \in Nat \ {0} /\ Len(V) = Len(W) - 1
      /\ Head(W) = W[1] /\ \A i \in 1..Len(V) : V[i] = W[i + 1]
  BY HeadTail
<1>2. /\ \A x, b : \A i \in 1..Len(V) : Pending(W, i + 2, x, b) => Pending(V, i + 1, x, b)
      /\ \A x, b : Pending(W, 2, x, b) => Pending(V, 1, x, b)
  BY PendingTail
<1> HIDE DEF V
<1>3. \A i \in 1..Len(V) : i + 1 \in 1..Len(W) /\ i + 1 + 1 = i + 2
  BY <1>1
<1>4. \A i \in 1..Len(V) : V[i].to \in Copies => V[i].val = S
  BY <1>1, <1>3 DEF Heads
<1>5. ASSUME NEW i \in 1..Len(V), V[i].to = "restore", NEW x \in Copies, NEW b \in BlockNos
      PROVE  Pending(V, i + 1, x, b)
  <2>1. W[i + 1].to = "restore" /\ i + 1 \in 1..Len(W)
    BY <1>1, <1>3, <1>5
  <2>2. Pending(W, i + 1 + 1, x, b)
    BY <2>1 DEF Heads
  <2> QED BY <1>2, <1>3, <2>2
<1>6. 1 \in 1..Len(W) /\ 1 + 1 = 2
  BY <1>1
<1>7. Head(W).to = "restore" => \A x \in Copies, b \in BlockNos : Pending(V, 1, x, b)
  BY <1>1, <1>2, <1>6 DEF Heads
<1>8. Head(W).to \in Copies => Head(W).val = S
  BY <1>1, <1>6 DEF Heads
<1> QED BY <1>4, <1>5, <1>7, <1>8 DEF V

LEMMA AsideHeads ==
  ASSUME NEW S, NEW d, NEW c, NEW k, NEW W \in Seq(Writes), W # <<>>, Heads(S, d, W, c, k),
         Head(W).to \notin Copies, NEW f, f = d \/ Head(W).to = "restore"
  PROVE  Heads(S, f, Tail(W), c, k)
<1>1. \A x \in Copies, b \in BlockNos : Pending(W, 1, x, b) => Pending(Tail(W), 1, x, b)
  BY PendingTail
<1>2. \A x \in Copies, b \in BlockNos : Pending(Tail(W), 1, x, b) \/ Agree(f[x], S, b)
  BY <1>1, RestTail DEF Heads
<1>3. "minode" \in Copies /\ Blocks - 1 \in BlockNos
  BY BlocksAre DEF Copies, BlockNos
<1>4. c = NoTable \/ c = S \/ (k # "format" /\ Pending(Tail(W), 1, "minode", Blocks - 1))
  BY <1>1, <1>3 DEF Heads
<1>5. S \in Links /\ SumOK(S)
  BY DEF Heads
<1>6. /\ \A i \in 1..Len(Tail(W)) : Tail(W)[i].to \in Copies => Tail(W)[i].val = S
      /\ \A i \in 1..Len(Tail(W)) : Tail(W)[i].to = "restore" =>
           \A x \in Copies, b \in BlockNos : Pending(Tail(W), i + 1, x, b)
  BY RestTail
<1> QED BY <1>2, <1>4, <1>5, <1>6 DEF Heads

LEMMA CopyHeads ==
  ASSUME NEW S, NEW d \in [Copies -> Links], NEW c, NEW k, NEW W \in Seq(Writes), W # <<>>,
         Heads(S, d, W, c, k), Head(W).to \in Copies, NEW f,
         f = [d EXCEPT ![Head(W).to] = Blend(d[Head(W).to], Head(W).val, Head(W).at)],
         NEW h, h = (IF Head(W).to = "minode" /\ Head(W).at = Blocks - 1 /\ k # "format"
                     THEN Head(W).val ELSE c)
  PROVE  Heads(S, f, Tail(W), h, k)
<1> DEFINE w == Head(W)
<1>1. w.to \in Copies /\ w.val = S /\ S \in Links /\ SumOK(S)
  BY RestTail DEF Heads
<1>2. \A x, b : Pending(W, 1, x, b) => (w.to = x /\ w.at = b) \/ Pending(Tail(W), 1, x, b)
  BY PendingTail
<1>3. f = [d EXCEPT ![w.to] = Blend(d[w.to], S, w.at)]
  BY <1>1
<1>4. h = IF w.to = "minode" /\ w.at = Blocks - 1 /\ k # "format" THEN S ELSE c
  BY <1>1
<1>s. /\ \A i \in 1..Len(Tail(W)) : Tail(W)[i].to \in Copies => Tail(W)[i].val = S
      /\ \A i \in 1..Len(Tail(W)) : Tail(W)[i].to = "restore" =>
           \A x \in Copies, b \in BlockNos : Pending(Tail(W), i + 1, x, b)
  BY RestTail
<1> HIDE DEF w
<1>5. ASSUME NEW x \in Copies, NEW b \in BlockNos
      PROVE  Pending(Tail(W), 1, x, b) \/ Agree(f[x], S, b)
  <2>1. CASE Pending(W, 1, x, b) /\ ~(w.to = x /\ w.at = b)
    BY <1>2, <2>1
  <2>2. CASE w.to = x /\ w.at = b
    <3>1. f[x] = Blend(d[x], S, b)
      BY <1>3, <2>2
    <3>2. \A e \in Entries : e \div EntriesPerBlock = b => f[x][e] = S[e]
      BY <3>1 DEF Blend
    <3> QED BY <3>2 DEF Agree
  <2>3. CASE ~Pending(W, 1, x, b)
    <3>1. Agree(d[x], S, b)
      BY <2>3 DEF Heads
    <3>2. f[x] = d[x] \/ f[x] = Blend(d[x], S, w.at)
      BY <1>3
    <3>3. \A e \in Entries : f[x][e] = d[x][e] \/ f[x][e] = S[e]
      BY <3>2 DEF Blend
    <3> QED BY <3>1, <3>3 DEF Agree
  <2> QED BY <2>1, <2>2, <2>3
<1>6. h = NoTable \/ h = S \/ (k # "format" /\ Pending(Tail(W), 1, "minode", Blocks - 1))
  <2>1. c = NoTable \/ c = S \/ (k # "format" /\ Pending(W, 1, "minode", Blocks - 1))
    BY DEF Heads
  <2> QED BY <1>2, <1>4, <2>1
<1> QED BY <1>1, <1>5, <1>6, <1>s DEF Heads

-----------------------------------------------------------------------------
(* A checked pak: both copies are one table, and so is the cache.          *)

\* Checked, or about to be.
Settling(o, cl) == cl \/ o.kind \in {"init", "check"}
TablesInv == Settling(op, clean) => \E S : Heads(S, disk, todo, cache, op.kind)

\* A write to the first copy is never lost unseen, other than by a format,
\* which looks at the result.
FirstCopyWritten == \A k \in Kinds \ {"format"} : <<k, "inode">> \notin FailsAt

LEMMA PlannedHeads ==
  ASSUME NEW t \in Links, Complete(todo', Sealed(t)), op'.kind = "format" => cache' = NoTable
  PROVE  Heads(Sealed(t), disk', todo', cache', op'.kind)
<1> DEFINE S == Sealed(t)
<1>2. S \in Links /\ SumOK(S)
  BY SealedOK
<1> HIDE DEF S
<1>3. Complete(todo', S)
  BY DEF S
<1>4. Heads(S, disk', todo', cache', op'.kind)
  BY <1>2, <1>3, CompleteHeads
<1> QED BY <1>4 DEF S

LEMMA PlannedTables ==
  ASSUME \E t \in Links : Complete(todo', Sealed(t)), op'.kind = "format" => cache' = NoTable
  PROVE  TablesInv'
BY PlannedHeads DEF TablesInv

\* A clean pak that is read gives the table of both copies.
LEMMA CleanRead ==
  ASSUME TypeInv, NEW S, Heads(S, disk, todo, cache, op.kind), todo = <<>>,
         NEW c, c = NoTable \/ c = S
  PROVE  /\ disk["inode"] = S /\ disk["minode"] = S /\ S \in Links /\ SumOK(S)
         /\ cache = NoTable \/ cache = S
         /\ __osPfsReadInode(c).todo = <<>>
         /\ CacheAfter(__osPfsReadInode(c)) = S
<1>1. /\ disk["inode"] = S /\ disk["minode"] = S /\ (cache = NoTable \/ cache = S)
  <2>1. disk \in [Copies -> Links] /\ Heads(S, disk, <<>>, cache, op.kind)
    BY DEF TypeInv
  <2> QED BY <2>1, HeadsSettled
<1>2. S \in Links /\ SumOK(S)
  BY DEF Heads
<1> QED BY <1>1, <1>2 DEF __osPfsReadInode, CacheAfter

LEMMA TailHeads ==
  ASSUME TypeInv, todo # <<>>, todo' = Tail(todo), NEW S,
         Heads(S, disk', Tail(todo), cache', op.kind),
         IF Tail(todo) = <<>> THEN Finish ELSE UNCHANGED <<op, mounted, saved, clean>>
  PROVE  Heads(S, disk', todo', cache', op'.kind)
<1>1. CASE Tail(todo) # <<>>
  BY <1>1
<1>2. CASE Tail(todo) = <<>>
  <2>1. \A x, b : ~Pending(<<>>, 1, x, b)
    BY DEF Pending
  <2>2. Heads(S, disk', <<>>, cache', op.kind)
    BY <1>2
  <2>3. Heads(S, disk', <<>>, cache', op'.kind)
    BY <2>1, <2>2 DEF Heads
  <2> QED BY <1>2, <2>3
<1> QED BY <1>1, <1>2

LEMMA SettlingBefore ==
  ASSUME IF Tail(todo) = <<>> THEN Finish ELSE UNCHANGED <<op, mounted, saved, clean>>,
         Settling(op, clean)'
  PROVE  Settling(op, clean)
BY NoOpOK DEF Finish, Settling

LEMMA WrittenHeads ==
  ASSUME TypeInv, __osContRamWrite, NEW S, Heads(S, disk, todo, cache, op.kind)
  PROVE  Heads(S, disk', todo', cache', op'.kind)
<1> DEFINE w == Head(todo)
<1>1. /\ w \in Writes /\ todo \in Seq(Writes) /\ todo # <<>> /\ todo' = Tail(todo)
      /\ IF Tail(todo) = <<>> THEN Finish ELSE UNCHANGED <<op, mounted, saved, clean>>
      /\ CacheStep(w)
      /\ CASE w.to = "dir"  -> dir' = [dir EXCEPT ![w.at] = w.val] /\ UNCHANGED <<disk, content>>
           [] w.to = "page" -> content' = [content EXCEPT ![w.at] = w.val] /\ UNCHANGED <<disk, dir>>
           [] OTHER         -> Inode(w) /\ UNCHANGED <<dir, content>>
  BY HeadTail DEF __osContRamWrite, TypeInv
<1>2. Heads(S, disk, todo, cache, op.kind)
  OBVIOUS
<1>3. w.to \in {"inode", "minode", "restore", "dir", "page"}
  BY <1>1, WriteKinds
<1>4. disk \in [Copies -> Links]
  BY DEF TypeInv
<1> DEFINE h == IF w.to = "minode" /\ w.at = Blocks - 1 /\ op.kind # "format" THEN w.val ELSE cache
<1>5. cache' = NoTable \/ cache' = h
  BY <1>1 DEF CacheStep
<1>6. Heads(S, disk', Tail(todo), h, op.kind)
  <2>1. CASE w.to \in Copies
    <3>1. Inode(w)
      BY <1>1, <2>1 DEF Copies
    <3>2. disk' = [disk EXCEPT ![w.to] = Blend(disk[w.to], w.val, w.at)]
      BY <1>1, <1>4, <2>1, <3>1, InodeIs DEF Copies
    <3> QED BY <1>1, <1>2, <1>4, <2>1, <3>2, CopyHeads
  <2>2. CASE w.to \notin Copies
    <3>1. disk' = disk \/ w.to = "restore"
      BY <1>1, <1>3, <2>2 DEF Copies
    <3>2. h = cache
      BY <2>2 DEF Copies
    <3> QED BY <1>1, <1>2, <2>2, <3>1, <3>2, AsideHeads
  <2> QED BY <2>1, <2>2
<1>7. Heads(S, disk', Tail(todo), cache', op.kind)
  <2> HIDE DEF h
  <2> QED BY <1>5, <1>6 DEF Heads
<1> QED BY <1>1, <1>7, TailHeads

LEMMA WrittenTables ==
  ASSUME TypeInv, TablesInv, __osContRamWrite
  PROVE  TablesInv'
<1> SUFFICES ASSUME Settling(op, clean)'
             PROVE  \E T : Heads(T, disk', todo', cache', op'.kind)
  BY DEF TablesInv
<1>1. PICK S : Heads(S, disk, todo, cache, op.kind)
  BY SettlingBefore DEF TablesInv, __osContRamWrite
<1> QED BY <1>1, WrittenHeads

LEMMA LostHeads ==
  ASSUME TypeInv, InodeWriteLost, FirstCopyWritten, NEW S, Heads(S, disk, todo, cache, op.kind)
  PROVE  Heads(S, disk', todo', cache', op'.kind) /\ Head(todo).to = "restore"
<1>1. /\ todo \in Seq(Writes) /\ todo # <<>> /\ todo' = Tail(todo)
      /\ IF Tail(todo) = <<>> THEN Finish ELSE UNCHANGED <<op, mounted, saved, clean>>
      /\ disk' = disk /\ cache' = cache
      /\ Unnoticed(Head(todo)) /\ <<op.kind, Head(todo).to>> \in FailsAt
  BY DEF InodeWriteLost, TypeInv
<1>2. Heads(S, disk, todo, cache, op.kind)
  OBVIOUS
<1>3. op.kind \in Kinds
  BY DEF TypeInv, OpOK, Ops
<1>4. Head(todo).to = "restore"
  BY <1>1, <1>3 DEF Unnoticed, FirstCopyWritten
<1>5. Heads(S, disk', Tail(todo), cache', op.kind)
  BY <1>1, <1>2, <1>4, AsideHeads DEF Copies
<1> QED BY <1>1, <1>4, <1>5, TailHeads

LEMMA LostTables ==
  ASSUME TypeInv, TablesInv, InodeWriteLost, FirstCopyWritten
  PROVE  TablesInv'
<1> SUFFICES ASSUME Settling(op, clean)'
             PROVE  \E T : Heads(T, disk', todo', cache', op'.kind)
  BY DEF TablesInv
<1>1. PICK S : Heads(S, disk, todo, cache, op.kind)
  BY SettlingBefore DEF TablesInv, InodeWriteLost
<1> QED BY <1>1, LostHeads

LEMMA FreeSpaceTables ==
  ASSUME TypeInv, TablesInv, packFreeSpace
  PROVE  TablesInv'
<1> DEFINE read == __osPfsReadInode(cache)
<1>1. /\ disk' = disk /\ clean' = clean /\ todo = <<>> /\ cache = NoTable
      /\ cache' = CacheAfter(read) /\ todo' = read.todo
      /\ op' = IF read.todo = <<>> THEN NoOp ELSE [NoOp EXCEPT !.kind = "read"]
  BY DEF packFreeSpace, Ready, Idle
<1>2. op'.kind \in {"none", "read"}
  BY <1>1 DEF NoOp
<1> SUFFICES ASSUME clean PROVE \E T : Heads(T, disk', todo', cache', op'.kind)
  BY <1>1, <1>2 DEF TablesInv, Settling
<1>3. PICK S : Heads(S, disk, todo, cache, op.kind)
  BY DEF TablesInv, Settling
<1>4. /\ disk["inode"] = S /\ disk["minode"] = S /\ S \in Links /\ SumOK(S)
      /\ read.todo = <<>> /\ CacheAfter(read) = S
  BY <1>1, <1>3, CleanRead
<1> HIDE DEF read
<1>5. NoTables(<<>>)
  BY DEF NoTables
<1>6. Heads(S, disk', <<>>, S, op'.kind)
  BY <1>1, <1>4, <1>5, SettledHeads
<1> QED BY <1>1, <1>4, <1>6

LEMMA SaveTables ==
  ASSUME TypeInv, TablesInv, NEW n \in Names, NEW z \in Sizes, packWriteFile(n, z)
  PROVE  TablesInv'
<1> DEFINE read == __osPfsReadInode(NoTable)
<1>1. /\ WriteNew(n, z, read) \/ WriteOver(n, z, read)
      /\ cache' = CacheAfter(read) /\ UNCHANGED <<mounted, saved, clean>>
      /\ todo = <<>>
  BY DEF packWriteFile, Ready, Idle
<1>2. CASE WriteNew(n, z, read)
  <2>1. op'.kind = "write" /\ \E t \in Links : Complete(todo', Sealed(t))
    <3> HIDE DEF read
    <3>1. read = __osPfsReadInode(NoTable)
      BY DEF read
    <3> QED BY <1>1, <1>2, <3>1, WriteNewStep
  <2> QED BY <2>1, PlannedTables
<1>3. CASE WriteOver(n, z, read)
  <2>1. op'.kind = "write" /\ \E B : NoTables(B) /\ todo' = read.todo \o B
    <3> HIDE DEF read
    <3>1. read = __osPfsReadInode(NoTable)
      BY DEF read
    <3> QED BY <1>1, <1>3, <3>1, WriteOverStep
  <2>2. disk' = disk
    BY <1>3 DEF WriteOver, Start
  <2> SUFFICES ASSUME clean PROVE \E T : Heads(T, disk', todo', cache', op'.kind)
    BY <1>1, <2>1 DEF TablesInv, Settling
  <2>3. PICK S : Heads(S, disk, todo, cache, op.kind)
    BY DEF TablesInv, Settling
  <2>4. /\ disk["inode"] = S /\ disk["minode"] = S /\ S \in Links /\ SumOK(S)
        /\ read.todo = <<>> /\ CacheAfter(read) = S
    BY <1>1, <2>3, CleanRead
  <2>5. PICK B : NoTables(B) /\ todo' = read.todo \o B
    BY <2>1
  <2> HIDE DEF read
  <2>6. todo' = B
    BY <2>4, <2>5, ConcatEmptySeq DEF NoTables
  <2>7. Heads(S, disk', B, S, op'.kind)
    BY <2>2, <2>4, <2>5, SettledHeads
  <2> QED BY <1>1, <2>4, <2>6, <2>7
<1> QED BY <1>1, <1>2, <1>3

LEMMA NextTables ==
  ASSUME TypeInv, TablesInv, [Next]_vars, FirstCopyWritten
  PROVE  TablesInv'
<1>1. CASE osPfsInit
  <2>1. op'.kind = "init"
    BY <1>1 DEF osPfsInit, Start
  <2> QED BY <1>1, <2>1, InitStep, PlannedTables
<1>2. CASE packRepair
  <2>1. op'.kind = "check"
    BY <1>2 DEF packRepair, Start
  <2> QED BY <1>2, <2>1, RepairStep, PlannedTables
<1>3. CASE packFreeSpace
  BY <1>3, FreeSpaceTables
<1>4. CASE packFormat
  BY <1>4, FormatStep, PlannedTables
<1>5. ASSUME NEW n \in Names, NEW z \in Sizes, packWriteFile(n, z) PROVE TablesInv'
  BY <1>5, SaveTables
<1>6. ASSUME NEW s \in Slots, packDeleteFile(s) PROVE TablesInv'
  <2>1. op'.kind = "delete"
    BY <1>6 DEF packDeleteFile, Start
  <2> QED BY <1>6, <2>1, DeleteStep, PlannedTables
<1>7. CASE __osContRamWrite
  BY <1>7, WrittenTables
<1>8. CASE InodeWriteLost
  BY <1>8, LostTables
<1>9. CASE WriteFails
  BY <1>9, NoOpOK DEF WriteFails, TablesInv, Settling
<1>10. CASE PowerLoss
  BY <1>10, NoOpOK DEF PowerLoss, TablesInv, Settling
<1>11. CASE UNCHANGED vars
  BY <1>11 DEF TablesInv, Settling, vars
<1> QED BY <1>1, <1>2, <1>3, <1>4, <1>5, <1>6, <1>7, <1>8, <1>9, <1>10, <1>11 DEF Next

LEMMA InitTables == Init => TablesInv
BY NoOpOK DEF Init, TablesInv, Settling

LEMMA TablesHold == FirstCopyWritten => (Spec => [](TypeInv /\ TablesInv))
<1> SUFFICES ASSUME FirstCopyWritten PROVE Spec => [](TypeInv /\ TablesInv)
  OBVIOUS
<1>1. Init => TypeInv /\ TablesInv
  BY InitType, InitTables
<1>2. TypeInv /\ TablesInv /\ [Next]_vars => (TypeInv /\ TablesInv)'
  BY NextType, NextTables
<1> QED BY <1>1, <1>2, PTL DEF Spec

\* What the invariant says when no request is under way.
LEMMA CleanTables ==
  ASSUME TypeInv, TablesInv, Idle, clean
  PROVE  /\ disk["minode"] = disk["inode"] /\ SumOK(disk["inode"])
         /\ cache = NoTable \/ cache = disk["inode"]
<1>1. PICK S : Heads(S, disk, todo, cache, op.kind)
  BY DEF TablesInv, Settling
<1>2. /\ disk["inode"] = S /\ disk["minode"] = S /\ SumOK(S)
      /\ cache = NoTable \/ cache = S
  BY <1>1, CleanRead DEF Idle
<1> QED BY <1>2

\* contpfs.c:284: a checked pak's cached table is the one on the pak whenever a
\* request may use it, provided no write to the first copy is lost unseen.
CacheAgrees == Idle /\ clean /\ cache # NoTable => cache = disk["inode"]

THEOREM CheckedCacheAgrees == FirstCopyWritten => (Spec => []CacheAgrees)
<1>1. TypeInv /\ TablesInv => CacheAgrees
  BY CleanTables DEF CacheAgrees
<1> QED BY <1>1, TablesHold, PTL

\* Both copies of a checked pak are one table that checks.
TablesAgree == Idle /\ clean => SumOK(disk["inode"]) /\ disk["minode"] = disk["inode"]

THEOREM CopiesAgree == FirstCopyWritten => (Spec => []TablesAgree)
<1>1. TypeInv /\ TablesInv => TablesAgree
  BY CleanTables DEF TablesAgree
<1> QED BY <1>1, TablesHold, PTL

-----------------------------------------------------------------------------
(* The cache is never a torn table, whatever fails.                        *)

\* What reaches the cache when its last block is written.
Seals(W) == \A i \in 1..Len(W) : W[i].to = "minode" => SumOK(W[i].val)

CacheWhole == cache # NoTable => SumOK(cache)
SealInv == Seals(todo) /\ CacheWhole

LEMMA CompleteSeals ==
  ASSUME NEW W, \E t \in Links : Complete(W, Sealed(t))
  PROVE  Seals(W)
<1>1. PICK t \in Links : Complete(W, Sealed(t))
  OBVIOUS
<1>2. SumOK(Sealed(t))
  BY SealedOK
<1> QED BY <1>1, <1>2 DEF Complete, Seals, Copies

LEMMA AsideSeals ==
  ASSUME NEW W, Aside(W)
  PROVE  Seals(W)
BY DEF Aside, Seals, Copies

\* A table that is read checks.
LEMMA ReadSeals ==
  ASSUME NEW c, c # NoTable => SumOK(c), CacheAfter(__osPfsReadInode(c)) # NoTable
  PROVE  SumOK(CacheAfter(__osPfsReadInode(c)))
BY DEF CacheAfter, __osPfsReadInode

LEMMA SaveSeals ==
  ASSUME TypeInv, SealInv, NEW n \in Names, NEW z \in Sizes, packWriteFile(n, z)
  PROVE  SealInv'
<1>0. PICK read : read = __osPfsReadInode(NoTable)
  OBVIOUS
<1>1. /\ WriteNew(n, z, read) \/ WriteOver(n, z, read)
      /\ cache' = CacheAfter(read) /\ UNCHANGED <<mounted, saved, clean>>
  BY <1>0 DEF packWriteFile
<1>2. CacheWhole'
  BY <1>0, <1>1, ReadSeals DEF CacheWhole
<1>3. CASE WriteNew(n, z, read)
  <2>1. \E t \in Links : Complete(todo', Sealed(t))
    BY <1>0, <1>1, <1>3, WriteNewStep
  <2> QED BY <1>2, <2>1, CompleteSeals DEF SealInv
<1>4. CASE WriteOver(n, z, read)
  <2>1. PICK B : NoTables(B) /\ todo' = read.todo \o B
    BY <1>0, <1>1, <1>4, WriteOverStep
  <2>2. Aside(B)
    BY <2>1 DEF NoTables, Aside, Copies
  <2>3. Aside(read.todo)
    BY <1>0, ReadType DEF TypeInv
  <2>4. Aside(todo')
    BY <2>1, <2>2, <2>3, Joined
  <2> QED BY <1>2, <2>4, AsideSeals DEF SealInv
<1> QED BY <1>1, <1>3, <1>4

\* The next write is done, or lost.
LEMMA TailSeals ==
  ASSUME TypeInv, SealInv, todo # <<>>, todo' = Tail(todo)
  PROVE  Seals(todo') /\ (Head(todo).to = "minode" => SumOK(Head(todo).val))
<1>1. todo \in Seq(Writes) /\ Len(todo) \in Nat /\ Len(todo) > 0
  BY LenProperties, EmptySeq DEF TypeInv
<1>2. /\ Head(todo) = todo[1] /\ Len(Tail(todo)) = Len(todo) - 1
      /\ \A i \in 1..Len(Tail(todo)) : Tail(todo)[i] = todo[i + 1]
  BY <1>1, HeadTailProperties
<1>3. \A i \in 1..Len(Tail(todo)) : i + 1 \in 1..Len(todo)
  BY <1>1, <1>2
<1> QED BY <1>1, <1>2, <1>3 DEF SealInv, Seals

LEMMA NextSeals ==
  ASSUME TypeInv, SealInv, [Next]_vars
  PROVE  SealInv'
<1>1. CASE osPfsInit
  <2>1. CacheWhole'
    BY <1>1, ReadSeals DEF osPfsInit, CacheWhole
  <2> QED BY <1>1, <2>1, InitStep, CompleteSeals DEF SealInv
<1>2. CASE packRepair
  <2>1. CacheWhole'
    BY <1>2, ReadSeals DEF packRepair, CacheWhole, SealInv
  <2> QED BY <1>2, <2>1, RepairStep, CompleteSeals DEF SealInv
<1>3. CASE packFreeSpace
  <2>1. CacheWhole'
    BY <1>3, ReadSeals DEF packFreeSpace, CacheWhole, SealInv
  <2>2. Aside(todo')
    BY <1>3, ReadType DEF packFreeSpace, TypeInv
  <2> QED BY <2>1, <2>2, AsideSeals DEF SealInv
<1>4. CASE packFormat
  BY <1>4, FormatStep, CompleteSeals DEF SealInv, CacheWhole
<1>5. ASSUME NEW n \in Names, NEW z \in Sizes, packWriteFile(n, z) PROVE SealInv'
  BY <1>5, SaveSeals
<1>6. ASSUME NEW s \in Slots, packDeleteFile(s) PROVE SealInv'
  <2>1. CacheWhole'
    BY <1>6, ReadSeals DEF packDeleteFile, CacheWhole
  <2> QED BY <1>6, <2>1, DeleteStep, CompleteSeals DEF SealInv
<1>7. CASE __osContRamWrite
  <2>1. todo # <<>> /\ todo' = Tail(todo) /\ CacheStep(Head(todo))
    BY <1>7 DEF __osContRamWrite
  <2> QED BY <2>1, TailSeals DEF SealInv, CacheWhole, CacheStep
<1>8. CASE InodeWriteLost
  <2>1. todo # <<>> /\ todo' = Tail(todo) /\ cache' = cache
    BY <1>8 DEF InodeWriteLost
  <2> QED BY <2>1, TailSeals DEF SealInv, CacheWhole
<1>9. CASE WriteFails \/ PowerLoss
  <2>1. todo' = <<>> /\ (cache' = cache \/ cache' = NoTable)
    BY <1>9 DEF WriteFails, PowerLoss
  <2> QED BY <2>1 DEF SealInv, CacheWhole, Seals
<1>10. CASE UNCHANGED vars
  BY <1>10 DEF SealInv, CacheWhole, Seals, vars
<1> QED BY <1>1, <1>2, <1>3, <1>4, <1>5, <1>6, <1>7, <1>8, <1>9, <1>10 DEF Next

\* contpfs.c:349: the cached table checks, whichever writes fail or are lost and
\* whenever power does: it is one that was read or written whole.
THEOREM CacheNeverTorn == Spec => []CacheWhole
<1>1. Init => TypeInv /\ SealInv
  <2>1. Init => todo = <<>> /\ cache = NoTable
    BY DEF Init
  <2> QED BY <2>1, InitType DEF SealInv, CacheWhole, Seals
<1>2. TypeInv /\ SealInv /\ [Next]_vars => (TypeInv /\ SealInv)'
  BY NextType, NextSeals
<1>3. SealInv => CacheWhole
  BY DEF SealInv
<1> QED BY <1>1, <1>2, <1>3, PTL DEF Spec

-----------------------------------------------------------------------------
(* Chains.                                                                 *)

\* w leads from p over distinct pages to the end of a file.
IsChain(t, p, w) ==
  /\ w \in Seq(Pages) /\ Len(w) >= 1 /\ w[1] = p
  /\ \A i, j \in 1..Len(w) : w[i] = w[j] => i = j
  /\ \A i \in 1..(Len(w) - 1) : t[w[i]] = w[i + 1]
  /\ t[w[Len(w)]] = EOF
\* And no other page leads into it.
Alone(t, w) ==
  /\ \A q \in Pages : t[q] # w[1]
  /\ \A i \in 2..Len(w) : \A q \in Pages : t[q] = w[i] => q = w[i - 1]

LEMMA WayIs ==
  ASSUME NEW t, NEW p
  PROVE  Follows(t, p, Way(t, p))
<1> DEFINE N == Cardinality(Pages)
           Body(at, i) == IF i = 1 THEN p ELSE IF at[i - 1] \in Pages THEN t[at[i - 1]] ELSE EOF
           Has(n) == \E at : at = [i \in 1..n |-> Body(at, i)]
           I == {n \in Nat : Has(n)}
<1>1. 0 \in I
  <2>1. <<>> = [i \in 1..0 |-> Body(<<>>, i)]
    OBVIOUS
  <2> QED BY <2>1
<1>2. ASSUME NEW n \in I PROVE n + 1 \in I
  <2>1. n \in Nat
    OBVIOUS
  <2>2. PICK at : at = [i \in 1..n |-> Body(at, i)]
    BY <1>2
  <2> DEFINE new == IF n + 1 = 1 THEN p ELSE IF at[n] \in Pages THEN t[at[n]] ELSE EOF
             as == [i \in 1..(n + 1) |-> IF i = n + 1 THEN new ELSE at[i]]
  <2>3. \A i \in 1..n : as[i] = at[i] /\ at[i] = Body(at, i)
    BY <2>1, <2>2
  <2>4. as[n + 1] = new
    BY <2>1
  <2>5. ASSUME NEW i \in 1..(n + 1) PROVE as[i] = Body(as, i)
    <3>1. CASE i = n + 1
      <4>1. i # 1 => i - 1 = n /\ n \in 1..n
        BY <2>1, <3>1
      <4>2. i # 1 => as[i - 1] = at[n]
        BY <2>3, <4>1
      <4> HIDE DEF as
      <4> QED BY <2>4, <3>1, <4>1, <4>2
    <3>2. CASE i \in 1..n
      <4>1. i # 1 => i - 1 \in 1..n
        BY <2>1, <3>2
      <4> HIDE DEF as
      <4> QED BY <2>3, <3>2, <4>1
    <3> QED BY <2>1, <3>1, <3>2
  <2>6. as = [i \in 1..(n + 1) |-> Body(as, i)]
    <3> DEFINE bs == [i \in 1..(n + 1) |-> Body(as, i)]
    <3>1. DOMAIN as = 1..(n + 1) /\ as = [i \in 1..(n + 1) |-> as[i]]
      OBVIOUS
    <3> HIDE DEF as, Body
    <3> QED BY <2>5, <3>1
  <2>7. Has(n + 1)
    BY <2>6
  <2> HIDE DEF Has
  <2> QED BY <2>1, <2>7
<1>3. I = Nat
  <2> HIDE DEF I
  <2>1. I \in SUBSET Nat BY DEF I
  <2> QED BY <1>1, <1>2, <2>1, Upward
<1>4. Has(N)
  <2> HIDE DEF Has
  <2> QED BY <1>3, PagesFinite
<1>5. \E at : Follows(t, p, at)
  BY <1>4 DEF Follows
<1> QED BY <1>5 DEF Way

LEMMA WaySteps ==
  ASSUME NEW t, NEW p
  PROVE  \A i \in 1..Cardinality(Pages) : Way(t, p)[i] =
           IF i = 1 THEN p
           ELSE IF Way(t, p)[i - 1] \in Pages THEN t[Way(t, p)[i - 1]] ELSE EOF
<1>1. Follows(t, p, Way(t, p))
  BY WayIs
<1> DEFINE at == Way(t, p)
<1> HIDE DEF at
<1>2. Follows(t, p, at)
  BY <1>1 DEF at
<1>3. \A i \in 1..Cardinality(Pages) :
        at[i] = IF i = 1 THEN p ELSE IF at[i - 1] \in Pages THEN t[at[i - 1]] ELSE EOF
  BY <1>2 DEF Follows
<1> QED BY <1>3 DEF at

\* What a file's walk is when it ends well.
LEMMA EndsChain ==
  ASSUME NEW t, NEW p, Ends(t, p)
  PROVE  IsChain(t, p, Walk(t, p))
<1> DEFINE at == Way(t, p)
           w == Walk(t, p)
<1>1. PICK m \in 0..Cardinality(Pages) : Steps(at) = 1..m
  BY StepsAre
<1>2. w = [i \in 1..m |-> at[i]] /\ w # <<>> /\ t[w[Len(w)]] = EOF /\ w \in Seq(Pages)
  BY <1>1, WalkUnfold, WalkType DEF Ends, Last
<1>3. \A i \in 1..Cardinality(Pages) :
        at[i] = IF i = 1 THEN p ELSE IF at[i - 1] \in Pages THEN t[at[i - 1]] ELSE EOF
  BY WaySteps
<1>4. \A i \in 1..m : Fresh(at, i)
  <2>1. \A i \in Steps(at) : i \in 1..i /\ Fresh(at, i)
    BY PagesFinite DEF Steps
  <2> QED BY <1>1, <2>1
<1>5. m \in Nat /\ Cardinality(Pages) \in Nat
  BY PagesFinite
<1> HIDE DEF at, w
<1>6. Len(w) = m /\ m >= 1 /\ \A i \in 1..m : w[i] = at[i]
  <2>1. DOMAIN w = 1..m /\ DOMAIN w = 1..Len(w) /\ Len(w) \in Nat
    BY <1>2, LenProperties
  <2>2. Len(w) = m
    BY <2>1, <1>5
  <2>3. w # <<>> => Len(w) # 0
    BY <1>2
  <2> QED BY <1>2, <1>5, <2>2, <2>3
<1>7. w[1] = p
  BY <1>3, <1>5, <1>6
<1>8. ASSUME NEW i \in 1..m, NEW j \in 1..m, w[i] = w[j] PROVE i = j
  <2>1. \A a, b \in 1..m : a < b => at[a] # at[b]
    BY <1>4, <1>5 DEF Fresh
  <2> QED BY <1>5, <1>6, <1>8, <2>1
<1>9. ASSUME NEW i \in 1..(m - 1) PROVE t[w[i]] = w[i + 1]
  <2>1. i \in 1..m /\ i + 1 \in 1..m /\ i + 1 \in 1..Cardinality(Pages) /\ i + 1 - 1 = i /\ i + 1 # 1
    BY <1>1, <1>5
  <2>2. at[i] \in Pages
    BY <2>1, <1>4 DEF Fresh
  <2>3. at[i + 1] = t[at[i]]
    BY <2>1, <2>2, <1>3
  <2> QED BY <2>1, <2>3, <1>6
<1>10. IsChain(t, p, w)
  BY <1>2, <1>6, <1>7, <1>8, <1>9 DEF IsChain
<1> QED BY <1>10 DEF w

\* And a chain is what the walk meets.
LEMMA ChainWalk ==
  ASSUME NEW t, NEW p, NEW w, IsChain(t, p, w)
  PROVE  Walk(t, p) = w /\ Ends(t, p)
<1> DEFINE at == Way(t, p)
           N == Cardinality(Pages)
           n == Len(w)
<1>0. /\ w \in Seq(Pages) /\ n \in Nat /\ n >= 1 /\ DOMAIN w = 1..n /\ w \in [1..n -> Pages]
      /\ \A i \in 1..n : w[i] \in Pages
      /\ w[1] = p /\ N \in Nat
  BY PagesFinite, LenProperties, ElementOfSeq DEF IsChain
<1>u. /\ \A i, j \in 1..n : w[i] = w[j] => i = j
      /\ \A i \in 1..(n - 1) : t[w[i]] = w[i + 1]
      /\ t[w[n]] = EOF
  BY DEF IsChain
<1>3. \A i \in 1..N :
        at[i] = IF i = 1 THEN p ELSE IF at[i - 1] \in Pages THEN t[at[i - 1]] ELSE EOF
  BY WaySteps
<1>w. Walk(t, p) = [i \in Steps(at) |-> at[i]]
  BY WalkUnfold
<1> HIDE DEF at, n
<1>1. n <= N
  <2>1. w \in Injection(1..n, Pages)
    BY <1>0, <1>u DEF Injection, IsInjective
  <2>2. Cardinality(1..n) <= N
    BY <2>1, PagesFinite, FS_Injection
  <2>3. Cardinality(1..n) = n
    BY <1>0, FS_Interval
  <2> QED BY <2>2, <2>3
<1> HIDE DEF N
<1>4. \A k \in Nat : k + 1 <= n => at[k + 1] = w[k + 1]
  <2> DEFINE J == {k \in Nat : k + 1 <= n => at[k + 1] = w[k + 1]}
  <2>1. 0 \in J
    BY <1>0, <1>1, <1>3
  <2>2. ASSUME NEW k \in J PROVE k + 1 \in J
    <3> SUFFICES ASSUME k + 2 <= n PROVE at[k + 2] = w[k + 2]
      OBVIOUS
    <3>1. /\ k \in Nat /\ k + 1 \in 1..(n - 1) /\ k + 2 \in 1..N /\ k + 2 # 1 /\ k + 2 - 1 = k + 1
          /\ k + 1 \in 1..n /\ k + 1 + 1 = k + 2
      BY <1>0, <1>1
    <3>2. at[k + 1] = w[k + 1]
      BY <2>2, <3>1
    <3>3. at[k + 2] = t[at[k + 1]]
      BY <3>1, <3>2, <1>0, <1>3
    <3> QED BY <3>1, <3>2, <3>3, <1>u
  <2>3. J = Nat
    <3> HIDE DEF J
    <3>1. J \in SUBSET Nat BY DEF J
    <3> QED BY <2>1, <2>2, <3>1, Upward
  <2> QED BY <2>3
<1>5. \A i \in 1..n : at[i] = w[i]
  <2>1. \A i \in 1..n : i - 1 \in Nat /\ i - 1 + 1 = i /\ i <= n
    BY <1>0
  <2> QED BY <1>4, <2>1
<1>6. \A i \in 1..n : Fresh(at, i)
  <2>1. \A i \in 1..n : \A j \in 1..(i - 1) : j \in 1..n /\ j # i
    BY <1>0
  <2> QED BY <1>0, <1>u, <1>5, <2>1 DEF Fresh
<1>7. Steps(at) = 1..n
  <2>1. ASSUME NEW k \in 1..n PROVE k \in Steps(at)
    <3>1. k \in 1..N /\ \A j \in 1..k : j \in 1..n
      BY <1>0, <1>1
    <3> QED BY <3>1, <1>6 DEF Steps, N
  <2>2. ASSUME NEW k \in Steps(at) PROVE k \in 1..n
    <3>1. k \in 1..N /\ \A j \in 1..k : Fresh(at, j)
      BY DEF Steps, N
    <3>2. CASE k > n
      <4>1. n + 1 \in 1..k /\ n + 1 \in 1..N /\ n + 1 # 1 /\ n + 1 - 1 = n /\ n \in 1..n
        BY <1>0, <3>1, <3>2
      <4>2. at[n + 1] = EOF
        BY <4>1, <1>0, <1>3, <1>5, <1>u
      <4>3. at[n + 1] \in Pages
        BY <3>1, <4>1 DEF Fresh
      <4> QED BY <4>2, <4>3, Numbers
    <3> QED BY <1>0, <3>1, <3>2
  <2> QED BY <2>1, <2>2
<1>8. Walk(t, p) = w
  <2>1. Walk(t, p) = [i \in 1..n |-> at[i]]
    BY <1>w, <1>7
  <2>2. w = [i \in 1..n |-> w[i]]
    BY <1>0
  <2> QED BY <1>5, <2>1, <2>2
<1>9. w # <<>>
  BY <1>0 DEF n
<1> QED BY <1>8, <1>9, <1>u DEF Ends, Last, n

\* The checker's test, said of chains.
LEMMA WholeIs ==
  ASSUME NEW t, NEW p
  PROVE  /\ Whole(t, p) => IsChain(t, p, Walk(t, p)) /\ Alone(t, Walk(t, p))
         /\ \A w : IsChain(t, p, w) /\ Alone(t, w) => Whole(t, p) /\ Walk(t, p) = w
<1> DEFINE H(x) == {q \in Pages : t[q] = x}
<1>1. \A x : /\ IsFiniteSet(H(x)) /\ Hits(t, x) = Cardinality(H(x))
             /\ (Cardinality(H(x)) = 0 <=> H(x) = {})
             /\ (Cardinality(H(x)) = 1 <=> \E y : H(x) = {y})
  <2> TAKE x
  <2> DEFINE h == H(x)
  <2>1. h \in SUBSET (0..127)
    BY PagesFinite
  <2>2. Hits(t, x) = Cardinality(h)
    BY DEF Hits
  <2> HIDE DEF h
  <2>3. IsFiniteSet(h)
    BY <2>1, Ordered
  <2>4. /\ (Cardinality(h) = 0 <=> h = {})
        /\ (Cardinality(h) = 1 <=> \E y : h = {y})
    BY <2>3, FS_EmptySet, FS_Singleton
  <2> QED BY <2>2, <2>3, <2>4 DEF h
<1>2. ASSUME Whole(t, p) PROVE IsChain(t, p, Walk(t, p)) /\ Alone(t, Walk(t, p))
  <2> DEFINE w == Walk(t, p)
  <2>1. IsChain(t, p, w)
    BY <1>2, EndsChain DEF Whole
  <2>2. \A i \in DOMAIN w : Hits(t, w[i]) = (IF i = 1 THEN 0 ELSE 1)
    BY <1>2 DEF Whole
  <2> HIDE DEF w
  <2>3. DOMAIN w = 1..Len(w) /\ Len(w) \in Nat /\ Len(w) >= 1 /\ \A i \in 1..Len(w) : w[i] \in Pages
    BY <2>1, LenProperties, ElementOfSeq DEF IsChain
  <2>h. Hits(t, w[1]) = 0 /\ \A i \in 2..Len(w) : Hits(t, w[i]) = 1
    BY <2>2, <2>3
  <2>4. H(w[1]) = {}
    <3> HIDE DEF H
    <3> QED BY <1>1, <2>h
  <2>5. ASSUME NEW i \in 2..Len(w), NEW q \in Pages, t[q] = w[i] PROVE q = w[i - 1]
    <3>1. i \in 1..Len(w) /\ i # 1 /\ i - 1 \in 1..Len(w) /\ i - 1 \in 1..(Len(w) - 1) /\ i - 1 + 1 = i
      BY <2>3
    <3>2. \E y : H(w[i]) = {y}
      <4> HIDE DEF H
      <4> QED BY <1>1, <2>h
    <3>3. t[w[i - 1]] = w[i] /\ w[i - 1] \in Pages
      BY <2>1, <2>3, <3>1 DEF IsChain
    <3>4. q \in H(w[i]) /\ w[i - 1] \in H(w[i])
      BY <2>5, <3>3
    <3> HIDE DEF H
    <3> QED BY <3>2, <3>4
  <2> QED BY <2>1, <2>4, <2>5 DEF Alone, w
<1>3. ASSUME NEW w, IsChain(t, p, w), Alone(t, w) PROVE Whole(t, p) /\ Walk(t, p) = w
  <2>1. Walk(t, p) = w /\ Ends(t, p)
    BY <1>3, ChainWalk
  <2>2. DOMAIN w = 1..Len(w) /\ Len(w) \in Nat /\ Len(w) >= 1 /\ \A i \in 1..Len(w) : w[i] \in Pages
    BY <1>3, LenProperties, ElementOfSeq DEF IsChain
  <2>3. Hits(t, w[1]) = 0
    <3>1. H(w[1]) = {}
      BY <1>3 DEF Alone
    <3> QED BY <1>1, <3>1
  <2>4. ASSUME NEW i \in 2..Len(w) PROVE Hits(t, w[i]) = 1
    <3>1. i - 1 \in 1..Len(w) /\ i - 1 \in 1..(Len(w) - 1) /\ i - 1 + 1 = i
      BY <2>2
    <3>2. t[w[i - 1]] = w[i] /\ w[i - 1] \in Pages
      BY <1>3, <2>2, <3>1 DEF IsChain
    <3>3. H(w[i]) = {w[i - 1]}
      BY <1>3, <3>2 DEF Alone
    <3> HIDE DEF H
    <3> QED BY <1>1, <3>3
  <2>5. \A i \in DOMAIN w : Hits(t, w[i]) = (IF i = 1 THEN 0 ELSE 1)
    <3>1. \A i \in DOMAIN w : i = 1 \/ i \in 2..Len(w)
      BY <2>2
    <3> QED BY <2>3, <2>4, <3>1
  <2> QED BY <2>1, <2>5 DEF Whole
<1> QED BY <1>2, <1>3

LEMMA ChainPages ==
  ASSUME NEW t, NEW p, NEW w, IsChain(t, p, w)
  PROVE  /\ \A x : x \in ToSet(w) <=> \E i \in 1..Len(w) : w[i] = x
         /\ \A x \in ToSet(w) : /\ x \in Pages /\ t[x] # FREE
                                /\ t[x] = EOF \/ t[x] \in ToSet(w)
         /\ Len(w) \in Nat /\ Len(w) >= 1 /\ \A i \in 1..Len(w) : w[i] \in Pages
         /\ p \in ToSet(w) /\ p \in Pages /\ t[p] # FREE
<1>1. /\ DOMAIN w = 1..Len(w) /\ Len(w) \in Nat /\ Len(w) >= 1
      /\ \A i \in 1..Len(w) : w[i] \in Pages
  BY LenProperties, ElementOfSeq DEF IsChain
<1>2. \A x : x \in ToSet(w) <=> \E i \in 1..Len(w) : w[i] = x
  BY <1>1 DEF ToSet
<1>3. ASSUME NEW x \in ToSet(w)
      PROVE  x \in Pages /\ t[x] # FREE /\ (t[x] = EOF \/ t[x] \in ToSet(w))
  <2>1. PICK i \in 1..Len(w) : w[i] = x
    BY <1>2
  <2>2. CASE i = Len(w)
    BY <1>1, <2>1, <2>2, Numbers DEF IsChain
  <2>3. CASE i # Len(w)
    <3>1. i \in 1..(Len(w) - 1) /\ i + 1 \in 1..Len(w)
      <4> DEFINE n == Len(w)
      <4>1. n \in Nat /\ i \in 1..n /\ i # n
        BY <1>1, <2>1, <2>3
      <4> HIDE DEF n
      <4>2. i \in 1..(n - 1) /\ i + 1 \in 1..n
        BY <4>1
      <4> QED BY <4>2 DEF n
    <3>2. t[x] = w[i + 1] /\ w[i + 1] \in Pages /\ w[i + 1] \in ToSet(w)
      BY <1>1, <1>2, <2>1, <3>1 DEF IsChain
    <3> QED BY <1>1, <2>1, <3>2, Numbers
  <2> QED BY <2>2, <2>3
<1>4. p \in ToSet(w)
  BY <1>1, <1>2 DEF IsChain
<1> QED BY <1>1, <1>2, <1>3, <1>4

\* A whole file stays whole in a table that leaves its pages alone and lets no
\* other page lead into them.
LEMMA StaysWhole ==
  ASSUME NEW t, NEW p, Whole(t, p), NEW u,
         \A x \in ToSet(Walk(t, p)) : u[x] = t[x],
         \A q \in Pages : u[q] \in ToSet(Walk(t, p)) => t[q] = u[q]
  PROVE  Whole(u, p) /\ Walk(u, p) = Walk(t, p)
<1> DEFINE w == Walk(t, p)
<1>1. IsChain(t, p, w) /\ Alone(t, w)
  BY WholeIs
<1>2. /\ \A x \in ToSet(w) : u[x] = t[x]
      /\ \A q \in Pages : u[q] \in ToSet(w) => t[q] = u[q]
  OBVIOUS
<1> HIDE DEF w
<1>3. /\ \A i \in 1..Len(w) : w[i] \in ToSet(w)
      /\ Len(w) \in Nat /\ Len(w) >= 1
  BY <1>1, ChainPages
<1>4. IsChain(u, p, w)
  <2>1. \A i \in 1..(Len(w) - 1) : i \in 1..Len(w) /\ u[w[i]] = t[w[i]]
    BY <1>2, <1>3
  <2>2. u[w[Len(w)]] = t[w[Len(w)]]
    BY <1>2, <1>3
  <2> QED BY <1>1, <2>1, <2>2 DEF IsChain
<1>5. Alone(u, w)
  <2>1. \A q \in Pages : u[q] # w[1]
    BY <1>1, <1>2, <1>3 DEF Alone
  <2>2. ASSUME NEW i \in 2..Len(w), NEW q \in Pages, u[q] = w[i] PROVE q = w[i - 1]
    <3>1. i \in 1..Len(w)
      BY <1>3
    <3>2. t[q] = w[i]
      BY <1>2, <1>3, <2>2, <3>1
    <3> QED BY <1>1, <3>2 DEF Alone
  <2> QED BY <2>1, <2>2 DEF Alone
<1>6. Whole(u, p) /\ Walk(u, p) = w
  BY <1>4, <1>5, WholeIs
<1> QED BY <1>6 DEF w

\* Two whole files that start apart share no page.
LEMMA StartApart ==
  ASSUME NEW t, NEW p, NEW r, Whole(t, p), Whole(t, r), p # r
  PROVE  \A x : ~(x \in ToSet(Walk(t, p)) /\ x \in ToSet(Walk(t, r)))
<1> DEFINE w == Walk(t, p)
           v == Walk(t, r)
<1>1. IsChain(t, p, w) /\ Alone(t, w) /\ IsChain(t, r, v) /\ Alone(t, v)
  BY WholeIs
<1> HIDE DEF w, v
<1>2. /\ Len(w) \in Nat /\ Len(w) >= 1 /\ \A i \in 1..Len(w) : w[i] \in Pages
      /\ Len(v) \in Nat /\ Len(v) >= 1 /\ \A i \in 1..Len(v) : v[i] \in Pages
      /\ \A x : x \in ToSet(w) <=> \E i \in 1..Len(w) : w[i] = x
      /\ \A x : x \in ToSet(v) <=> \E i \in 1..Len(v) : v[i] = x
  BY <1>1, ChainPages
<1> DEFINE J == {k \in Nat : k + 1 <= Len(w) => \A j \in 1..Len(v) : w[k + 1] # v[j]}
<1>j. \A j \in 1..Len(v) : j = 1 \/ (j \in 2..Len(v) /\ j - 1 \in 1..(Len(v) - 1)
                                    /\ j - 1 \in 1..Len(v) /\ j - 1 + 1 = j)
  BY <1>2
<1>3. 0 \in J
  <2> SUFFICES ASSUME NEW j \in 1..Len(v), w[1] = v[j] PROVE FALSE
    OBVIOUS
  <2>1. CASE j = 1
    BY <1>1, <2>1 DEF IsChain
  <2>2. CASE j # 1
    <3>0. j - 1 \in 1..(Len(v) - 1) /\ j - 1 \in 1..Len(v) /\ j - 1 + 1 = j
      BY <1>j, <2>2
    <3>1. t[v[j - 1]] = v[j] /\ v[j - 1] \in Pages
      <4> DEFINE k == j - 1
      <4>1. k \in 1..(Len(v) - 1) /\ k \in 1..Len(v) /\ k + 1 = j
        BY <3>0
      <4> HIDE DEF k
      <4>2. t[v[k]] = v[j] /\ v[k] \in Pages
        BY <1>1, <1>2, <4>1 DEF IsChain
      <4> QED BY <4>2 DEF k
    <3> QED BY <1>1, <3>1 DEF Alone
  <2> QED BY <2>1, <2>2
<1>4. ASSUME NEW k \in J PROVE k + 1 \in J
  <2> SUFFICES ASSUME k + 2 <= Len(w), NEW j \in 1..Len(v), w[k + 2] = v[j] PROVE FALSE
    OBVIOUS
  <2>1. /\ k \in Nat /\ k + 1 \in 1..(Len(w) - 1) /\ k + 1 \in 1..Len(w) /\ k + 1 + 1 = k + 2
        /\ \A i \in 1..Len(v) : w[k + 1] # v[i]
    BY <1>2, <1>4
  <2>2. t[w[k + 1]] = v[j] /\ w[k + 1] \in Pages
    BY <1>1, <1>2, <2>1 DEF IsChain
  <2>3. CASE j = 1
    BY <1>1, <2>2, <2>3 DEF Alone
  <2>4. CASE j # 1
    <3>1. w[k + 1] = v[j - 1] /\ j - 1 \in 1..Len(v)
      BY <1>1, <1>j, <2>2, <2>4 DEF Alone
    <3> QED BY <2>1, <3>1
  <2> QED BY <2>3, <2>4
<1>5. J = Nat
  <2> HIDE DEF J
  <2>1. J \in SUBSET Nat BY DEF J
  <2> QED BY <1>3, <1>4, <2>1, Upward
<1>6. \A i \in 1..Len(w), j \in 1..Len(v) : w[i] # v[j]
  <2>1. \A i \in 1..Len(w) : i - 1 \in Nat /\ i - 1 + 1 = i /\ i <= Len(w)
    BY <1>2
  <2> QED BY <1>5, <2>1
<1> QED BY <1>2, <1>6 DEF w, v

-----------------------------------------------------------------------------
(* Tables and directories that fit.                                        *)

Dirs == [Slots -> Entry \cup {NoFile}]
Used(d) == {s \in Slots : d[s] # NoFile}
FilePages(t, d, s) == ToSet(Walk(t, d[s].start))

\* Every file is whole, no two share a page, and what belongs to none is free.
Consistent(t, d) ==
  /\ \A s \in Used(d) : Whole(t, d[s].start)
  /\ \A s, u \in Used(d) : s # u =>
       \A x : ~(x \in FilePages(t, d, s) /\ x \in FilePages(t, d, u))
  /\ \A p \in Pages : t[p] # FREE <=> \E s \in Used(d) : p \in FilePages(t, d, s)

\* The starts of files differ.
StartsDiffer(d) == \A s, u \in Used(d) : s # u => d[s].start # d[u].start

LEMMA SealedSame ==
  ASSUME NEW t \in Links
  PROVE  \A p \in Pages : Sealed(t)[p] = t[p]
BY Numbers, LinksAre DEF Sealed

\* pfschecker.c: what the checker keeps and the table it writes fit.
LEMMA RebuiltFits ==
  ASSUME dir \in Dirs, StartsDiffer(dir), NEW t \in Links, NEW S,
         \A p \in Pages : S[p] = Rebuilt(t)[p],
         NEW D \in Dirs, \A s \in Slots : D[s] = IF s \in Broken(t) THEN NoFile ELSE dir[s]
  PROVE  Consistent(S, D)
<1> DEFINE used == UNION {ToSet(Walk(t, dir[s].start)) : s \in Kept(t)}
<1>1. \A s \in Slots : s \in Used(D) <=> s \in Kept(t)
  BY DEF Used, Kept, Broken
<1>2. \A s \in Kept(t) : /\ s \in Used(D) /\ s \in Used(dir) /\ D[s] = dir[s]
                         /\ Whole(t, dir[s].start)
  BY DEF Used, Kept, Broken
<1>3. \A p \in Pages : S[p] = IF p \in used THEN t[p] ELSE FREE
  BY Numbers DEF Rebuilt
<1>4. \A s \in Kept(t) : \A x \in ToSet(Walk(t, dir[s].start)) :
        /\ x \in used /\ x \in Pages /\ t[x] # FREE
  <2> SUFFICES ASSUME NEW s \in Kept(t), NEW x \in ToSet(Walk(t, dir[s].start))
               PROVE  x \in used /\ x \in Pages /\ t[x] # FREE
    OBVIOUS
  <2>1. IsChain(t, dir[s].start, Walk(t, dir[s].start))
    BY <1>2, WholeIs
  <2>2. x \in Pages /\ t[x] # FREE
    BY <2>1, ChainPages
  <2> QED BY <2>2
<1>5. ASSUME NEW s \in Used(D)
      PROVE  /\ Whole(S, D[s].start) /\ FilePages(S, D, s) = ToSet(Walk(t, dir[s].start))
             /\ D[s] = dir[s] /\ s \in Kept(t) /\ Whole(t, dir[s].start)
  <2>1. s \in Kept(t) /\ D[s] = dir[s] /\ Whole(t, dir[s].start)
    BY <1>1, <1>2 DEF Used
  <2> DEFINE p == dir[s].start
             w == Walk(t, p)
  <2>2. \A x \in ToSet(w) : S[x] = t[x]
    BY <1>3, <1>4, <2>1
  <2>3. \A q \in Pages : S[q] \in ToSet(w) => t[q] = S[q]
    <3> SUFFICES ASSUME NEW q \in Pages, S[q] \in ToSet(w) PROVE t[q] = S[q]
      OBVIOUS
    <3>1. S[q] \in Pages
      BY <1>4, <2>1
    <3>2. S[q] # FREE
      BY <3>1, Numbers
    <3> HIDE DEF used
    <3> QED BY <1>3, <3>2
  <2>4. Whole(S, p) /\ Walk(S, p) = w
    BY <2>1, <2>2, <2>3, StaysWhole
  <2> QED BY <2>1, <2>4 DEF FilePages
<1>6. ASSUME NEW s \in Used(D), NEW u \in Used(D), s # u, NEW x
      PROVE  ~(x \in FilePages(S, D, s) /\ x \in FilePages(S, D, u))
  <2>1. dir[s].start # dir[u].start
    BY <1>2, <1>5, <1>6 DEF StartsDiffer
  <2> QED BY <1>5, <2>1, StartApart
<1>7. ASSUME NEW p \in Pages
      PROVE  S[p] # FREE <=> \E s \in Used(D) : p \in FilePages(S, D, s)
  <2>1. CASE p \in used
    <3>1. PICK s \in Kept(t) : p \in ToSet(Walk(t, dir[s].start))
      BY <2>1
    <3>2. s \in Used(D) /\ p \in FilePages(S, D, s) /\ t[p] # FREE
      BY <1>2, <1>4, <1>5, <3>1
    <3> HIDE DEF used
    <3> QED BY <1>3, <2>1, <3>2
  <2>2. CASE p \notin used
    <3>1. \A s \in Used(D) : p \notin FilePages(S, D, s)
      BY <1>5, <2>2
    <3> HIDE DEF used
    <3> QED BY <1>3, <2>2, <3>1
  <2> QED BY <2>1, <2>2
<1> QED BY <1>5, <1>6, <1>7 DEF Consistent

\* pfsreformat.c: an empty pak.
LEMMA EmptyFits ==
  ASSUME NEW S, \A p \in Pages : S[p] = FREE, NEW D, \A s \in Slots : D[s] = NoFile
  PROVE  Consistent(S, D)
BY DEF Consistent, Used

\* pfsdeletefile.c: the pages of one file are freed, and it leaves the directory.
LEMMA ReleasedFits ==
  ASSUME NEW t, NEW d, Consistent(t, d), NEW f \in Used(d), NEW S,
         \A p \in Pages : S[p] = IF p \in FilePages(t, d, f) THEN FREE ELSE t[p],
         NEW D, D[f] = NoFile, \A s \in Slots : s # f => D[s] = d[s]
  PROVE  Consistent(S, D)
<1>1. \A s \in Slots : s \in Used(D) <=> s \in Used(d) /\ s # f
  BY DEF Used
<1>c. \A s \in Used(d) : /\ Whole(t, d[s].start)
                         /\ IsChain(t, d[s].start, Walk(t, d[s].start))
  BY WholeIs DEF Consistent
<1>2. ASSUME NEW s \in Used(D)
      PROVE  /\ s \in Used(d) /\ s # f /\ D[s] = d[s]
             /\ Whole(S, D[s].start) /\ FilePages(S, D, s) = FilePages(t, d, s)
             /\ \A x \in FilePages(t, d, s) : x \in Pages /\ x \notin FilePages(t, d, f)
  <2>1. s \in Slots /\ s \in Used(d) /\ s # f /\ D[s] = d[s]
    BY <1>1 DEF Used
  <2> DEFINE p == d[s].start
             w == Walk(t, p)
  <2>2. Whole(t, p) /\ IsChain(t, p, w)
    BY <1>c, <2>1
  <2>3. \A x \in ToSet(w) : x \in Pages /\ x \notin FilePages(t, d, f)
    <3>1. \A x \in ToSet(w) : x \in Pages
      BY <2>2, ChainPages
    <3>2. \A x \in ToSet(w) : x \notin FilePages(t, d, f)
      BY <2>1 DEF Consistent, FilePages
    <3> QED BY <3>1, <3>2
  <2>4. \A x \in ToSet(w) : S[x] = t[x]
    BY <2>3
  <2>5. \A q \in Pages : S[q] \in ToSet(w) => t[q] = S[q]
    <3> SUFFICES ASSUME NEW q \in Pages, S[q] \in ToSet(w) PROVE t[q] = S[q]
      OBVIOUS
    <3>1. S[q] \in Pages
      BY <2>3
    <3>2. S[q] # FREE
      BY <3>1, Numbers
    <3> QED BY <3>2
  <2>6. Whole(S, p) /\ Walk(S, p) = w
    BY <2>2, <2>4, <2>5, StaysWhole
  <2> QED BY <2>1, <2>3, <2>6 DEF FilePages
<1>3. \A s, u \in Used(D) : s # u =>
        \A x : ~(x \in FilePages(S, D, s) /\ x \in FilePages(S, D, u))
  BY <1>2 DEF Consistent
<1>4. ASSUME NEW p \in Pages
      PROVE  S[p] # FREE <=> \E s \in Used(D) : p \in FilePages(S, D, s)
  <2>0. t[p] # FREE <=> \E s \in Used(d) : p \in FilePages(t, d, s)
    BY DEF Consistent
  <2>1. CASE p \in FilePages(t, d, f)
    BY <1>2, <2>1
  <2>2. CASE p \notin FilePages(t, d, f)
    <3>1. S[p] = t[p]
      BY <2>2
    <3>2. \A s \in Used(d) : p \in FilePages(t, d, s) => s \in Used(D)
      BY <1>1, <2>2 DEF Used
    <3> QED BY <1>2, <2>0, <3>1, <3>2
  <2> QED BY <2>1, <2>2
<1> QED BY <1>2, <1>3, <1>4 DEF Consistent

\* A directory whose entries start where they did.
LEMMA StatusFits ==
  ASSUME NEW t, NEW d, Consistent(t, d), NEW D,
         \A s \in Slots : (D[s] = NoFile <=> d[s] = NoFile) /\ D[s].start = d[s].start
  PROVE  Consistent(t, D)
<1>1. Used(D) = Used(d)
  BY DEF Used
<1>2. \A s \in Used(d) : FilePages(t, D, s) = FilePages(t, d, s) /\ D[s].start = d[s].start
  BY DEF FilePages, Used
<1> QED BY <1>1, <1>2 DEF Consistent

LEMMA FreePagesAre ==
  ASSUME NEW t
  PROVE  LET free == FreePages(t)
         IN  /\ free \in Seq(Pages) /\ Len(free) \in Nat
             /\ \A i \in 1..Len(free) : t[free[i]] = FREE
             /\ \A i, j \in 1..Len(free) : free[i] = free[j] => i = j
<1> DEFINE F == {p \in Pages : t[p] = FREE}
           free == Ascending(F)
<1>1. F \in SUBSET (0..127)
  BY PagesFinite
<1> HIDE DEF F
<1>2. /\ free \in Seq(F) /\ Len(free) = Cardinality(F) /\ Cardinality(F) \in Nat
      /\ \A i, j \in 1..Cardinality(F) : i < j => free[i] < free[j]
  BY <1>1, AscendingSeq, Ordered
<1> HIDE DEF free
<1>3. \A i \in 1..Len(free) : free[i] \in F /\ free[i] \in Nat
  <2>1. \A i \in 1..Len(free) : free[i] \in F
    BY <1>2, ElementOfSeq
  <2>2. \A x \in F : x \in Nat
    BY <1>1
  <2> QED BY <2>1, <2>2
<1>4. \A i \in 1..Len(free) : t[free[i]] = FREE
  BY <1>3 DEF F
<1>5. ASSUME NEW i \in 1..Len(free), NEW j \in 1..Len(free), free[i] = free[j] PROVE i = j
  <2>1. ~(i < j) /\ ~(j < i)
    BY <1>2, <1>3, <1>5
  <2> QED BY <1>2, <2>1
<1>6. free = FreePages(t)
  BY DEF free, F, FreePages
<1>7. FreePages(t) \in Seq(Pages)
  BY FreePagesType
<1> QED BY <1>2, <1>4, <1>5, <1>6, <1>7

LEMMA DeclaredIs ==
  ASSUME NEW t \in Links, NEW n \in Nat \ {0}, n <= Len(FreePages(t))
  PROVE  LET new == __osPfsDeclearPage(t, n)
             got == new.pages
         IN  /\ got \in Seq(Pages) /\ Len(got) = n /\ new.first = got[1]
             /\ \A i \in 1..n : got[i] \in Pages /\ t[got[i]] = FREE
             /\ \A i, j \in 1..n : got[i] = got[j] => i = j
             /\ \A i \in 1..(n - 1) : new.inode[got[i]] = got[i + 1]
             /\ new.inode[got[n]] = EOF
             /\ \A p \in Pages : p \notin ToSet(got) => new.inode[p] = t[p]
             /\ \A p : p \in ToSet(got) <=> \E i \in 1..n : got[i] = p
<1> DEFINE free == FreePages(t)
           got == SubSeq(free, 1, n)
           next(e) == CHOOSE i \in 2..n : got[i - 1] = e
           u == [e \in Entries |-> IF e \notin ToSet(got) THEN t[e]
                                   ELSE IF e = Last(got) THEN EOF ELSE got[next(e)]]
<1>1. /\ __osPfsDeclearPage(t, n).inode = u
      /\ __osPfsDeclearPage(t, n).first = got[1]
      /\ __osPfsDeclearPage(t, n).pages = got
  BY DEF __osPfsDeclearPage
<1>2. /\ free \in Seq(Pages) /\ Len(free) \in Nat /\ n <= Len(free)
      /\ \A i \in 1..Len(free) : t[free[i]] = FREE
      /\ \A i, j \in 1..Len(free) : free[i] = free[j] => i = j
  BY FreePagesAre
<1> HIDE DEF free
<1>3. \A i \in 1..n : i \in 1..Len(free) /\ free[i] \in Pages
  BY <1>2, ElementOfSeq, LenProperties
<1>4. got \in Seq(Pages) /\ Len(got) = n /\ \A i \in 1..n : got[i] = free[i]
  <2>1. \A i \in 1..n : free[i] \in Pages
    BY <1>3
  <2>2. /\ got \in Seq(Pages) /\ Len(got) = IF 1 <= n THEN n - 1 + 1 ELSE 0
        /\ \A i \in 1..(n - 1 + 1) : got[i] = free[1 + i - 1]
    BY <2>1, SubSeqProperties
  <2> QED BY <2>2
<1> HIDE DEF got
<1>5. /\ DOMAIN got = 1..n /\ \A i \in 1..n : got[i] \in Pages /\ t[got[i]] = FREE
      /\ \A i, j \in 1..n : got[i] = got[j] => i = j
  BY <1>2, <1>3, <1>4, LenProperties
<1>6. \A p : p \in ToSet(got) <=> \E i \in 1..n : got[i] = p
  BY <1>5 DEF ToSet
<1>7. Last(got) = got[n]
  BY <1>4 DEF Last
<1>8. ASSUME NEW i \in 1..(n - 1) PROVE u[got[i]] = got[i + 1]
  <2>1. i \in 1..n /\ i # n /\ n \in 1..n /\ i + 1 \in 2..n
    OBVIOUS
  <2>2. got[i] \in ToSet(got) /\ got[i] # Last(got) /\ got[i] \in Entries
    BY <1>5, <1>6, <1>7, <2>1, Numbers
  <2>3. next(got[i]) = i + 1
    <3> DEFINE k == i + 1
    <3>1. k \in 2..n /\ got[k - 1] = got[i]
      BY <2>1
    <3> HIDE DEF k
    <3>2. next(got[i]) \in 2..n /\ got[next(got[i]) - 1] = got[i]
      BY <3>1
    <3> HIDE DEF next
    <3>3. next(got[i]) - 1 \in 1..n
      BY <3>2
    <3>4. next(got[i]) - 1 = i
      BY <1>5, <2>1, <3>2, <3>3
    <3> QED BY <3>2, <3>4
  <2> HIDE DEF next
  <2> QED BY <2>2, <2>3
<1>9. u[got[n]] = EOF
  <2>1. n \in 1..n
    OBVIOUS
  <2>2. got[n] \in ToSet(got) /\ got[n] \in Entries
    BY <1>5, <1>6, <2>1, Numbers
  <2> HIDE DEF next
  <2> QED BY <1>7, <2>2
<1>10. \A p \in Pages : p \notin ToSet(got) => u[p] = t[p]
  BY Numbers
<1> HIDE DEF u
<1> QED BY <1>1, <1>4, <1>5, <1>6, <1>8, <1>9, <1>10

\* pfsallocatefile.c: a new file's pages, out of those that were free.
LEMMA DeclaredFits ==
  ASSUME NEW t \in Links, NEW d, Consistent(t, d),
         NEW n \in Nat \ {0}, n <= Len(FreePages(t)), NEW S,
         \A p \in Pages : S[p] = __osPfsDeclearPage(t, n).inode[p],
         NEW f \in Slots, d[f] = NoFile,
         NEW D, D[f] # NoFile, D[f].start = __osPfsDeclearPage(t, n).first,
         \A s \in Slots : s # f => D[s] = d[s]
  PROVE  /\ Consistent(S, D)
         /\ \A s \in Used(d) : d[s].start # __osPfsDeclearPage(t, n).first
         /\ Walk(S, D[f].start) = __osPfsDeclearPage(t, n).pages
<1> DEFINE got == __osPfsDeclearPage(t, n).pages
           new == __osPfsDeclearPage(t, n).inode
           p0 == __osPfsDeclearPage(t, n).first
<1>1. /\ got \in Seq(Pages) /\ Len(got) = n /\ p0 = got[1]
      /\ \A i \in 1..n : got[i] \in Pages /\ t[got[i]] = FREE
      /\ \A i, j \in 1..n : got[i] = got[j] => i = j
      /\ \A i \in 1..(n - 1) : new[got[i]] = got[i + 1]
      /\ new[got[n]] = EOF
      /\ \A p \in Pages : p \notin ToSet(got) => new[p] = t[p]
      /\ \A p : p \in ToSet(got) <=> \E i \in 1..n : got[i] = p
  BY DeclaredIs
<1>s. (\A p \in Pages : S[p] = new[p]) /\ D[f].start = p0
  OBVIOUS
<1> HIDE DEF got, new, p0
<1>2. /\ \A i \in 1..(n - 1) : S[got[i]] = got[i + 1]
      /\ S[got[n]] = EOF
      /\ \A p \in Pages : p \notin ToSet(got) => S[p] = t[p]
      /\ \A p \in ToSet(got) : p \in Pages /\ t[p] = FREE
      /\ \A p \in ToSet(got) : S[p] = EOF \/ S[p] \in ToSet(got)
  <2>1. \A i \in 1..(n - 1) : i \in 1..n /\ i + 1 \in 1..n
    OBVIOUS
  <2>2. n \in 1..n /\ \A i \in 1..n : i = n \/ i \in 1..(n - 1)
    OBVIOUS
  <2>3. \A i \in 1..(n - 1) : S[got[i]] = got[i + 1]
    BY <1>1, <1>s, <2>1
  <2>4. S[got[n]] = EOF
    BY <1>1, <1>s, <2>2
  <2>5. ASSUME NEW p \in ToSet(got) PROVE S[p] = EOF \/ S[p] \in ToSet(got)
    <3>1. PICK i \in 1..n : got[i] = p
      BY <1>1
    <3>2. CASE i = n
      BY <2>4, <3>1, <3>2
    <3>3. CASE i # n
      <4>1. i \in 1..(n - 1) /\ i + 1 \in 1..n
        BY <3>1, <3>3
      <4>2. S[p] = got[i + 1] /\ got[i + 1] \in ToSet(got)
        BY <1>1, <2>3, <3>1, <4>1
      <4> QED BY <4>2
    <3> QED BY <3>2, <3>3
  <2> QED BY <1>1, <1>s, <2>3, <2>4, <2>5
<1>3. \A s \in Used(d) : /\ s # f /\ s \in Slots /\ D[s] = d[s]
                         /\ Whole(t, d[s].start)
                         /\ IsChain(t, d[s].start, Walk(t, d[s].start))
  BY WholeIs DEF Consistent, Used
<1>4. ASSUME NEW s \in Used(d)
      PROVE  /\ \A x \in FilePages(t, d, s) : /\ x \in Pages /\ t[x] # FREE
                                              /\ t[x] = EOF \/ t[x] \in FilePages(t, d, s)
                                              /\ x \notin ToSet(got)
             /\ d[s].start \in FilePages(t, d, s)
  <2>1. IsChain(t, d[s].start, Walk(t, d[s].start))
    BY <1>3
  <2> QED BY <1>2, <2>1, ChainPages DEF FilePages
<1>5. \A s \in Slots : s \in Used(D) <=> s \in Used(d) \/ s = f
  BY DEF Used
<1>6. ASSUME NEW s \in Used(d)
      PROVE  Whole(S, D[s].start) /\ FilePages(S, D, s) = FilePages(t, d, s)
  <2> DEFINE p == d[s].start
             w == Walk(t, p)
  <2>1. Whole(t, p) /\ D[s] = d[s]
    BY <1>3
  <2>w. ToSet(w) = FilePages(t, d, s)
    BY DEF FilePages
  <2>2. \A x \in ToSet(w) : S[x] = t[x]
    BY <1>2, <1>4, <2>w
  <2>3. \A q \in Pages : S[q] \in ToSet(w) => t[q] = S[q]
    <3> SUFFICES ASSUME NEW q \in Pages, S[q] \in ToSet(w) PROVE t[q] = S[q]
      OBVIOUS
    <3>1. S[q] \in Pages /\ S[q] \notin ToSet(got)
      BY <1>4, <2>w
    <3>2. q \notin ToSet(got)
      BY <1>2, <3>1, Numbers
    <3> QED BY <1>2, <3>2
  <2>4. Whole(S, p) /\ Walk(S, p) = w
    BY <2>1, <2>2, <2>3, StaysWhole
  <2> QED BY <2>1, <2>4 DEF FilePages
<1>7. Whole(S, p0) /\ Walk(S, p0) = got
  <2>1. IsChain(S, p0, got)
    BY <1>1, <1>2 DEF IsChain
  <2>2. ASSUME NEW q \in Pages, S[q] \in ToSet(got) PROVE q \in ToSet(got)
    <3> SUFFICES ASSUME q \notin ToSet(got) PROVE FALSE
      OBVIOUS
    <3>1. t[q] \in ToSet(got) /\ t[q] \in Pages /\ t[q] # FREE /\ t[q] # EOF
      BY <1>2, <2>2, Numbers
    <3>2. PICK s \in Used(d) : q \in FilePages(t, d, s)
      BY <3>1, <1>2, <2>2, Numbers DEF Consistent
    <3> QED BY <1>4, <3>1, <3>2
  <2>3. Alone(S, got)
    <3>1. \A j \in 1..n : j = n \/ j \in 1..(n - 1)
      OBVIOUS
    <3>2. ASSUME NEW q \in Pages, NEW i \in 1..n, S[q] = got[i]
          PROVE  i # 1 /\ q = got[i - 1]
      <4>1. got[i] \in ToSet(got) /\ got[i] \in Pages
        BY <1>1
      <4>2. PICK j \in 1..n : got[j] = q
        BY <1>1, <2>2, <3>2, <4>1
      <4>3. j # n
        BY <1>2, <3>2, <4>1, <4>2, Numbers
      <4>4. j \in 1..(n - 1) /\ j + 1 \in 1..n
        BY <4>2, <4>3
      <4>5. got[j + 1] = got[i]
        BY <1>2, <3>2, <4>2, <4>4
      <4>6. j + 1 = i
        BY <1>1, <4>4, <4>5
      <4>7. i - 1 = j /\ i # 1
        BY <4>4, <4>6
      <4> QED BY <4>2, <4>7
    <3>3. 1 \in 1..n /\ \A i \in 2..Len(got) : i \in 1..n
      BY <1>1
    <3> QED BY <3>2, <3>3 DEF Alone
  <2> QED BY <2>1, <2>3, WholeIs
<1>8. FilePages(S, D, f) = ToSet(got) /\ Whole(S, D[f].start)
  BY <1>s, <1>7 DEF FilePages
<1>9. ASSUME NEW s \in Used(D), NEW u \in Used(D), s # u, NEW x
      PROVE  ~(x \in FilePages(S, D, s) /\ x \in FilePages(S, D, u))
  <2>0. s \in Slots /\ u \in Slots
    BY DEF Used
  <2>1. CASE s \in Used(d) /\ u \in Used(d)
    BY <1>6, <1>9, <2>1 DEF Consistent
  <2>2. CASE s = f /\ u \in Used(d)
    BY <1>4, <1>6, <1>8, <2>2
  <2>3. CASE u = f /\ s \in Used(d)
    BY <1>4, <1>6, <1>8, <2>3
  <2> QED BY <1>5, <1>9, <2>0, <2>1, <2>2, <2>3
<1>10. ASSUME NEW p \in Pages
       PROVE  S[p] # FREE <=> \E s \in Used(D) : p \in FilePages(S, D, s)
  <2>0. t[p] # FREE <=> \E s \in Used(d) : p \in FilePages(t, d, s)
    BY DEF Consistent
  <2>1. f \in Used(D) /\ \A s \in Used(d) : s \in Used(D)
    BY <1>3, <1>5
  <2>2. CASE p \in ToSet(got)
    BY <1>2, <1>8, <2>1, <2>2, Numbers
  <2>3. CASE p \notin ToSet(got)
    <3>1. S[p] = t[p]
      BY <1>2, <2>3
    <3>2. \A s \in Used(D) : p \in FilePages(S, D, s) => s \in Used(d)
      BY <1>5, <1>8, <2>3 DEF Used
    <3> QED BY <1>6, <2>0, <2>1, <3>1, <3>2
  <2> QED BY <2>2, <2>3
<1>11. \A s \in Used(D) : Whole(S, D[s].start)
  <2>1. \A s \in Used(D) : s \in Used(d) \/ s = f
    BY <1>5 DEF Used
  <2> QED BY <1>6, <1>8, <2>1
<1>12. \A s \in Used(d) : d[s].start # p0
  <2>1. p0 \in ToSet(got)
    <3>1. 1 \in 1..n
      OBVIOUS
    <3> QED BY <1>1, <3>1
  <2> QED BY <1>4, <2>1
<1>13. Consistent(S, D)
  BY <1>9, <1>10, <1>11 DEF Consistent
<1>14. Walk(S, D[f].start) = got
  BY <1>s, <1>7
<1> QED BY <1>12, <1>13, <1>14 DEF p0, got

-----------------------------------------------------------------------------
(* Where the directory is heading.                                         *)

\* A set of numbers in ascending order leaves none out.
LEMMA AscendingAll ==
  ASSUME NEW m \in Nat, NEW S \in SUBSET (0..m)
  PROVE  \A x \in S : \E i \in DOMAIN Ascending(S) : Ascending(S)[i] = x
<1> DEFINE f == Ascending(S)
           n == Cardinality(S)
<1>1. /\ IsFiniteSet(S) /\ n \in Nat /\ f \in [1..n -> S]
      /\ \A i, j \in 1..n : i < j => f[i] < f[j]
  BY Ordered
<1> HIDE DEF f, n
<1>2. \A i, j \in 1..n : f[i] = f[j] => i = j
  <2> SUFFICES ASSUME NEW i \in 1..n, NEW j \in 1..n, f[i] = f[j] PROVE i = j
    OBVIOUS
  <2>1. f[i] \in Nat /\ f[j] \in Nat
    <3>1. f[i] \in S /\ f[j] \in S
      BY <1>1
    <3>2. \A x \in S : x \in Nat
      OBVIOUS
    <3> QED BY <3>1, <3>2
  <2>2. ~(i < j) /\ ~(j < i)
    BY <1>1, <2>1
  <2> QED BY <1>1, <2>2
<1>3. f \in Injection(1..n, S)
  BY <1>1, <1>2 DEF Injection, IsInjective
<1>4. Cardinality(1..n) = n
  BY <1>1, FS_Interval
<1>5. f \in Surjection(1..n, S)
  BY <1>1, <1>3, <1>4, FS_Injection DEF n
<1>6. \A x \in S : \E i \in 1..n : f[i] = x
  BY <1>5 DEF Surjection
<1>7. DOMAIN f = 1..n
  BY <1>1
<1> QED BY <1>6, <1>7 DEF f

\* Once the writes W are done, the directory d has become D: the last write to
\* an entry decides what it is.
Leads(W, d, D) ==
  /\ \A s \in Slots : Pending(W, 1, "dir", s) \/ D[s] = d[s]
  /\ \A i \in 1..Len(W) : W[i].to = "dir" /\ ~Pending(W, i + 1, "dir", W[i].at) =>
       D[W[i].at] = W[i].val

\* The entries, by place and first page, that a directory has or W writes.
Starts(d) == {<<s, d[s].start>> : s \in Used(d)}
Named(W) == {<<W[i].at, W[i].val.start>> :
               i \in {j \in 1..Len(W) : W[j].to = "dir" /\ W[j].val # NoFile}}
Distinct(K) == \A a, b \in K : a[1] # b[1] => a[2] # b[2]

\* W turns d into D and names only entries of K.
Turns(W, d, D, K) == W \in Seq(Writes) /\ Leads(W, d, D) /\ Named(W) \subseteq K

LEMMA TurnsTail ==
  ASSUME NEW W \in Seq(Writes), W # <<>>, NEW d \in Dirs, NEW f,
         f = IF Head(W).to = "dir" THEN [d EXCEPT ![Head(W).at] = Head(W).val] ELSE d
  PROVE  /\ \A D : Leads(W, d, D) => Leads(Tail(W), f, D)
         /\ Starts(f) \cup Named(Tail(W)) \subseteq Starts(d) \cup Named(W)
<1> DEFINE V == Tail(W)
           w == Head(W)
<1>1. /\ V \in Seq(Writes) /\ Len(W) \in Nat \ {0} /\ Len(V) = Len(W) - 1
      /\ w = W[1] /\ w \in Writes /\ \A k \in 1..Len(V) : V[k] = W[k + 1]
  BY HeadTail
<1>2. /\ \A x, b : \A i \in 1..Len(V) : Pending(W, i + 2, x, b) => Pending(V, i + 1, x, b)
      /\ \A x, b : Pending(W, 2, x, b) => Pending(V, 1, x, b)
      /\ \A x, b : Pending(W, 1, x, b) => (w.to = x /\ w.at = b) \/ Pending(V, 1, x, b)
  BY PendingTail
<1>3. f = IF w.to = "dir" THEN [d EXCEPT ![w.at] = w.val] ELSE d
  OBVIOUS
<1> HIDE DEF V, w
<1>4. \A i \in 1..Len(V) : i + 1 \in 1..Len(W) /\ i + 1 + 1 = i + 2
  BY <1>1
<1>5. w.to = "dir" => w.at \in Slots
  BY <1>1 DEF Writes, TableWrites, EntryWrites, DataPages, Copies
<1>6. ASSUME NEW D, Leads(W, d, D), NEW s \in Slots, ~Pending(V, 1, "dir", s)
      PROVE  D[s] = f[s]
  <2>1. CASE w.to = "dir" /\ w.at = s
    <3>1. 1 \in 1..Len(W) /\ ~Pending(W, 1 + 1, "dir", s)
      BY <1>1, <1>2, <1>6
    <3>2. D[s] = w.val
      BY <1>1, <1>6, <2>1, <3>1 DEF Leads
    <3> QED BY <1>3, <2>1, <3>2 DEF Dirs
  <2>2. CASE ~(w.to = "dir" /\ w.at = s)
    <3>1. D[s] = d[s]
      BY <1>2, <1>6, <2>2 DEF Leads
    <3> QED BY <1>3, <2>2, <3>1 DEF Dirs
  <2> QED BY <2>1, <2>2
<1>7. ASSUME NEW D, Leads(W, d, D), NEW i \in 1..Len(V), V[i].to = "dir",
             ~Pending(V, i + 1, "dir", V[i].at)
      PROVE  D[V[i].at] = V[i].val
  <2> DEFINE k == i + 1
  <2>1. k \in 1..Len(W) /\ V[i] = W[k] /\ k + 1 = i + 2
    BY <1>1, <1>4
  <2> HIDE DEF k
  <2>2. ~Pending(W, k + 1, "dir", W[k].at)
    BY <1>2, <1>7, <2>1
  <2> QED BY <1>7, <2>1, <2>2 DEF Leads
<1>8. \A D : Leads(W, d, D) => Leads(V, f, D)
  BY <1>6, <1>7 DEF Leads
<1>9. Named(V) \subseteq Named(W)
  <2> SUFFICES ASSUME NEW i \in 1..Len(V), V[i].to = "dir", V[i].val # NoFile
               PROVE  <<V[i].at, V[i].val.start>> \in Named(W)
    BY DEF Named
  <2> DEFINE k == i + 1
  <2>1. k \in 1..Len(W) /\ V[i] = W[k]
    BY <1>1, <1>4
  <2> HIDE DEF k
  <2> QED BY <2>1 DEF Named
<1>10. ASSUME NEW s \in Used(f) PROVE <<s, f[s].start>> \in Starts(d) \cup Named(W)
  <2>1. CASE w.to = "dir" /\ w.at = s
    <3>1. f[s] = w.val /\ w.val # NoFile /\ 1 \in 1..Len(W)
      BY <1>1, <1>3, <2>1 DEF Used, Dirs
    <3> QED BY <1>1, <2>1, <3>1 DEF Named
  <2>2. CASE ~(w.to = "dir" /\ w.at = s)
    <3>1. f[s] = d[s] /\ s \in Used(d)
      BY <1>3, <2>2 DEF Used, Dirs
    <3> QED BY <3>1 DEF Starts
  <2> QED BY <2>1, <2>2
<1>11. Starts(f) \subseteq Starts(d) \cup Named(W)
  BY <1>10 DEF Starts
<1> QED BY <1>8, <1>9, <1>11 DEF V

\* One after the other.
LEMMA TurnsJoin ==
  ASSUME NEW A, NEW B, NEW d, NEW E, NEW D, NEW K, Turns(A, d, E, K), Turns(B, E, D, K)
  PROVE  Turns(A \o B, d, D, K)
<1>1. A \in Seq(Writes) /\ B \in Seq(Writes)
  BY DEF Turns
<1> DEFINE V == A \o B
<1>2. /\ V \in Seq(Writes) /\ Len(A) \in Nat /\ Len(B) \in Nat
      /\ Len(V) = Len(A) + Len(B)
      /\ \A i \in 1..(Len(A) + Len(B)) :
           V[i] = IF i <= Len(A) THEN A[i] ELSE B[i - Len(A)]
  BY <1>1, ConcatProperties, LenProperties
<1> HIDE DEF V
<1>3. /\ \A i \in 1..Len(A) : i \in 1..Len(V) /\ V[i] = A[i]
      /\ \A i \in 1..Len(B) : i + Len(A) \in 1..Len(V) /\ V[i + Len(A)] = B[i]
  <2>1. \A i \in 1..Len(B) : i + Len(A) - Len(A) = i
    BY <1>2
  <2> QED BY <1>2, <2>1
<1>4. \A i \in 1..Len(V) : i \in 1..Len(A) \/ \E j \in 1..Len(B) : i = j + Len(A)
  <2>1. \A i \in 1..Len(V) : i > Len(A) => i - Len(A) \in 1..Len(B) /\ i = i - Len(A) + Len(A)
    BY <1>2
  <2> QED BY <1>2, <2>1
<1>5. ASSUME NEW k \in Nat, NEW x, NEW b, Pending(A, k, x, b), k >= 1 PROVE Pending(V, k, x, b)
  <2>1. PICK m \in k..Len(A) : A[m].to = x /\ A[m].at = b
    BY <1>5 DEF Pending
  <2>2. m \in 1..Len(A) /\ m \in k..Len(V)
    BY <1>2, <1>5
  <2> QED BY <1>3, <2>1, <2>2 DEF Pending
<1>6. ASSUME NEW k \in Nat, NEW x, NEW b, NEW l \in Nat, l <= k + Len(A), k >= 1, Pending(B, k, x, b)
      PROVE  Pending(V, l, x, b)
  <2>1. PICK m \in k..Len(B) : B[m].to = x /\ B[m].at = b
    BY <1>6 DEF Pending
  <2> DEFINE j == m + Len(A)
  <2>2. m \in 1..Len(B) /\ j \in l..Len(V)
    BY <1>2, <1>6
  <2>3. V[j] = B[m]
    BY <1>3, <2>2
  <2> HIDE DEF j
  <2> QED BY <2>1, <2>2, <2>3 DEF Pending
<1>7. ASSUME NEW s \in Slots, ~Pending(V, 1, "dir", s) PROVE D[s] = d[s]
  <2>1. ~Pending(A, 1, "dir", s)
    BY <1>5, <1>7
  <2>2. ~Pending(B, 1, "dir", s)
    BY <1>2, <1>6, <1>7
  <2> QED BY <2>1, <2>2 DEF Turns, Leads
<1>t. \A i \in 1..Len(A) : A[i].to = "dir" => A[i].at \in Slots
  <2>1. \A i \in 1..Len(A) : A[i] \in Writes
    BY <1>1, ElementOfSeq
  <2> QED BY <2>1 DEF Writes, TableWrites, EntryWrites, DataPages, Copies
<1>8. ASSUME NEW i \in 1..Len(V), V[i].to = "dir", ~Pending(V, i + 1, "dir", V[i].at)
      PROVE  D[V[i].at] = V[i].val
  <2>1. CASE i \in 1..Len(A)
    <3>1. V[i] = A[i] /\ A[i].at \in Slots
      BY <1>3, <1>8, <1>t, <2>1
    <3>2. ~Pending(A, i + 1, "dir", A[i].at)
      BY <1>5, <1>8, <2>1, <3>1
    <3>3. ~Pending(B, 1, "dir", A[i].at)
      <4>1. i + 1 \in Nat /\ i + 1 <= 1 + Len(A)
        BY <1>2, <2>1
      <4> QED BY <1>6, <1>8, <3>1, <4>1
    <3> QED BY <1>8, <2>1, <3>1, <3>2, <3>3 DEF Turns, Leads
  <2>2. ASSUME NEW j \in 1..Len(B), i = j + Len(A) PROVE D[V[i].at] = V[i].val
    <3>1. V[i] = B[j]
      BY <1>3, <2>2
    <3>2. ~Pending(B, j + 1, "dir", B[j].at)
      <4>1. i + 1 \in Nat /\ j + 1 \in Nat /\ i + 1 <= j + 1 + Len(A) /\ j + 1 >= 1
        BY <1>2, <2>2
      <4> QED BY <1>6, <1>8, <3>1, <4>1
    <3> QED BY <1>8, <3>1, <3>2 DEF Turns, Leads
  <2> QED BY <1>4, <2>1, <2>2
<1>9. Named(V) \subseteq K
  <2>1. Named(V) \subseteq Named(A) \cup Named(B)
    <3> SUFFICES ASSUME NEW i \in 1..Len(V), V[i].to = "dir", V[i].val # NoFile
                 PROVE  <<V[i].at, V[i].val.start>> \in Named(A) \cup Named(B)
      BY DEF Named
    <3>1. CASE i \in 1..Len(A)
      BY <1>3, <3>1 DEF Named
    <3>2. ASSUME NEW j \in 1..Len(B), i = j + Len(A)
          PROVE  <<V[i].at, V[i].val.start>> \in Named(B)
      <4>1. V[i] = B[j]
        BY <1>3, <3>2
      <4> QED BY <4>1 DEF Named
    <3> QED BY <1>4, <3>1, <3>2
  <2> QED BY <2>1 DEF Turns
<1>10. Turns(V, d, D, K)
  BY <1>2, <1>7, <1>8, <1>9 DEF Turns, Leads
<1> QED BY <1>10 DEF V

\* Writes of tables and data leave the directory alone.
LEMMA NoTurn ==
  ASSUME NEW W \in Seq(Writes), \A k \in 1..Len(W) : W[k].to # "dir", NEW d, NEW K
  PROVE  Turns(W, d, d, K)
<1>1. \A s : ~Pending(W, 1, "dir", s)
  BY DEF Pending
<1>2. Named(W) = {}
  BY DEF Named
<1> QED BY <1>1, <1>2 DEF Turns, Leads

LEMMA OneTurn ==
  ASSUME NEW s \in Slots, NEW v \in Entry \cup {NoFile}, NEW d \in Dirs, NEW K,
         v # NoFile => <<s, v.start>> \in K
  PROVE  Turns(<<Write("dir", s, v)>>, d, [d EXCEPT ![s] = v], K)
<1> DEFINE w == Write("dir", s, v)
           W == <<w>>
           D == [d EXCEPT ![s] = v]
<1>1. w \in Writes /\ w.to = "dir" /\ w.at = s /\ w.val = v
  BY WriteTypes DEF Writes
<1> HIDE DEF w
<1>2. W \in Seq(Writes) /\ Len(W) = 1 /\ W[1] = w
  BY <1>1
<1> HIDE DEF W
<1>3. Pending(W, 1, "dir", s)
  BY <1>1, <1>2 DEF Pending
<1>4. D[s] = v /\ \A u \in Slots : u # s => D[u] = d[u]
  BY DEF Dirs
<1>5. Leads(W, d, D)
  <2>1. \A u \in Slots : Pending(W, 1, "dir", u) \/ D[u] = d[u]
    BY <1>3, <1>4
  <2>2. \A i \in 1..Len(W) : W[i] = w
    BY <1>2
  <2> HIDE DEF D
  <2> QED BY <1>1, <1>4, <2>1, <2>2 DEF Leads
<1>6. Named(W) \subseteq K
  <2>2. \A i \in 1..Len(W) : W[i] = w
    BY <1>2
  <2> QED BY <1>1, <2>2 DEF Named
<1> QED BY <1>2, <1>5, <1>6 DEF Turns, W, w

\* Entries cleared one after the other.
LEMMA ClearsTurn ==
  ASSUME NEW G \in Seq(Slots), NEW d \in Dirs, NEW D, NEW K,
         \A s \in Slots : D[s] = IF \E i \in 1..Len(G) : G[i] = s THEN NoFile ELSE d[s]
  PROVE  Turns([i \in DOMAIN G |-> Write("dir", G[i], NoFile)], d, D, K)
<1> DEFINE W == [i \in 1..Len(G) |-> Write("dir", G[i], NoFile)]
<1>1. DOMAIN G = 1..Len(G) /\ Len(G) \in Nat /\ \A i \in 1..Len(G) : G[i] \in Slots
  BY LenProperties, ElementOfSeq
<1>2. \A i \in 1..Len(G) : W[i].to = "dir" /\ W[i].at = G[i] /\ W[i].val = NoFile
  BY WriteTypes
<1>3. W \in Seq(Writes) /\ Len(W) = Len(G)
  <2>1. \A i \in 1..Len(G) : Write("dir", G[i], NoFile) \in Writes
    BY <1>1, WriteTypes DEF Writes
  <2>2. W \in [1..Len(G) -> Writes]
    BY <2>1
  <2> HIDE DEF W
  <2> QED BY <1>1, <2>2, SeqDef, LenProperties
<1>4. W = [i \in DOMAIN G |-> Write("dir", G[i], NoFile)]
  BY <1>1
<1> HIDE DEF W
<1>5. ASSUME NEW s \in Slots, ~Pending(W, 1, "dir", s) PROVE D[s] = d[s]
  <2>1. \A i \in 1..Len(G) : G[i] # s
    BY <1>2, <1>3, <1>5 DEF Pending
  <2> QED BY <2>1
<1>6. \A i \in 1..Len(W) : D[W[i].at] = W[i].val
  BY <1>1, <1>2, <1>3
<1>7. Named(W) = {}
  BY <1>2, <1>3 DEF Named
<1>8. Turns(W, d, D, K)
  BY <1>3, <1>5, <1>6, <1>7 DEF Turns, Leads
<1> QED BY <1>4, <1>8

\* Reading a table writes nothing but a copy of the mirror.
LEMMA ReadTurn ==
  ASSUME disk \in [Copies -> Links], NEW c \in Links \cup {NoTable}, NEW d, NEW K
  PROVE  Turns(__osPfsReadInode(c).todo, d, d, K)
<1> DEFINE W == __osPfsReadInode(c).todo
<1>1. W \in Seq(Writes)
  BY ReadType DEF Aside
<1>2. W = <<>> \/ W = Restore
  BY DEF __osPfsReadInode
<1>3. \A k \in 1..Len(Restore) : Restore[k].to # "dir"
  <2>1. DOMAIN Restore = 1..Blocks /\ \A k \in 1..Blocks : Restore[k].to # "dir"
    BY DEF Restore, Write
  <2>2. Len(Restore) = Blocks
    BY BlocksAre DEF Restore
  <2> QED BY <2>1, <2>2
<1> HIDE DEF W
<1>4. \A k \in 1..Len(W) : W[k].to # "dir"
  BY <1>2, <1>3
<1>5. Turns(W, d, d, K)
  BY <1>1, <1>4, NoTurn
<1> QED BY <1>5 DEF W

LEMMA TableTurn ==
  ASSUME NEW t \in Links, NEW d, NEW K
  PROVE  Turns(__osPfsWriteInode(t), d, d, K)
<1> DEFINE W == __osPfsWriteInode(t)
<1>1. W \in Seq(Writes)
  BY WriteInode DEF Complete
<1>2. DOMAIN W = 1..(2 * Blocks) /\ \A k \in 1..(2 * Blocks) : W[k].to # "dir"
  BY DEF __osPfsWriteInode, Write
<1> HIDE DEF W
<1>3. \A k \in 1..Len(W) : W[k].to # "dir"
  BY <1>1, <1>2, LenProperties
<1>4. Turns(W, d, d, K)
  BY <1>1, <1>3, NoTurn
<1> QED BY <1>4 DEF W

LEMMA DataTurn ==
  ASSUME NEW P \in Seq(Pages), NEW n \in Names, NEW d, NEW K
  PROVE  Turns(DataWrites(P, n), d, d, K)
<1> DEFINE W == DataWrites(P, n)
<1>1. W \in Seq(Writes) /\ Len(W) = Len(P)
  BY PageWrites DEF NoTables
<1>2. DOMAIN P = 1..Len(P)
  BY LenProperties
<1>3. \A k \in 1..Len(P) : W[k].to # "dir"
  BY <1>2 DEF DataWrites, Write
<1> HIDE DEF W
<1>4. Turns(W, d, d, K)
  BY <1>1, <1>3, NoTurn
<1> QED BY <1>4 DEF W

LEMMA OccupyTurn ==
  ASSUME NEW s \in Slots, NEW v \in Entry, NEW d \in Dirs, NEW K, <<s, v.start>> \in K, d[s] = v
  PROVE  \E x \in Entry : /\ x.start = v.start /\ x.name = v.name
                          /\ Turns(Occupy(s, v), d, [d EXCEPT ![s] = x], K)
<1>1. CASE v.occupied
  <2>1. Occupy(s, v) = <<>> /\ [d EXCEPT ![s] = v] = d
    BY <1>1 DEF Occupy, Dirs
  <2>2. Turns(<<>>, d, d, K)
    <3> DEFINE W == <<>>
    <3>1. W \in Seq(Writes) /\ \A k \in 1..Len(W) : W[k].to # "dir"
      OBVIOUS
    <3> HIDE DEF W
    <3>2. Turns(W, d, d, K)
      BY <3>1, NoTurn
    <3> QED BY <3>2 DEF W
  <2> QED BY <2>1, <2>2
<1>2. CASE ~v.occupied
  <2> DEFINE x == [v EXCEPT !.occupied = TRUE]
  <2>1. x \in Entry /\ x.start = v.start /\ x.name = v.name
    BY DEF Entry
  <2>2. Occupy(s, v) = <<Write("dir", s, x)>>
    BY <1>2 DEF Occupy
  <2> HIDE DEF x
  <2>3. Turns(<<Write("dir", s, x)>>, d, [d EXCEPT ![s] = x], K)
    BY <2>1, OneTurn
  <2> QED BY <2>1, <2>2, <2>3
<1> QED BY <1>1, <1>2

LEMMA NotNoFile == NoFile \notin Entry
BY PakAssumption DEF Entry

-----------------------------------------------------------------------------
(* A checked pak: every page is free or in one file.                       *)

\* Writes fail by loss of power, while the pak is formatted, or when a mirror
\* is copied back; a save, a deletion and a repair write what they set out to.
Dependable == \A k \in Kinds : \A x : <<k, x>> \in FailsAt => k = "format" \/ x = "restore"

\* Files start apart, now and after every write to come; a mounted pak was
\* checked; and the tables are heading for one that fits the directory.
FileInv ==
  /\ Distinct(Starts(dir) \cup Named(todo))
  /\ mounted => clean
  /\ op.kind = "format" => ~mounted
  /\ Settling(op, clean) =>
       \E S, D : /\ Heads(S, disk, todo, cache, op.kind)
                 /\ D \in Dirs /\ Leads(todo, dir, D) /\ Consistent(S, D)

\* p starts a whole file whose pages are w.
Guards(t, p, w) == Whole(t, p) /\ Walk(t, p) = w

\* Writes of data of the file n only.
Putting(n) == {x \in Writes : x.to = "page" => x.val = n}

\* The file that is being written has, or is still to get, an entry f, the
\* pages w and its data in them.
Fills(S, D, f, w) ==
  /\ Heads(S, disk, todo, cache, op.kind) /\ D \in Dirs /\ Leads(todo, dir, D)
  /\ f \in Slots /\ D[f] # NoFile /\ D[f].name = op.name
  /\ Guards(S, D[f].start, w) /\ op.size <= Len(w)
  /\ todo \in Seq(Putting(op.name))
  /\ \A i \in 1..op.size : content[w[i]] = op.name \/ Pending(todo, 1, "page", w[i])

WriteInv == op.kind = "write" /\ op.whole => \E S, D, f, w : Fills(S, D, f, w)

\* Elements of a sequence of writes decide what it is a sequence of.
LEMMA Elementwise ==
  ASSUME NEW W \in Seq(Writes), NEW X, \A k \in 1..Len(W) : W[k] \in X
  PROVE  W \in Seq(X)
<1>1. W \in [1..Len(W) -> Writes] /\ Len(W) \in Nat
  BY LenProperties
<1>2. W \in [1..Len(W) -> X]
  BY <1>1
<1> QED BY <1>1, <1>2, SeqDef

LEMMA TableWritesAre ==
  ASSUME NEW t \in Links
  PROVE  LET W == __osPfsWriteInode(t)
         IN  W \in Seq(Writes) /\ \A k \in 1..Len(W) : W[k].to \in Copies /\ W[k].val = Sealed(t)
<1> DEFINE W == __osPfsWriteInode(t)
           n == 2 * Blocks
<1>1. W \in Seq(Writes)
  BY WriteInode DEF Complete
<1>2. DOMAIN W = 1..n /\ \A k \in 1..n : W[k].to \in Copies /\ W[k].val = Sealed(t)
  BY DEF __osPfsWriteInode, Write, Copies
<1> HIDE DEF W, n
<1>3. DOMAIN W = 1..Len(W)
  BY <1>1, LenProperties
<1> QED BY <1>1, <1>2, <1>3 DEF W

LEMMA DataWritesAre ==
  ASSUME NEW P \in Seq(Pages), NEW n \in Names
  PROVE  LET W == DataWrites(P, n)
         IN  /\ W \in Seq(Writes) /\ Len(W) = Len(P)
             /\ \A k \in 1..Len(P) : W[k].to = "page" /\ W[k].at = P[k] /\ W[k].val = n
<1>1. DOMAIN P = 1..Len(P)
  BY LenProperties
<1>2. \A k \in 1..Len(P) : LET x == DataWrites(P, n)[k]
                           IN  x.to = "page" /\ x.at = P[k] /\ x.val = n
  BY <1>1 DEF DataWrites, Write
<1> QED BY <1>2, PageWrites DEF NoTables

LEMMA DirWriteIs ==
  ASSUME NEW s \in Slots, NEW v \in Entry \cup {NoFile}
  PROVE  LET x == Write("dir", s, v)
         IN  x \in Writes /\ x.to = "dir" /\ x.at = s /\ x.val = v
BY WriteTypes DEF Writes

LEMMA OccupyIs ==
  ASSUME NEW s \in Slots, NEW v \in Entry
  PROVE  LET W == Occupy(s, v)
         IN  /\ W \in Seq(Writes)
             /\ \A k \in 1..Len(W) : /\ W[k].to = "dir" /\ W[k].at = s /\ W[k].val \in Entry
                                     /\ W[k].val.start = v.start /\ W[k].val.name = v.name
<1>1. CASE v.occupied
  <2>1. Occupy(s, v) = <<>>
    BY <1>1 DEF Occupy
  <2> QED BY <2>1
<1>2. CASE ~v.occupied
  <2> DEFINE x == [v EXCEPT !.occupied = TRUE]
             y == Write("dir", s, x)
  <2>1. x \in Entry /\ x.start = v.start /\ x.name = v.name
    BY DEF Entry
  <2>2. Occupy(s, v) = <<y>>
    BY <1>2 DEF Occupy
  <2>3. y \in Writes /\ y.to = "dir" /\ y.at = s /\ y.val = x
    BY <2>1, DirWriteIs
  <2> HIDE DEF x, y
  <2> QED BY <2>1, <2>2, <2>3
<1> QED BY <1>1, <1>2

\* A write is pending in two lists of writes when it is in one.
LEMMA PendingJoin ==
  ASSUME NEW A \in Seq(Writes), NEW B \in Seq(Writes), NEW x, NEW b,
         Pending(A, 1, x, b) \/ Pending(B, 1, x, b)
  PROVE  Pending(A \o B, 1, x, b)
<1> DEFINE V == A \o B
<1>2. /\ V \in Seq(Writes) /\ Len(A) \in Nat /\ Len(B) \in Nat
      /\ Len(V) = Len(A) + Len(B)
      /\ \A i \in 1..(Len(A) + Len(B)) :
           V[i] = IF i <= Len(A) THEN A[i] ELSE B[i - Len(A)]
  BY ConcatProperties, LenProperties
<1> HIDE DEF V
<1>3. CASE Pending(A, 1, x, b)
  <2>1. PICK m \in 1..Len(A) : A[m].to = x /\ A[m].at = b
    BY <1>3 DEF Pending
  <2>2. m \in 1..Len(V) /\ V[m] = A[m]
    BY <1>2
  <2> QED BY <2>1, <2>2 DEF Pending, V
<1>4. CASE Pending(B, 1, x, b)
  <2>1. PICK m \in 1..Len(B) : B[m].to = x /\ B[m].at = b
    BY <1>4 DEF Pending
  <2> DEFINE j == m + Len(A)
  <2>2. j \in 1..Len(V) /\ j - Len(A) = m /\ ~(j <= Len(A))
    BY <1>2
  <2>3. V[j] = B[m]
    BY <1>2, <2>2
  <2> HIDE DEF j
  <2> QED BY <2>1, <2>2, <2>3 DEF Pending, V
<1> QED BY <1>3, <1>4

LEMMA DataPending ==
  ASSUME NEW P \in Seq(Pages), NEW n \in Names, NEW i \in 1..Len(P)
  PROVE  Pending(DataWrites(P, n), 1, "page", P[i])
BY DataWritesAre DEF Pending

LEMMA DependableFirst == Dependable => FirstCopyWritten
BY DEF Dependable, FirstCopyWritten

LEMMA DistinctStarts ==
  ASSUME NEW d, NEW K, Distinct(Starts(d) \cup K)
  PROVE  StartsDiffer(d)
<1> SUFFICES ASSUME NEW s \in Used(d), NEW u \in Used(d), s # u
             PROVE  d[s].start # d[u].start
  BY DEF StartsDiffer
<1> DEFINE a == <<s, d[s].start>>
           b == <<u, d[u].start>>
<1>1. a \in Starts(d) \cup K /\ b \in Starts(d) \cup K
  BY DEF Starts
<1>2. a[1] # b[1]
  OBVIOUS
<1> HIDE DEF a, b
<1>3. a[2] # b[2]
  BY <1>1, <1>2 DEF Distinct
<1> QED BY <1>3 DEF a, b

\* A pak checked and at rest.
LEMMA CleanFiles ==
  ASSUME TypeInv, FileInv, todo = <<>>, clean, NEW c, c = NoTable \/ c = cache
  PROVE  LET S == disk["inode"]
             read == __osPfsReadInode(c)
         IN  /\ Consistent(S, dir) /\ disk["minode"] = S /\ S \in Links /\ SumOK(S)
             /\ cache = NoTable \/ cache = S
             /\ read.inode = S /\ read.ok /\ read.todo = <<>> /\ CacheAfter(read) = S
<1>1. PICK S, D : /\ Heads(S, disk, todo, cache, op.kind)
                  /\ D \in Dirs /\ Leads(todo, dir, D) /\ Consistent(S, D)
  BY DEF FileInv, Settling
<1>2. /\ disk["inode"] = S /\ disk["minode"] = S /\ S \in Links /\ SumOK(S)
      /\ cache = NoTable \/ cache = S
      /\ __osPfsReadInode(c).todo = <<>>
      /\ CacheAfter(__osPfsReadInode(c)) = S
  <2>1. cache = NoTable \/ cache = S
    BY <1>1, CleanRead
  <2> QED BY <1>1, <2>1, CleanRead
<1>3. __osPfsReadInode(c).inode = S /\ __osPfsReadInode(c).ok
  BY <1>2 DEF __osPfsReadInode
<1>4. D = dir
  <2>1. \A s : ~Pending(<<>>, 1, "dir", s)
    BY DEF Pending
  <2>2. \A s \in Slots : D[s] = dir[s]
    BY <1>1, <2>1 DEF Leads
  <2> QED BY <1>1, <2>2 DEF TypeInv, Dirs
<1> QED BY <1>1, <1>2, <1>3, <1>4

\* A request that begins, with the table and the directory it is to leave.
LEMMA PlannedFiles ==
  ASSUME FileInv, dir' = dir, NEW K, Distinct(Starts(dir) \cup K),
         mounted' => clean', op'.kind = "format" => ~mounted',
         NEW S, Heads(S, disk', todo', cache', op'.kind),
         NEW D \in Dirs, Turns(todo', dir, D, K), Consistent(S, D)
  PROVE  FileInv'
<1>1. Named(todo') \subseteq K /\ Leads(todo', dir, D)
  BY DEF Turns
<1>2. Distinct(Starts(dir) \cup Named(todo'))
  BY <1>1 DEF Distinct
<1> QED BY <1>1, <1>2 DEF FileInv

\* pfschecker.c: after osPfsChecker.
LEMMA CheckFiles ==
  ASSUME TypeInv, FileInv, NEW c \in Links \cup {NoTable}, todo' = osPfsChecker(c),
         dir' = dir, op'.kind \in {"init", "check"}, mounted' = mounted, clean' = clean
  PROVE  FileInv'
<1> DEFINE read == __osPfsReadInode(c)
           t == read.inode
           B == Broken(t)
           G == Ascending(B)
           C == [i \in DOMAIN G |-> Write("dir", G[i], NoFile)]
           R == Rebuilt(t)
           D == [s \in Slots |-> IF s \in B THEN NoFile ELSE dir[s]]
<1>1. disk \in [Copies -> Links] /\ dir \in Dirs /\ t \in Links
  BY ReadType DEF TypeInv, Dirs
<1>2. R \in Links /\ Complete(todo', Sealed(R))
  BY <1>1, CheckerWrites
<1>3. todo' = read.todo \o C \o __osPfsWriteInode(R)
  BY DEF osPfsChecker
<1>4. Turns(read.todo, dir, dir, {})
  BY <1>1, ReadTurn
<1> HIDE DEF read
<1>b. B \subseteq Slots
  BY DEF Broken
<1>5. G \in Seq(Slots) /\ \A s \in Slots : s \in B <=> \E i \in 1..Len(G) : G[i] = s
  <2>1. B \in SUBSET (0..DirSize) /\ DirSize \in Nat
    BY <1>b, Numbers
  <2> HIDE DEF B
  <2>2. G \in Seq(B)
    BY <2>1, AscendingSeq
  <2>3. \A x \in B : \E i \in DOMAIN G : G[i] = x
    BY <2>1, AscendingAll
  <2> HIDE DEF G
  <2>4. DOMAIN G = 1..Len(G) /\ \A i \in 1..Len(G) : G[i] \in B
    BY <2>2, LenProperties, ElementOfSeq
  <2>5. G \in Seq(Slots)
    BY <1>b, <2>2, SeqMonotonic
  <2> QED BY <2>3, <2>4, <2>5
<1>6. D \in Dirs /\ \A s \in Slots : D[s] = IF s \in B THEN NoFile ELSE dir[s]
  BY <1>1 DEF Dirs
<1> HIDE DEF G, B, D, R
<1>7. Turns(C, dir, D, {})
  <2>1. \A s \in Slots : D[s] = IF \E i \in 1..Len(G) : G[i] = s THEN NoFile ELSE dir[s]
    BY <1>5, <1>6
  <2> QED BY <1>1, <1>5, <2>1, ClearsTurn
<1>8. Turns(__osPfsWriteInode(R), D, D, {})
  BY <1>2, TableTurn
<1> HIDE DEF C
<1>9. Turns(todo', dir, D, {})
  <2>1. Turns(read.todo \o C, dir, D, {})
    BY <1>4, <1>7, TurnsJoin
  <2>2. Turns((read.todo \o C) \o __osPfsWriteInode(R), dir, D, {})
    BY <1>8, <2>1, TurnsJoin
  <2> QED BY <1>3, <2>2
<1>10. StartsDiffer(dir) /\ Distinct(Starts(dir) \cup {})
  <2>1. Distinct(Starts(dir) \cup Named(todo))
    BY DEF FileInv
  <2>2. Distinct(Starts(dir) \cup {})
    BY <2>1 DEF Distinct
  <2> QED BY <2>1, <2>2, DistinctStarts
<1>11. Consistent(Sealed(R), D)
  <2> DEFINE S == Sealed(R)
  <2>1. \A p \in Pages : S[p] = Rebuilt(t)[p]
    BY <1>2, SealedSame DEF R
  <2>2. \A s \in Slots : D[s] = IF s \in Broken(t) THEN NoFile ELSE dir[s]
    BY <1>6 DEF B
  <2> HIDE DEF S
  <2>3. Consistent(S, D)
    BY <1>1, <1>6, <1>10, <2>1, <2>2, RebuiltFits
  <2> QED BY <2>3 DEF S
<1>12. Heads(Sealed(R), disk', todo', cache', op'.kind)
  BY <1>2, PlannedHeads
<1>13. mounted' => clean'
  BY DEF FileInv
<1> QED BY <1>6, <1>9, <1>10, <1>11, <1>12, <1>13, PlannedFiles

\* A request for which the pak is mounted finds it checked.
LEMMA ReadyFiles ==
  ASSUME TypeInv, FileInv, Ready
  PROVE  LET S == disk["inode"]
             read == __osPfsReadInode(NoTable)
         IN  /\ Consistent(S, dir) /\ S \in Links /\ dir \in Dirs
             /\ read.inode = S /\ read.ok /\ read.todo = <<>> /\ CacheAfter(read) = S
             /\ __osPfsReadInode(cache).inode = S
             /\ clean /\ mounted /\ todo = <<>> /\ Distinct(Starts(dir))
<1>1. clean /\ mounted /\ todo = <<>>
  BY DEF FileInv, Ready, Idle
<1>2. Distinct(Starts(dir))
  <2>1. Distinct(Starts(dir) \cup Named(todo))
    BY DEF FileInv
  <2> QED BY <2>1 DEF Distinct
<1>3. dir \in Dirs
  BY DEF TypeInv, Dirs
<1> QED BY <1>1, <1>2, <1>3, CleanFiles

\* pfsallocatefile.c: after a file was added.
LEMMA NewFiles ==
  ASSUME TypeInv, FileInv, NEW n \in Names, NEW z \in Sizes, NEW read,
         read = __osPfsReadInode(NoTable), WriteNew(n, z, read), Ready,
         cache' = CacheAfter(read), UNCHANGED <<mounted, saved, clean>>
  PROVE  FileInv' /\ WriteInv'
<1> DEFINE S == disk["inode"]
           new == __osPfsDeclearPage(S, z).inode
           got == __osPfsDeclearPage(S, z).pages
           p0 == __osPfsDeclearPage(S, z).first
           F == FirstFreeSlot
           K == {<<F, p0>>}
           entry(b) == [name |-> n, start |-> p0, occupied |-> b]
           I == __osPfsWriteInode(new)
<1>1. /\ Consistent(S, dir) /\ S \in Links /\ dir \in Dirs
      /\ read.inode = S /\ read.todo = <<>> /\ clean /\ mounted /\ Distinct(Starts(dir))
  BY ReadyFiles
<1>2. /\ op'.kind = "write" /\ F \in FreeSlots /\ new \in Links /\ Complete(todo', Sealed(new))
  BY <1>1, WriteNewStep
<1>3. z \in Nat \ {0} /\ z <= Len(FreePages(S))
  BY <1>1, PakAssumption DEF WriteNew
<1>4. p0 \in Pages /\ got \in Seq(Pages) /\ Len(got) = z
  BY <1>1, <1>3, DeclaredType
<1>5. PICK b \in BOOLEAN :
        Start("write", n, z, TRUE,
              <<>> \o I \o <<Write("dir", F, entry(b))>>
              \o DataWrites(got, n) \o Occupy(F, entry(b)))
  BY <1>1 DEF WriteNew
<1> DEFINE E == [dir EXCEPT ![F] = entry(b)]
           B1 == <<Write("dir", F, entry(b))>>
           B2 == DataWrites(got, n)
           B3 == Occupy(F, entry(b))
<1>6. /\ todo' = <<>> \o I \o B1 \o B2 \o B3
      /\ disk' = disk /\ dir' = dir
      /\ op'.name = n /\ op'.size = z
  BY <1>5 DEF Start
<1> HIDE DEF S, new, got, p0
<1>7. entry(b) \in Entry /\ entry(b).start = p0 /\ entry(b).name = n /\ F \in Slots /\ dir[F] = NoFile
  BY <1>2, <1>4 DEF Entry, FreeSlots
<1>8. E \in Dirs /\ E[F] = entry(b)
  BY <1>1, <1>7 DEF Dirs
<1> HIDE DEF entry
<1>9. Turns(<<>> \o I, dir, dir, K)
  <2>1. Turns(I, dir, dir, K)
    BY <1>2, TableTurn
  <2> HIDE DEF I
  <2>2. <<>> \o I = I
    BY <2>1, ConcatEmptySeq DEF Turns
  <2> QED BY <2>1, <2>2
<1>10. Turns(B1, dir, E, K)
  <2>1. <<F, entry(b).start>> \in K
    BY <1>7
  <2> HIDE DEF K, F
  <2> QED BY <1>1, <1>7, <2>1, OneTurn
<1>11. Turns(B2, E, E, K)
  BY <1>4, DataTurn
<1>12. PICK x \in Entry : x.start = p0 /\ x.name = n /\ Turns(B3, E, [E EXCEPT ![F] = x], K)
  <2>1. <<F, entry(b).start>> \in K
    BY <1>7
  <2> DEFINE d == E
             v == entry(b)
  <2>2. d \in Dirs /\ d[F] = v /\ v \in Entry /\ v.start = p0 /\ v.name = n /\ F \in Slots
    BY <1>7, <1>8
  <2> HIDE DEF K, F, d, v
  <2>3. <<F, v.start>> \in K
    BY <2>1 DEF v
  <2>4. \E x \in Entry : /\ x.start = v.start /\ x.name = v.name
                         /\ Turns(Occupy(F, v), d, [d EXCEPT ![F] = x], K)
    BY <2>2, <2>3, OccupyTurn
  <2> QED BY <2>2, <2>4 DEF d, v
<1> DEFINE D == [E EXCEPT ![F] = x]
<1>13. /\ D \in Dirs /\ D[F] = x /\ x # NoFile
       /\ \A s \in Slots : s # F => D[s] = dir[s]
  BY <1>1, <1>7, <1>8, <1>12, NotNoFile DEF Dirs
<1>14. Turns(todo', dir, D, K)
  <2> HIDE DEF I, B1, B2, B3, E, D, K
  <2>1. Turns(<<>> \o I \o B1, dir, E, K)
    BY <1>9, <1>10, TurnsJoin
  <2>2. Turns(<<>> \o I \o B1 \o B2, dir, E, K)
    BY <1>11, <2>1, TurnsJoin
  <2>3. Turns(B3, E, D, K)
    BY <1>12 DEF D
  <2>4. Turns(<<>> \o I \o B1 \o B2 \o B3, dir, D, K)
    BY <2>2, <2>3, TurnsJoin
  <2> QED BY <1>6, <2>4
<1> HIDE DEF E, D, F
<1>w. todo' \in Seq(Putting(n)) /\ \A i \in 1..z : Pending(todo', 1, "page", got[i])
  <2>1. I \in Seq(Writes) /\ I \in Seq(Putting(n))
    <3> HIDE DEF I
    <3>1. I \in Seq(Writes) /\ \A k \in 1..Len(I) : I[k].to \in Copies
      BY <1>2, TableWritesAre DEF I
    <3>2. \A k \in 1..Len(I) : I[k] \in Putting(n)
      BY <3>1, ElementOfSeq DEF Putting, Copies
    <3> QED BY <3>1, <3>2, Elementwise
  <2>2. B1 \in Seq(Writes) /\ B1 \in Seq(Putting(n))
    <3> DEFINE y == Write("dir", F, entry(b))
    <3>1. y \in Writes /\ y.to = "dir"
      BY <1>7, DirWriteIs
    <3> HIDE DEF y
    <3>2. y \in Putting(n)
      BY <3>1 DEF Putting
    <3> QED BY <3>1, <3>2 DEF y
  <2>3. /\ B2 \in Seq(Writes) /\ B2 \in Seq(Putting(n))
        /\ \A i \in 1..z : Pending(B2, 1, "page", got[i])
    <3> HIDE DEF B2
    <3>1. B2 \in Seq(Writes) /\ Len(B2) = Len(got) /\ \A k \in 1..Len(got) : B2[k].val = n
      BY <1>4, DataWritesAre DEF B2
    <3>2. \A k \in 1..Len(B2) : B2[k] \in Putting(n)
      BY <3>1, ElementOfSeq DEF Putting
    <3>3. \A i \in 1..z : Pending(B2, 1, "page", got[i])
      BY <1>4, DataPending DEF B2
    <3> QED BY <3>1, <3>2, <3>3, Elementwise
  <2>4. B3 \in Seq(Writes) /\ B3 \in Seq(Putting(n))
    <3> HIDE DEF B3
    <3>1. B3 \in Seq(Writes) /\ \A k \in 1..Len(B3) : B3[k].to = "dir"
      BY <1>7, OccupyIs DEF B3
    <3>2. \A k \in 1..Len(B3) : B3[k] \in Putting(n)
      BY <3>1, ElementOfSeq DEF Putting
    <3> QED BY <3>1, <3>2, Elementwise
  <2> HIDE DEF I, B1, B2, B3
  <2>5. <<>> \o I = I
    BY <2>1, ConcatEmptySeq
  <2> DEFINE A1 == I \o B1
             A2 == A1 \o B2
             A3 == A2 \o B3
  <2>6. A1 \in Seq(Writes) /\ A1 \in Seq(Putting(n))
    BY <2>1, <2>2, ConcatProperties
  <2> HIDE DEF A1
  <2>7. /\ A2 \in Seq(Writes) /\ A2 \in Seq(Putting(n))
        /\ \A i \in 1..z : Pending(A2, 1, "page", got[i])
    BY <2>3, <2>6, ConcatProperties, PendingJoin
  <2> HIDE DEF A2
  <2>8. A3 \in Seq(Putting(n)) /\ \A i \in 1..z : Pending(A3, 1, "page", got[i])
    BY <2>4, <2>7, ConcatProperties, PendingJoin
  <2> QED BY <1>6, <2>5, <2>8 DEF A1, A2
<1> HIDE DEF B1, B2, B3, I
<1>15. /\ Consistent(Sealed(new), D)
       /\ \A s \in Used(dir) : dir[s].start # p0
       /\ Walk(Sealed(new), D[F].start) = got
  <2> DEFINE T == Sealed(new)
  <2>1. \A p \in Pages : T[p] = new[p]
    BY <1>2, SealedSame
  <2> HIDE DEF T
  <2>2. /\ \A p \in Pages : T[p] = __osPfsDeclearPage(S, z).inode[p]
        /\ D[F].start = __osPfsDeclearPage(S, z).first
        /\ D[F] # NoFile /\ dir[F] = NoFile /\ F \in Slots
    BY <1>7, <1>12, <1>13, <2>1 DEF new, p0
  <2>3. /\ Consistent(T, D)
        /\ \A s \in Used(dir) : dir[s].start # __osPfsDeclearPage(S, z).first
        /\ Walk(T, D[F].start) = __osPfsDeclearPage(S, z).pages
    BY <1>1, <1>3, <1>13, <2>2, DeclaredFits
  <2> QED BY <2>3 DEF T, p0, got
<1>16. Distinct(Starts(dir) \cup K)
  <2>1. \A a \in Starts(dir) : a[2] # p0
    BY <1>15 DEF Starts
  <2>2. \A a \in K : a[2] = p0 /\ a[1] = F
    OBVIOUS
  <2> HIDE DEF K
  <2> QED BY <1>1, <2>1, <2>2 DEF Distinct
<1>17. Heads(Sealed(new), disk', todo', cache', op'.kind)
  BY <1>2, PlannedHeads
<1>18. mounted' => clean'
  BY DEF FileInv
<1> HIDE DEF K
<1>19. FileInv'
  BY <1>2, <1>6, <1>13, <1>14, <1>15, <1>16, <1>17, <1>18, PlannedFiles
<1>20. PICK T, H, f, w : T = Sealed(new) /\ H = D /\ f = F /\ w = got
  OBVIOUS
<1>21. Guards(T, H[f].start, w) /\ op'.size <= Len(w)
  BY <1>3, <1>4, <1>6, <1>7, <1>13, <1>15, <1>20 DEF Consistent, Guards, Used
<1>22. Leads(todo', dir', H) /\ Heads(T, disk', todo', cache', op'.kind) /\ H \in Dirs
  BY <1>6, <1>13, <1>14, <1>17, <1>20 DEF Turns
<1>23. f \in Slots /\ H[f] # NoFile /\ H[f].name = op'.name
  BY <1>6, <1>7, <1>12, <1>13, <1>20
<1>24. todo' \in Seq(Putting(op'.name))
  BY <1>6, <1>w
<1>25. \A i \in 1..op'.size : content'[w[i]] = op'.name \/ Pending(todo', 1, "page", w[i])
  BY <1>6, <1>w, <1>20
<1>26. Fills(T, H, f, w)'
  BY <1>21, <1>22, <1>23, <1>24, <1>25 DEF Fills
<1> QED BY <1>19, <1>26 DEF WriteInv

\* A request that leaves the tables alone.
LEMMA SettledFiles ==
  ASSUME TypeInv, FileInv, Ready, dir' = dir, disk' = disk, UNCHANGED <<mounted, clean>>,
         op'.kind # "format", cache' = disk["inode"], NoTables(todo'), NEW K,
         K \subseteq Starts(dir), NEW D \in Dirs, Turns(todo', dir, D, K),
         Consistent(disk["inode"], D)
  PROVE  FileInv'
<1> DEFINE S == disk["inode"]
<1>1. /\ disk["minode"] = S /\ S \in Links /\ SumOK(S) /\ Distinct(Starts(dir))
      /\ clean
  <2>1. clean /\ todo = <<>> /\ Distinct(Starts(dir))
    BY ReadyFiles
  <2> QED BY <2>1, CleanFiles
<1>2. Heads(S, disk', todo', cache', op'.kind)
  <2> HIDE DEF S
  <2>1. disk'["inode"] = S /\ disk'["minode"] = S /\ cache' = S
    BY <1>1 DEF S
  <2> QED BY <1>1, <2>1, SettledHeads
<1>3. Distinct(Starts(dir) \cup K)
  BY <1>1 DEF Distinct
<1>4. (mounted' => clean') /\ Consistent(S, D)
  BY <1>1
<1> HIDE DEF S
<1> QED BY <1>2, <1>3, <1>4, PlannedFiles

\* saves.c: after a file was written over.
LEMMA OverFiles ==
  ASSUME TypeInv, FileInv, NEW n \in Names, NEW z \in Sizes, NEW read,
         read = __osPfsReadInode(NoTable), WriteOver(n, z, read), Ready,
         cache' = CacheAfter(read), UNCHANGED <<mounted, saved, clean>>
  PROVE  FileInv' /\ WriteInv'
<1>0. /\ Consistent(disk["inode"], dir) /\ disk["inode"] \in Links /\ dir \in Dirs
      /\ read.inode = disk["inode"] /\ read.ok /\ read.todo = <<>>
      /\ CacheAfter(read) = disk["inode"]
  BY ReadyFiles
<1>1. PICK s \in SlotOf(n) :
        LET all   == Walk(read.inode, dir[s].start)
            here  == IF read.ok THEN SubSeq(all, 1, Min({z, Len(all)})) ELSE <<dir[s].start>>
            whole == Len(here) = z
        IN  Start("write", n, z, whole,
                  read.todo \o DataWrites(here, n) \o (IF whole THEN Occupy(s, dir[s]) ELSE <<>>))
  BY DEF WriteOver
<1> DEFINE all   == Walk(read.inode, dir[s].start)
           here  == IF read.ok THEN SubSeq(all, 1, Min({z, Len(all)})) ELSE <<dir[s].start>>
           whole == Len(here) = z
           B1 == DataWrites(here, n)
           B2 == IF whole THEN Occupy(s, dir[s]) ELSE <<>>
           K == {<<s, dir[s].start>>}
<1>2. s \in Slots /\ dir[s] # NoFile /\ dir[s] \in Entry /\ dir[s].start \in Pages
  BY Listed DEF SlotOf
<1>3. here \in Seq(Pages)
  BY <1>2, PagesHere
<1>4. /\ todo' = <<>> \o B1 \o B2
      /\ disk' = disk /\ dir' = dir /\ op'.kind = "write"
      /\ op'.name = n /\ op'.size = z /\ op'.whole = whole
  BY <1>0, <1>1 DEF Start
<1>h. whole => z <= Len(all) /\ \A i \in 1..z : all[i] = here[i]
  <2>1. PICK a, h : a = all /\ h = here
    OBVIOUS
  <2>2. a \in Seq(Pages) /\ h = SubSeq(a, 1, Min({z, Len(a)})) /\ z \in Nat
    BY <1>0, <2>1, WalkType, PakAssumption
  <2>3. Len(h) = z => z <= Len(a) /\ \A i \in 1..z : a[i] = h[i]
    BY <2>2, HereIs
  <2> QED BY <2>1, <2>3
<1> HIDE DEF here
<1>5. Turns(B1, dir, dir, K) /\ NoTables(B1)
  BY <1>3, DataTurn, PageWrites
<1>6. PICK D \in Dirs : /\ Turns(B2, dir, D, K) /\ NoTables(B2)
                        /\ D[s] # NoFile /\ D[s].start = dir[s].start /\ D[s].name = dir[s].name
                        /\ \A u \in Slots : u # s => D[u] = dir[u]
  <2>1. CASE whole
    <3>1. PICK x \in Entry : /\ x.start = dir[s].start /\ x.name = dir[s].name
                             /\ Turns(Occupy(s, dir[s]), dir, [dir EXCEPT ![s] = x], K)
      <4> DEFINE v == dir[s]
      <4>1. <<s, v.start>> \in K /\ v \in Entry /\ dir[s] = v
        BY <1>2
      <4> HIDE DEF K, v
      <4>2. \E x \in Entry : /\ x.start = v.start /\ x.name = v.name
                             /\ Turns(Occupy(s, v), dir, [dir EXCEPT ![s] = x], K)
        BY <1>0, <1>2, <4>1, OccupyTurn
      <4> QED BY <4>2 DEF v
    <3>2. [dir EXCEPT ![s] = x] \in Dirs /\ x # NoFile
      BY <1>0, <3>1, NotNoFile DEF Dirs
    <3>3. NoTables(Occupy(s, dir[s]))
      BY <1>2, OccupyWrites
    <3> QED BY <1>0, <1>2, <2>1, <3>1, <3>2, <3>3 DEF Dirs
  <2>2. CASE ~whole
    <3> DEFINE W == <<>>
    <3>1. W \in Seq(Writes) /\ \A k \in 1..Len(W) : W[k].to # "dir" /\ W[k].to \in {"dir", "page"}
      OBVIOUS
    <3> HIDE DEF W, K
    <3>2. Turns(W, dir, dir, K) /\ NoTables(W)
      BY <3>1, NoTurn DEF NoTables
    <3>3. B2 = W
      BY <2>2 DEF W
    <3> HIDE DEF B2
    <3> QED BY <1>0, <1>2, <3>2, <3>3
  <2> QED BY <2>1, <2>2
<1>p. /\ B1 \in Seq(Writes) /\ B1 \in Seq(Putting(n)) /\ Len(B1) = Len(here)
      /\ \A i \in 1..Len(here) : Pending(B1, 1, "page", here[i])
  <2> HIDE DEF B1
  <2>1. B1 \in Seq(Writes) /\ Len(B1) = Len(here) /\ \A k \in 1..Len(here) : B1[k].val = n
    BY <1>3, DataWritesAre DEF B1
  <2>2. \A k \in 1..Len(B1) : B1[k] \in Putting(n)
    BY <2>1, ElementOfSeq DEF Putting
  <2>3. \A i \in 1..Len(here) : Pending(B1, 1, "page", here[i])
    BY <1>3, DataPending DEF B1
  <2> QED BY <2>1, <2>2, <2>3, Elementwise
<1>q. B2 \in Seq(Writes) /\ B2 \in Seq(Putting(n))
  <2>1. B2 \in Seq(Writes) /\ \A k \in 1..Len(B2) : B2[k].to = "dir"
    <3>1. Occupy(s, dir[s]) \in Seq(Writes) /\ \A k \in 1..Len(Occupy(s, dir[s])) : Occupy(s, dir[s])[k].to = "dir"
      BY <1>2, OccupyIs
    <3>2. <<>> \in Seq(Writes) /\ \A k \in 1..Len(<<>>) : <<>>[k].to = "dir"
      OBVIOUS
    <3> QED BY <3>1, <3>2
  <2> HIDE DEF B2
  <2>2. \A k \in 1..Len(B2) : B2[k] \in Putting(n)
    BY <2>1, ElementOfSeq DEF Putting
  <2> QED BY <2>1, <2>2, Elementwise
<1> HIDE DEF B1, B2
<1>7. todo' = B1 \o B2
  <2>1. <<>> \o B1 = B1
    BY <1>5, ConcatEmptySeq DEF Turns
  <2> QED BY <1>4, <2>1
<1>8. Turns(todo', dir, D, K) /\ NoTables(todo')
  BY <1>5, <1>6, <1>7, TurnsJoin, Joined
<1>9. Consistent(disk["inode"], D)
  <2>1. \A u \in Slots : (D[u] = NoFile <=> dir[u] = NoFile) /\ D[u].start = dir[u].start
    BY <1>2, <1>6
  <2> QED BY <1>0, <2>1, StatusFits
<1>10. K \subseteq Starts(dir)
  BY <1>2 DEF Starts, Used
<1> HIDE DEF K
<1>11. FileInv'
  BY <1>0, <1>4, <1>6, <1>8, <1>9, <1>10, SettledFiles
<1>12. ASSUME whole PROVE \E S, H, f, w : Fills(S, H, f, w)'
  <2>1. PICK S, w : S = disk["inode"] /\ w = all
    OBVIOUS
  <2>2. SumOK(S) /\ disk["minode"] = S /\ S \in Links
    BY <2>1, ReadyFiles, CleanFiles
  <2>3. Heads(S, disk', todo', cache', op'.kind)
    BY <1>0, <1>4, <1>8, <2>1, <2>2, SettledHeads
  <2>4. Guards(S, D[s].start, w)
    BY <1>0, <1>2, <1>6, <2>1 DEF Consistent, Guards, Used
  <2>5. Leads(todo', dir', D)
    BY <1>4, <1>8 DEF Turns
  <2>6. op'.size <= Len(w)
    BY <1>4, <1>h, <1>12, <2>1
  <2>7. todo' \in Seq(Putting(op'.name))
    BY <1>4, <1>7, <1>p, <1>q, ConcatProperties
  <2>8. \A i \in 1..z : Pending(todo', 1, "page", w[i])
    <3> HIDE DEF all
    <3>1. \A i \in 1..z : w[i] = here[i] /\ i \in 1..Len(here)
      BY <1>h, <1>12, <2>1
    <3> QED BY <1>7, <1>p, <1>q, <3>1, PendingJoin
  <2>9. \A i \in 1..op'.size : content'[w[i]] = op'.name \/ Pending(todo', 1, "page", w[i])
    BY <1>4, <2>8
  <2>10. s \in Slots /\ D[s] # NoFile /\ D[s].name = op'.name
    BY <1>2, <1>4, <1>6 DEF SlotOf
  <2>11. Fills(S, D, s, w)'
    BY <1>6, <2>3, <2>4, <2>5, <2>6, <2>7, <2>9, <2>10 DEF Fills
  <2> QED BY <2>11
<1> QED BY <1>4, <1>11, <1>12 DEF WriteInv

\* pfsdeletefile.c: after a file was deleted.
LEMMA DeletedFiles ==
  ASSUME TypeInv, FileInv, NEW s \in Slots, packDeleteFile(s)
  PROVE  FileInv'
<1> DEFINE S == disk["inode"]
           read == __osPfsReadInode(NoTable)
           freed == __osPfsReleasePages(read.inode, dir[s].start)
           I == __osPfsWriteInode(freed.inode)
           B == IF Ends(read.inode, dir[s].start) THEN <<Write("dir", s, NoFile)>> ELSE <<>>
<1>0. /\ Consistent(S, dir) /\ S \in Links /\ dir \in Dirs
      /\ read.inode = S /\ read.ok /\ read.todo = <<>> /\ CacheAfter(read) = S
      /\ __osPfsReadInode(cache).inode = S
      /\ clean /\ mounted /\ todo = <<>> /\ Distinct(Starts(dir))
  BY ReadyFiles DEF packDeleteFile
<1>1. /\ dir[s] # NoFile /\ Start("delete", dir[s].name, 0, TRUE, read.todo \o I \o B)
      /\ Ends(__osPfsReadInode(cache).inode, dir[s].start)
      /\ mounted' = mounted /\ clean' = clean
  BY DEF packDeleteFile
<1>2. /\ freed.inode \in Links /\ Complete(todo', Sealed(freed.inode))
      /\ op'.kind = "delete"
  BY <1>1, DeleteStep DEF Start
<1> HIDE DEF read
<1>3. /\ todo' = <<>> \o I \o B /\ dir' = dir
      /\ B = <<Write("dir", s, NoFile)>>
  BY <1>0, <1>1 DEF Start
<1> DEFINE T == freed.inode
<1>4. \A e \in Entries : T[e] = IF e \in ToSet(Walk(S, dir[s].start)) THEN FREE ELSE S[e]
  BY <1>0 DEF __osPfsReleasePages
<1>t. T \in Links /\ Complete(todo', Sealed(T)) /\ I = __osPfsWriteInode(T)
  BY <1>2
<1> HIDE DEF T, freed, B, S, I
<1> DEFINE D == [dir EXCEPT ![s] = NoFile]
<1>5. D \in Dirs /\ D[s] = NoFile /\ \A u \in Slots : u # s => D[u] = dir[u]
  BY <1>0 DEF Dirs
<1>6. Turns(todo', dir, D, {})
  <2>1. Turns(I, dir, dir, {})
    BY <1>t, TableTurn
  <2>2. <<>> \o I = I
    BY <2>1, ConcatEmptySeq DEF Turns
  <2>3. Turns(B, dir, D, {})
    BY <1>0, <1>3, OneTurn
  <2> HIDE DEF D
  <2>4. Turns(I \o B, dir, D, {})
    BY <2>1, <2>3, TurnsJoin
  <2> QED BY <1>3, <2>2, <2>4
<1> HIDE DEF D
<1>7. Consistent(Sealed(T), D)
  <2> DEFINE U == Sealed(T)
  <2>1. \A p \in Pages : U[p] = T[p]
    BY <1>t, SealedSame
  <2> HIDE DEF U
  <2>2. \A p \in Pages : U[p] = IF p \in FilePages(S, dir, s) THEN FREE ELSE S[p]
    BY <1>4, <2>1, Numbers DEF FilePages
  <2>3. s \in Used(dir)
    BY <1>1 DEF Used
  <2>4. Consistent(U, D)
    BY <1>0, <1>5, <2>2, <2>3, ReleasedFits
  <2> QED BY <2>4 DEF U
<1>8. Heads(Sealed(T), disk', todo', cache', op'.kind)
  BY <1>2, <1>t, PlannedHeads
<1>9. Distinct(Starts(dir) \cup {}) /\ (mounted' => clean')
  BY <1>0, <1>1 DEF Distinct
<1> QED BY <1>2, <1>3, <1>5, <1>6, <1>7, <1>8, <1>9, PlannedFiles

\* pfsinitpak.c: after the pak was formatted.
LEMMA FormattedFiles ==
  ASSUME TypeInv, FileInv, packFormat
  PROVE  FileInv'
<1> DEFINE empty == [e \in Entries |-> IF e = 0 THEN 0 ELSE FREE]
           C == [s \in Slots |-> Write("dir", s, NoFile)]
           I == __osPfsWriteInode(empty)
           D == [s \in Slots |-> NoFile]
<1>0. dir \in Dirs /\ Distinct(Starts(dir))
  BY ReadyFiles DEF packFormat
<1>1. /\ op'.kind = "format" /\ empty \in Links /\ Complete(todo', Sealed(empty))
      /\ cache' = NoTable
  BY FormatStep
<1>2. todo' = C \o I /\ dir' = dir /\ mounted' = FALSE
  BY DEF packFormat, Start
<1>3. \A p \in Pages : empty[p] = FREE
  BY Numbers
<1> HIDE DEF empty
<1>4. Turns(C, dir, D, {})
  <2> DEFINE G == [s \in Slots |-> s]
  <2>1. G \in Seq(Slots) /\ DOMAIN G = Slots /\ Len(G) = DirSize
    <3>1. G \in [1..DirSize -> Slots] /\ DirSize \in Nat
      BY Numbers
    <3> QED BY <3>1, Numbers, SeqDef, LenProperties
  <2>2. C = [i \in DOMAIN G |-> Write("dir", G[i], NoFile)]
    BY <2>1
  <2>3. \A s \in Slots : D[s] = IF \E i \in 1..Len(G) : G[i] = s THEN NoFile ELSE dir[s]
    BY <2>1, Numbers
  <2> HIDE DEF C, G, D
  <2> QED BY <1>0, <2>1, <2>2, <2>3, ClearsTurn
<1>5. Turns(I, D, D, {})
  BY <1>1, TableTurn
<1>6. D \in Dirs /\ \A s \in Slots : D[s] = NoFile
  BY DEF Dirs
<1> HIDE DEF C, I, D
<1>7. Turns(todo', dir, D, {})
  BY <1>2, <1>4, <1>5, TurnsJoin
<1>8. Consistent(Sealed(empty), D)
  <2> DEFINE S == Sealed(empty)
  <2>1. \A p \in Pages : S[p] = FREE
    BY <1>1, <1>3, SealedSame
  <2> HIDE DEF S
  <2>2. Consistent(S, D)
    BY <1>6, <2>1, EmptyFits
  <2> QED BY <2>2 DEF S
<1>9. Heads(Sealed(empty), disk', todo', cache', op'.kind)
  BY <1>1, PlannedHeads
<1>10. Distinct(Starts(dir) \cup {}) /\ (mounted' => clean')
  BY <1>0, <1>2 DEF Distinct
<1> QED BY <1>2, <1>6, <1>7, <1>8, <1>9, <1>10, PlannedFiles

LEMMA ReadFiles ==
  ASSUME TypeInv, FileInv, packFreeSpace
  PROVE  FileInv'
<1> DEFINE read == __osPfsReadInode(cache)
<1>1. /\ disk' = disk /\ dir' = dir /\ Ready /\ UNCHANGED <<mounted, clean>>
      /\ cache' = CacheAfter(read) /\ todo' = read.todo
      /\ op' = IF read.todo = <<>> THEN NoOp ELSE [NoOp EXCEPT !.kind = "read"]
  BY DEF packFreeSpace
<1>2. op'.kind # "format"
  BY <1>1 DEF NoOp
<1>3. Consistent(disk["inode"], dir) /\ dir \in Dirs /\ clean /\ todo = <<>>
  BY <1>1, ReadyFiles
<1>4. read.todo = <<>> /\ CacheAfter(read) = disk["inode"]
  BY <1>3, CleanFiles
<1> HIDE DEF read
<1> DEFINE W == <<>>
<1>5. W \in Seq(Writes) /\ \A k \in 1..Len(W) : W[k].to # "dir" /\ W[k].to \in {"dir", "page"}
  OBVIOUS
<1>6. todo' = W
  BY <1>1, <1>4
<1> HIDE DEF W
<1>7. NoTables(todo') /\ Turns(todo', dir, dir, {})
  BY <1>5, <1>6, NoTurn DEF NoTables
<1> QED BY <1>1, <1>2, <1>3, <1>4, <1>7, SettledFiles

\* A block written, or a mirror's copy lost.
LEMMA TailFiles ==
  ASSUME TypeInv, FileInv, todo # <<>>, todo' = Tail(todo),
         dir' = IF Head(todo).to = "dir" THEN [dir EXCEPT ![Head(todo).at] = Head(todo).val] ELSE dir,
         IF Tail(todo) = <<>> THEN Finish ELSE UNCHANGED <<op, mounted, saved, clean>>,
         \A S : Heads(S, disk, todo, cache, op.kind) => Heads(S, disk', todo', cache', op'.kind)
  PROVE  FileInv'
<1>1. todo \in Seq(Writes) /\ dir \in Dirs
  BY DEF TypeInv, Dirs
<1>2. /\ \A D : Leads(todo, dir, D) => Leads(todo', dir', D)
      /\ Starts(dir') \cup Named(todo') \subseteq Starts(dir) \cup Named(todo)
  BY <1>1, TurnsTail
<1>4. Distinct(Starts(dir') \cup Named(todo'))
  BY <1>2 DEF FileInv, Distinct
<1>5. (mounted' => clean') /\ (op'.kind = "format" => ~mounted')
  BY NoOpOK DEF Finish, FileInv
<1>6. Settling(op, clean)' => Settling(op, clean)
  BY SettlingBefore
<1> QED BY <1>2, <1>4, <1>5, <1>6 DEF FileInv

LEMMA WrittenFiles ==
  ASSUME TypeInv, FileInv, __osContRamWrite
  PROVE  FileInv'
<1> DEFINE w == Head(todo)
<1>1. /\ todo # <<>> /\ todo' = Tail(todo)
      /\ IF Tail(todo) = <<>> THEN Finish ELSE UNCHANGED <<op, mounted, saved, clean>>
      /\ CASE w.to = "dir"  -> dir' = [dir EXCEPT ![w.at] = w.val] /\ UNCHANGED <<disk, content>>
           [] w.to = "page" -> content' = [content EXCEPT ![w.at] = w.val] /\ UNCHANGED <<disk, dir>>
           [] OTHER         -> Inode(w) /\ UNCHANGED <<dir, content>>
  BY DEF __osContRamWrite
<1>2. dir' = IF w.to = "dir" THEN [dir EXCEPT ![w.at] = w.val] ELSE dir
  <2> HIDE DEF w
  <2>1. CASE w.to = "dir"
    BY <1>1, <2>1
  <2>2. CASE w.to = "page"
    BY <1>1, <2>2
  <2>3. CASE w.to # "dir" /\ w.to # "page"
    BY <1>1, <2>3
  <2> QED BY <2>1, <2>2, <2>3
<1>3. \A S : Heads(S, disk, todo, cache, op.kind) => Heads(S, disk', todo', cache', op'.kind)
  BY WrittenHeads
<1> QED BY <1>1, <1>2, <1>3, TailFiles

LEMMA LostFiles ==
  ASSUME TypeInv, FileInv, InodeWriteLost, FirstCopyWritten
  PROVE  FileInv'
<1>1. /\ todo # <<>> /\ todo' = Tail(todo) /\ dir' = dir /\ Unnoticed(Head(todo))
      /\ IF Tail(todo) = <<>> THEN Finish ELSE UNCHANGED <<op, mounted, saved, clean>>
  BY DEF InodeWriteLost
<1>2. Head(todo).to # "dir"
  BY <1>1 DEF Unnoticed
<1>3. \A S : Heads(S, disk, todo, cache, op.kind) => Heads(S, disk', todo', cache', op'.kind)
  BY LostHeads
<1> QED BY <1>1, <1>2, <1>3, TailFiles

\* A request given up: only a format is, and it is not mounted.
LEMMA DroppedFiles ==
  ASSUME TypeInv, FileInv, dir' = dir, todo' = <<>>, op' = NoOp, ~clean', ~mounted'
  PROVE  FileInv'
<1>1. Named(todo') = {}
  BY DEF Named
<1>2. Distinct(Starts(dir') \cup Named(todo'))
  BY <1>1 DEF FileInv, Distinct
<1>3. ~Settling(op, clean)' /\ op'.kind # "format"
  BY NoOpOK DEF Settling
<1> QED BY <1>2, <1>3 DEF FileInv

LEMMA FailedFiles ==
  ASSUME TypeInv, FileInv, WriteFails, Dependable
  PROVE  FileInv'
<1>1. /\ <<op.kind, Head(todo).to>> \in FailsAt /\ ~Unnoticed(Head(todo))
      /\ mounted' = (mounted \/ op.kind = "init")
      /\ clean' = FALSE /\ op' = NoOp /\ todo' = <<>> /\ dir' = dir
  BY DEF WriteFails
<1>2. op.kind \in Kinds
  BY DEF TypeInv, OpOK, Ops
<1>3. op.kind = "format"
  BY <1>1, <1>2 DEF Dependable, Unnoticed
<1>4. ~mounted'
  BY <1>1, <1>3 DEF FileInv
<1> QED BY <1>1, <1>4, DroppedFiles

LEMMA NextFiles ==
  ASSUME TypeInv, FileInv, [Next]_vars, Dependable
  PROVE  FileInv'
<1>1. CASE osPfsInit
  <2>1. /\ todo' = osPfsChecker(NoTable) /\ op'.kind = "init" /\ dir' = dir
        /\ mounted' = mounted /\ clean' = clean
    BY <1>1 DEF osPfsInit, Start
  <2> QED BY <2>1, CheckFiles
<1>2. CASE packRepair
  <2>1. /\ todo' = osPfsChecker(cache) /\ op'.kind = "check" /\ dir' = dir
        /\ mounted' = mounted /\ clean' = clean /\ cache \in Links \cup {NoTable}
    BY <1>2 DEF packRepair, Start, TypeInv
  <2> QED BY <2>1, CheckFiles
<1>3. CASE packFreeSpace
  BY <1>3, ReadFiles
<1>4. CASE packFormat
  BY <1>4, FormattedFiles
<1>5. ASSUME NEW n \in Names, NEW z \in Sizes, packWriteFile(n, z) PROVE FileInv'
  <2> DEFINE read == __osPfsReadInode(NoTable)
  <2>1. /\ WriteNew(n, z, read) \/ WriteOver(n, z, read)
        /\ cache' = CacheAfter(read) /\ UNCHANGED <<mounted, saved, clean>> /\ Ready
    BY <1>5 DEF packWriteFile
  <2> HIDE DEF read
  <2>2. read = __osPfsReadInode(NoTable)
    BY DEF read
  <2> QED BY <2>1, <2>2, NewFiles, OverFiles
<1>6. ASSUME NEW s \in Slots, packDeleteFile(s) PROVE FileInv'
  BY <1>6, DeletedFiles
<1>7. CASE __osContRamWrite
  BY <1>7, WrittenFiles
<1>8. CASE InodeWriteLost
  BY <1>8, LostFiles, DependableFirst
<1>9. CASE WriteFails
  BY <1>9, FailedFiles
<1>10. CASE PowerLoss
  BY <1>10, DroppedFiles DEF PowerLoss
<1>11. CASE UNCHANGED vars
  BY <1>11 DEF FileInv, Settling, vars
<1> QED BY <1>1, <1>2, <1>3, <1>4, <1>5, <1>6, <1>7, <1>8, <1>9, <1>10, <1>11 DEF Next

LEMMA InitFiles == Init => FileInv
<1> SUFFICES ASSUME Init PROVE FileInv
  OBVIOUS
<1>1. /\ dir = [s \in Slots |-> NoFile] /\ mounted = FALSE /\ clean = FALSE
      /\ op = NoOp /\ todo = <<>>
  BY DEF Init
<1>2. Starts(dir) = {} /\ Named(todo) = {}
  BY <1>1 DEF Starts, Used, Named
<1> QED BY <1>1, <1>2, NoOpOK DEF FileInv, Distinct, Settling

LEMMA FilesHold == Dependable => (Spec => [](TypeInv /\ FileInv))
<1> SUFFICES ASSUME Dependable PROVE Spec => [](TypeInv /\ FileInv)
  OBVIOUS
<1>1. Init => TypeInv /\ FileInv
  BY InitType, InitFiles
<1>2. TypeInv /\ FileInv /\ [Next]_vars => (TypeInv /\ FileInv)'
  BY NextType, NextFiles
<1> QED BY <1>1, <1>2, PTL DEF Spec

LEMMA FilesWhole ==
  ASSUME TypeInv, FileInv
  PROVE  NothingLost
<1> DEFINE t == disk["inode"]
           chain(s) == ToSet(Walk(t, dir[s].start))
<1> SUFFICES ASSUME Ready, clean
             PROVE  /\ SumOK(t) /\ disk["minode"] = t
                    /\ Broken(t) = {}
                    /\ \A p \in Pages :
                         Cardinality({s \in Kept(t) : p \in chain(s)}) =
                           (IF t[p] = FREE THEN 0 ELSE 1)
  BY DEF NothingLost
<1>1. Consistent(t, dir) /\ SumOK(t) /\ disk["minode"] = t
  BY CleanFiles DEF Ready, Idle
<1>2. Broken(t) = {}
  BY <1>1 DEF Broken, Consistent, Used
<1>3. Kept(t) = Used(dir)
  BY <1>2 DEF Kept, Used
<1> HIDE DEF t
<1>4. /\ \A s, u \in Used(dir) : s # u => \A x : ~(x \in chain(s) /\ x \in chain(u))
      /\ \A p \in Pages : t[p] # FREE <=> \E s \in Used(dir) : p \in chain(s)
  BY <1>1 DEF Consistent, FilePages
<1>5. ASSUME NEW p \in Pages
      PROVE  Cardinality({s \in Kept(t) : p \in chain(s)}) = (IF t[p] = FREE THEN 0 ELSE 1)
  <2> DEFINE H == {s \in Used(dir) : p \in chain(s)}
  <2>1. CASE t[p] = FREE
    <3>1. H = {}
      BY <1>4, <2>1
    <3> QED BY <1>3, <2>1, <3>1, FS_EmptySet
  <2>2. CASE t[p] # FREE
    <3>1. PICK s \in Used(dir) : p \in chain(s)
      BY <1>4, <2>2
    <3>2. H = {s}
      BY <1>4, <3>1
    <3>3. Cardinality(H) = 1
      BY <3>2, FS_Singleton
    <3> QED BY <1>3, <2>2, <3>3
  <2> QED BY <2>1, <2>2
<1> QED BY <1>1, <1>2, <1>5

\* Every page of a checked and mounted pak is free or in exactly one file, and
\* no file is broken, whenever and as often as power fails, also while the pak
\* is formatted or a mirror is copied back, where writes may fail as well.
THEOREM CheckedPakIsWhole == Dependable => (Spec => []NothingLost)
<1>1. TypeInv /\ FileInv => NothingLost
  BY FilesWhole
<1> QED BY <1>1, FilesHold, PTL

-----------------------------------------------------------------------------
(* Saved files stay.                                                       *)

\* A file whole and the same in two tables is so in any blocks of both.
LEMMA GuardsBlend ==
  ASSUME NEW t, NEW u, NEW b, NEW p, NEW w, Guards(t, p, w), Guards(u, p, w)
  PROVE  Guards(Blend(t, u, b), p, w)
<1> DEFINE v == Blend(t, u, b)
<1>1. IsChain(t, p, w) /\ Alone(t, w) /\ IsChain(u, p, w) /\ Alone(u, w)
  BY WholeIs DEF Guards
<1>2. \A q \in Pages : v[q] = t[q] \/ v[q] = u[q]
  BY Numbers DEF Blend
<1> HIDE DEF v
<1>3. Len(w) \in Nat /\ Len(w) >= 1 /\ \A i \in 1..Len(w) : w[i] \in Pages
  BY <1>1, ChainPages
<1>4. IsChain(v, p, w)
  <2>1. \A i \in 1..(Len(w) - 1) : i \in 1..Len(w)
    BY <1>3
  <2>2. \A i \in 1..(Len(w) - 1) : v[w[i]] = w[i + 1]
    BY <1>1, <1>2, <1>3, <2>1 DEF IsChain
  <2>3. v[w[Len(w)]] = EOF
    BY <1>1, <1>2, <1>3 DEF IsChain
  <2> QED BY <1>1, <2>2, <2>3 DEF IsChain
<1>5. Alone(v, w)
  BY <1>1, <1>2 DEF Alone
<1>6. Whole(v, p) /\ Walk(v, p) = w
  BY <1>4, <1>5, WholeIs
<1> QED BY <1>6 DEF v, Guards

\* So it is in a table that leaves its pages alone.
LEMMA GuardsStay ==
  ASSUME NEW t, NEW p, NEW w, Guards(t, p, w), NEW u,
         \A x \in ToSet(w) : u[x] = t[x],
         \A q \in Pages : u[q] \in ToSet(w) => t[q] = u[q]
  PROVE  Guards(u, p, w)
BY StaysWhole DEF Guards

\* Writes that leave the file n in slot s, that starts at p and has the pages
\* w, as it is.
Sparing(n, s, p, w) ==
  {x \in Writes :
     /\ x.to \in Copies \cup {"restore"} => Guards(x.val, p, w)
     /\ x.to = "dir" /\ x.at = s => x.val # NoFile /\ x.val.name = n /\ x.val.start = p
     /\ x.to = "page" /\ x.at \in ToSet(w) => x.val = n}

\* The file is there, whichever blocks of both tables or the cached one are read,
\* with its data in every page saved, and no write to come will change that.
Held(n, s, p, w) ==
  /\ s \in Slots /\ dir[s] # NoFile /\ dir[s].name = n /\ dir[s].start = p
  /\ \A c \in Copies : Guards(disk[c], p, w)
  /\ cache # NoTable => Guards(cache, p, w)
  /\ saved[n] <= Len(w) /\ \A i \in 1..saved[n] : content[w[i]] = n
  /\ todo \in Seq(Sparing(n, s, p, w))

SavedInv == \A n \in Names : saved[n] # 0 => \E s, p, w : Held(n, s, p, w)

\* What a write does, or would have done.
Effect(x) ==
  /\ \A c \in Copies : \/ disk'[c] = disk[c]
                       \/ /\ x.to \in Copies \cup {"restore"}
                          /\ disk'[c] = Blend(disk[c], x.val, x.at)
  /\ dir' = IF x.to = "dir" THEN [dir EXCEPT ![x.at] = x.val] ELSE dir
  /\ content' = IF x.to = "page" THEN [content EXCEPT ![x.at] = x.val] ELSE content
  /\ cache' \in {cache, NoTable} \/ (x.to = "minode" /\ cache' = x.val)

LEMMA WrittenEffect ==
  ASSUME TypeInv, __osContRamWrite
  PROVE  Effect(Head(todo))
<1> DEFINE x == Head(todo)
<1>1. /\ x \in Writes
      /\ CASE x.to = "dir"  -> dir' = [dir EXCEPT ![x.at] = x.val] /\ UNCHANGED <<disk, content>>
           [] x.to = "page" -> content' = [content EXCEPT ![x.at] = x.val] /\ UNCHANGED <<disk, dir>>
           [] OTHER         -> Inode(x) /\ UNCHANGED <<dir, content>>
  BY HeadTail DEF __osContRamWrite, TypeInv
<1>2. disk \in [Copies -> Links] /\ x.to \in Copies \cup {"restore", "dir", "page"}
  BY <1>1, WriteKinds DEF TypeInv, Copies
<1>c. cache' \in {cache, NoTable} \/ (x.to = "minode" /\ cache' = x.val)
  BY DEF __osContRamWrite, CacheStep
<1> HIDE DEF x
<1>3. x.to = "dir" => Effect(x)
  BY <1>1, <1>c DEF Effect
<1>4. x.to = "page" => Effect(x)
  BY <1>1, <1>c DEF Effect
<1>5. ASSUME x.to # "dir", x.to # "page" PROVE Effect(x)
  <2>1. Inode(x) /\ dir' = dir /\ content' = content /\ x.to \in Copies \cup {"restore"}
    BY <1>1, <1>2, <1>5
  <2> DEFINE c == IF x.to = "minode" THEN "minode" ELSE "inode"
  <2>2. disk' = [disk EXCEPT ![c] = Blend(disk[c], x.val, x.at)]
    BY <1>1, <1>2, <2>1, InodeIs
  <2> HIDE DEF c
  <2>3. \A a \in Copies : disk'[a] = disk[a] \/ disk'[a] = Blend(disk[a], x.val, x.at)
    BY <1>2, <2>2
  <2> QED BY <1>c, <1>5, <2>1, <2>3 DEF Effect
<1>6. Effect(x)
  BY <1>3, <1>4, <1>5
<1> QED BY <1>6 DEF x

LEMMA LostEffect ==
  ASSUME TypeInv, InodeWriteLost, Dependable
  PROVE  Effect(Head(todo))
<1>1. /\ Unnoticed(Head(todo)) /\ <<op.kind, Head(todo).to>> \in FailsAt
      /\ UNCHANGED <<disk, dir, content, cache>> /\ op.kind \in Kinds
  BY DEF InodeWriteLost, TypeInv, OpOK, Ops
<1>2. Head(todo).to = "restore"
  BY <1>1 DEF Unnoticed, Dependable
<1> QED BY <1>1, <1>2 DEF Effect

\* The elements of a sequence of a smaller set.
LEMMA TailOf ==
  ASSUME NEW X, NEW W \in Seq(X), W # <<>>
  PROVE  Head(W) \in X /\ Tail(W) \in Seq(X)
BY HeadTailProperties

\* A file held stays held over one write.
LEMMA HeldTail ==
  ASSUME TypeInv, NEW n \in Names, NEW s, NEW p, NEW w, Held(n, s, p, w),
         todo # <<>>, todo' = Tail(todo), Effect(Head(todo)), saved'[n] = saved[n]
  PROVE  Held(n, s, p, w)'
<1> DEFINE x == Head(todo)
           X == Sparing(n, s, p, w)
<1>1. todo \in Seq(X)
  BY DEF Held
<1> HIDE DEF X
<1>2. x \in X /\ todo' \in Seq(X)
  BY <1>1, TailOf
<1>3. Effect(x)
  OBVIOUS
<1> HIDE DEF x
<1>4. /\ x \in Writes
      /\ x.to \in Copies \cup {"restore"} => Guards(x.val, p, w)
      /\ x.to = "dir" /\ x.at = s => x.val # NoFile /\ x.val.name = n /\ x.val.start = p
      /\ x.to = "page" /\ x.at \in ToSet(w) => x.val = n
  BY <1>2 DEF X, Sparing
<1>5. ASSUME NEW c \in Copies PROVE Guards(disk'[c], p, w)
  <2>1. Guards(disk[c], p, w)
    BY DEF Held
  <2>2. CASE disk'[c] = disk[c]
    BY <2>1, <2>2
  <2>3. CASE disk'[c] # disk[c]
    <3>1. disk'[c] = Blend(disk[c], x.val, x.at) /\ Guards(x.val, p, w)
      BY <1>3, <1>4, <2>3 DEF Effect
    <3> QED BY <2>1, <3>1, GuardsBlend
  <2> QED BY <2>2, <2>3
<1>6. dir'[s] # NoFile /\ dir'[s].name = n /\ dir'[s].start = p /\ s \in Slots
  <2>1. dir[s] # NoFile /\ dir[s].name = n /\ dir[s].start = p /\ s \in Slots
    BY DEF Held
  <2>2. dir \in Dirs
    BY DEF TypeInv, Dirs
  <2>3. CASE x.to = "dir" /\ x.at = s
    <3>1. dir'[s] = x.val
      BY <1>3, <2>1, <2>2, <2>3 DEF Effect, Dirs
    <3> QED BY <1>4, <2>1, <2>3, <3>1
  <2>4. CASE ~(x.to = "dir" /\ x.at = s)
    <3>1. dir'[s] = dir[s]
      BY <1>3, <2>1, <2>2, <2>4 DEF Effect, Dirs
    <3> QED BY <2>1, <3>1
  <2> QED BY <2>3, <2>4
<1>7. IsChain(disk["inode"], p, w)
  BY WholeIs DEF Held, Copies, Guards
<1>8. saved'[n] <= Len(w) /\ \A i \in 1..saved'[n] : content'[w[i]] = n
  <2>1. saved[n] <= Len(w) /\ \A i \in 1..saved[n] : content[w[i]] = n
    BY DEF Held
  <2>2. saved[n] \in Nat /\ content \in [Pages -> Names \cup {NoFile}]
    <3>1. /\ saved \in [Names -> Sizes \cup {0}]
          /\ content \in [Pages -> Names \cup {NoFile}]
      BY DEF TypeInv
    <3> QED BY <3>1, PakAssumption
  <2>3. \A i \in 1..Len(w) : w[i] \in ToSet(w) /\ w[i] \in Pages
    BY <1>7, ChainPages
  <2>4. Len(w) \in Nat
    BY <1>7, ChainPages
  <2>5. ASSUME NEW i \in 1..saved[n] PROVE content'[w[i]] = n
    <3>1. i \in 1..Len(w)
      BY <2>1, <2>2, <2>4
    <3>2. w[i] \in ToSet(w) /\ w[i] \in Pages /\ content[w[i]] = n
      BY <2>1, <2>3, <3>1
    <3> QED BY <1>3, <1>4, <2>2, <3>2 DEF Effect
  <2> QED BY <2>1, <2>5
<1>9. ASSUME cache' # NoTable PROVE Guards(cache', p, w)
  <2>1. cache' = cache \/ (x.to = "minode" /\ cache' = x.val)
    BY <1>3, <1>9 DEF Effect
  <2> QED BY <1>4, <1>9, <2>1 DEF Held, Copies
<1> QED BY <1>2, <1>5, <1>6, <1>8, <1>9 DEF Held, X

\* A save that is under way, over one write.
LEMMA FillsTail ==
  ASSUME TypeInv, NEW S, NEW D, NEW f, NEW w, Fills(S, D, f, w),
         todo # <<>>, todo' = Tail(todo), Effect(Head(todo))
  PROVE  /\ Leads(todo', dir', D) /\ todo' \in Seq(Putting(op.name))
         /\ \A i \in 1..op.size : content'[w[i]] = op.name \/ Pending(todo', 1, "page", w[i])
<1> DEFINE x == Head(todo)
           X == Putting(op.name)
<1>0. /\ todo \in Seq(Writes) /\ dir \in Dirs /\ content \in [Pages -> Names \cup {NoFile}]
      /\ op.size \in Sizes \cup {0}
  BY DEF TypeInv, Dirs, OpOK, Ops
<1>1. todo \in Seq(X)
  BY DEF Fills
<1> HIDE DEF X
<1>2. x \in X /\ todo' \in Seq(X)
  BY <1>1, TailOf
<1>3. Effect(x)
  OBVIOUS
<1>4. /\ dir' = IF x.to = "dir" THEN [dir EXCEPT ![x.at] = x.val] ELSE dir
      /\ content' = IF x.to = "page" THEN [content EXCEPT ![x.at] = x.val] ELSE content
  BY <1>3 DEF Effect
<1>5. Leads(todo', dir', D)
  <2>1. Leads(todo, dir, D)
    BY DEF Fills
  <2>2. Leads(Tail(todo), dir', D)
    BY <1>0, <1>4, <2>1, TurnsTail
  <2> QED BY <2>2
<1>6. \A b : Pending(todo, 1, "page", b) => (x.to = "page" /\ x.at = b) \/ Pending(todo', 1, "page", b)
  BY <1>0, PendingTail
<1> HIDE DEF x
<1>7. x.to = "page" => x.val = op.name
  BY <1>2 DEF X, Putting
<1>8. \A i \in 1..Len(w) : w[i] \in Pages
  BY WholeIs, ChainPages DEF Fills, Guards
<1>9. op.size \in Nat /\ Len(w) \in Nat /\ op.size <= Len(w)
  <2>1. Len(w) \in Nat
    BY WholeIs, ChainPages DEF Fills, Guards
  <2>2. op.size \in Nat
    <3>1. \A z \in Sizes \cup {0} : z \in Nat
      BY PakAssumption
    <3>2. op.size \in Sizes \cup {0}
      BY <1>0
    <3> QED BY <3>1, <3>2, Zenon
  <2>3. op.size <= Len(w)
    BY DEF Fills
  <2> QED BY <2>1, <2>2, <2>3
<1>10. ASSUME NEW i \in 1..op.size
       PROVE  content'[w[i]] = op.name \/ Pending(todo', 1, "page", w[i])
  <2>1. w[i] \in Pages
    BY <1>8, <1>9
  <2>2. content[w[i]] = op.name \/ Pending(todo, 1, "page", w[i])
    BY DEF Fills
  <2>3. CASE x.to = "page" /\ x.at = w[i]
    BY <1>0, <1>4, <1>7, <2>1, <2>3
  <2>4. CASE ~(x.to = "page" /\ x.at = w[i])
    <3>1. content'[w[i]] = content[w[i]]
      BY <1>0, <1>4, <2>1, <2>4
    <3> QED BY <1>6, <2>2, <2>4, <3>1
  <2> QED BY <2>3, <2>4
<1> QED BY <1>2, <1>5, <1>10 DEF X

\* A save that is done holds its file.
LEMMA FilledHeld ==
  ASSUME TypeInv, TypeInv', NEW S, NEW D, NEW f, NEW w, Fills(S, D, f, w),
         todo # <<>>, todo' = Tail(todo), Tail(todo) = <<>>, Effect(Head(todo)),
         Heads(S, disk', todo', cache', op'.kind),
         NEW n, n = op.name, saved'[n] = op.size
  PROVE  Held(n, f, D[f].start, w)'
<1>1. /\ Leads(todo', dir', D)
      /\ \A i \in 1..op.size : content'[w[i]] = n \/ Pending(todo', 1, "page", w[i])
  BY FillsTail
<1>0. todo' = <<>>
  OBVIOUS
<1>2. \A x, b : ~Pending(todo', 1, x, b)
  <2>1. \A x, b : ~Pending(<<>>, 1, x, b)
    BY DEF Pending
  <2> QED BY <1>0, <2>1
<1>3. /\ f \in Slots /\ D[f] # NoFile /\ D[f].name = n /\ op.size <= Len(w)
      /\ Guards(S, D[f].start, w)
  BY DEF Fills
<1>4. dir'[f] = D[f]
  BY <1>1, <1>2, <1>3 DEF Leads
<1>5. disk' \in [Copies -> Links]
  BY DEF TypeInv
<1>6. Heads(S, disk', <<>>, cache', op'.kind)
  OBVIOUS
<1>7. disk'["inode"] = S /\ disk'["minode"] = S /\ (cache' = NoTable \/ cache' = S)
  BY <1>5, <1>6, HeadsSettled
<1>8. \A i \in 1..saved'[n] : content'[w[i]] = n
  BY <1>1, <1>2
<1>9. todo' \in Seq(Sparing(n, f, D[f].start, w))
  <2>1. \A X : <<>> \in Seq(X)
    OBVIOUS
  <2> QED BY <1>0, <2>1
<1> QED BY <1>3, <1>4, <1>7, <1>8, <1>9 DEF Held, Copies

LEMMA TailSaved ==
  ASSUME TypeInv, TypeInv', WriteInv, SavedInv, todo # <<>>, todo' = Tail(todo),
         Effect(Head(todo)),
         IF Tail(todo) = <<>> THEN Finish ELSE UNCHANGED <<op, mounted, saved, clean>>,
         \A S : Heads(S, disk, todo, cache, op.kind) => Heads(S, disk', todo', cache', op'.kind)
  PROVE  WriteInv' /\ SavedInv'
<1>1. ASSUME op'.kind = "write", op'.whole PROVE \E S, D, f, w : Fills(S, D, f, w)'
  <2>1. op' = op
    BY <1>1, NoOpOK DEF Finish
  <2>2. PICK S, D, f, w : Fills(S, D, f, w)
    BY <1>1, <2>1 DEF WriteInv
  <2>3. /\ Leads(todo', dir', D) /\ todo' \in Seq(Putting(op.name))
        /\ \A i \in 1..op.size : content'[w[i]] = op.name \/ Pending(todo', 1, "page", w[i])
    BY <2>2, FillsTail
  <2>4. Heads(S, disk', todo', cache', op'.kind)
    BY <2>2 DEF Fills
  <2>5. /\ D \in Dirs /\ f \in Slots /\ D[f] # NoFile /\ D[f].name = op.name
        /\ Guards(S, D[f].start, w) /\ op.size <= Len(w)
    BY <2>2 DEF Fills
  <2>6. Fills(S, D, f, w)'
    BY <2>1, <2>3, <2>4, <2>5 DEF Fills
  <2> QED BY <2>6
<1>2. ASSUME NEW n \in Names, saved'[n] # 0 PROVE \E s, p, w : Held(n, s, p, w)'
  <2>0. saved \in [Names -> Sizes \cup {0}] /\ op.name \in Names \cup {NoFile} /\ NoFile \notin Names
    BY PakAssumption DEF TypeInv, OpOK, Ops
  <2>1. CASE saved'[n] = saved[n]
    <3>1. PICK s, p, w : Held(n, s, p, w)
      BY <1>2, <2>1 DEF SavedInv
    <3>2. Held(n, s, p, w)'
      BY <2>1, <3>1, HeldTail
    <3> QED BY <3>2
  <2>2. CASE saved'[n] # saved[n]
    <3>1. Tail(todo) = <<>> /\ Finish
      BY <2>2
    <3>2. /\ op.kind = "write" /\ op.whole
          /\ saved' = [saved EXCEPT ![op.name] = op.size]
      BY <2>2, <3>1 DEF Finish
    <3>3. n = op.name /\ saved'[n] = op.size
      BY <2>0, <2>2, <3>2
    <3>4. PICK S, D, f, w : Fills(S, D, f, w)
      BY <3>2 DEF WriteInv
    <3>5. Heads(S, disk', todo', cache', op'.kind)
      BY <3>4 DEF Fills
    <3>6. Held(n, f, D[f].start, w)'
      BY <3>1, <3>3, <3>4, <3>5, FilledHeld
    <3>7. PICK p : p = D[f].start
      OBVIOUS
    <3>8. Held(n, f, p, w)'
      BY <3>6, <3>7
    <3> QED BY <3>8
  <2> QED BY <2>1, <2>2
<1> QED BY <1>1, <1>2 DEF WriteInv, SavedInv

\* What a request that begins takes for its table.
Tables == {NoTable, cache, disk["inode"], disk["minode"]}

LEMMA ReadTables ==
  ASSUME NEW c \in {cache, NoTable}
  PROVE  CacheAfter(__osPfsReadInode(c)) \in Tables
BY DEF CacheAfter, __osPfsReadInode, Tables

\* A request that begins, or is given up.
LEMMA BegunSaved ==
  ASSUME SavedInv, UNCHANGED <<disk, dir, content>>, cache' \in Tables,
         \A n \in Names : saved'[n] = saved[n] \/ saved'[n] = 0,
         \A n \in Names : \A s, p, w :
           Held(n, s, p, w) /\ saved'[n] # 0 => todo' \in Seq(Sparing(n, s, p, w))
  PROVE  SavedInv'
<1> SUFFICES ASSUME NEW n \in Names, saved'[n] # 0 PROVE \E s, p, w : Held(n, s, p, w)'
  BY DEF SavedInv
<1>1. saved'[n] = saved[n]
  OBVIOUS
<1>2. PICK s, p, w : Held(n, s, p, w)
  BY <1>1 DEF SavedInv
<1>3. todo' \in Seq(Sparing(n, s, p, w))
  BY <1>2
<1>4. cache' # NoTable => Guards(cache', p, w)
  BY <1>2 DEF Held, Tables, Copies
<1>5. Held(n, s, p, w)'
  BY <1>1, <1>2, <1>3, <1>4 DEF Held
<1> QED BY <1>5

\* Lists of writes that spare a file.
LEMMA TableSpares ==
  ASSUME NEW t \in Links, NEW n, NEW s, NEW p, NEW w, Guards(t, p, w)
  PROVE  __osPfsWriteInode(t) \in Seq(Sparing(n, s, p, w))
<1> DEFINE W == __osPfsWriteInode(t)
           u == Sealed(t)
           X == Sparing(n, s, p, w)
<1>1. W \in Seq(Writes) /\ \A k \in 1..Len(W) : W[k].to \in Copies /\ W[k].val = u
  BY TableWritesAre
<1>2. IsChain(t, p, w)
  BY WholeIs DEF Guards
<1>3. \A x \in ToSet(w) : x \in Pages
  BY <1>2, ChainPages
<1>4. \A q \in Pages : u[q] = t[q]
  BY SealedSame
<1> HIDE DEF W, u
<1>5. Guards(u, p, w)
  BY <1>3, <1>4, GuardsStay
<1>6. \A k \in 1..Len(W) : W[k] \in X
  BY <1>1, <1>5, ElementOfSeq DEF Sparing, Copies
<1> HIDE DEF X
<1>7. W \in Seq(X)
  BY <1>1, <1>6, Elementwise
<1> QED BY <1>7 DEF W, X

LEMMA DirSpares ==
  ASSUME NEW u \in Slots, NEW v \in Entry \cup {NoFile}, NEW n, NEW s, NEW p, NEW w,
         u = s => v # NoFile /\ v.name = n /\ v.start = p
  PROVE  <<Write("dir", u, v)>> \in Seq(Sparing(n, s, p, w))
<1> DEFINE x == Write("dir", u, v)
           X == Sparing(n, s, p, w)
<1>1. x \in Writes /\ x.to = "dir" /\ x.at = u /\ x.val = v
  BY DirWriteIs
<1> HIDE DEF x
<1>2. x \in X
  BY <1>1 DEF Sparing, Copies
<1> HIDE DEF X
<1>3. <<x>> \in Seq(X)
  BY <1>2
<1> QED BY <1>3 DEF x, X

LEMMA OccupySpares ==
  ASSUME NEW u \in Slots, NEW v \in Entry, NEW n, NEW s, NEW p, NEW w,
         u = s => v.name = n /\ v.start = p
  PROVE  Occupy(u, v) \in Seq(Sparing(n, s, p, w))
<1> DEFINE W == Occupy(u, v)
           X == Sparing(n, s, p, w)
<1>1. /\ W \in Seq(Writes)
      /\ \A k \in 1..Len(W) : /\ W[k].to = "dir" /\ W[k].at = u /\ W[k].val \in Entry
                              /\ W[k].val.start = v.start /\ W[k].val.name = v.name
  BY OccupyIs
<1> HIDE DEF W
<1>2. ASSUME NEW k \in 1..Len(W) PROVE W[k] \in X
  <2> DEFINE x == W[k]
  <2>1. /\ x \in Writes /\ x.to = "dir" /\ x.at = u /\ x.val \in Entry
        /\ x.val.start = v.start /\ x.val.name = v.name
    BY <1>1, ElementOfSeq
  <2> HIDE DEF x
  <2>2. x.val # NoFile
    BY <2>1, NotNoFile
  <2>3. x \in X
    BY <2>1, <2>2 DEF Sparing, Copies
  <2> QED BY <2>3 DEF x
<1> HIDE DEF X
<1>3. W \in Seq(X)
  BY <1>1, <1>2, Elementwise
<1> QED BY <1>3 DEF W, X

LEMMA DataSpares ==
  ASSUME NEW P \in Seq(Pages), NEW m \in Names, NEW n, NEW s, NEW p, NEW w,
         m = n \/ \A i \in 1..Len(P) : P[i] \notin ToSet(w)
  PROVE  DataWrites(P, m) \in Seq(Sparing(n, s, p, w))
<1> DEFINE W == DataWrites(P, m)
           X == Sparing(n, s, p, w)
<1>1. /\ W \in Seq(Writes) /\ Len(W) = Len(P)
      /\ \A k \in 1..Len(P) : W[k].to = "page" /\ W[k].at = P[k] /\ W[k].val = m
  BY DataWritesAre
<1> HIDE DEF W
<1>2. \A k \in 1..Len(W) : W[k] \in X
  BY <1>1, ElementOfSeq DEF Sparing, Copies
<1> HIDE DEF X
<1>3. W \in Seq(X)
  BY <1>1, <1>2, Elementwise
<1> QED BY <1>3 DEF W, X

LEMMA ReadSpares ==
  ASSUME disk \in [Copies -> Links], NEW c \in Links \cup {NoTable},
         NEW n, NEW s, NEW p, NEW w, Guards(disk["minode"], p, w)
  PROVE  __osPfsReadInode(c).todo \in Seq(Sparing(n, s, p, w))
<1> DEFINE W == __osPfsReadInode(c).todo
           u == disk["minode"]
           X == Sparing(n, s, p, w)
<1>1. W \in Seq(Writes)
  BY ReadType DEF Aside
<1>2. W = <<>> \/ W = Restore
  BY DEF __osPfsReadInode
<1>3. \A k \in 1..Len(Restore) : Restore[k].to = "restore" /\ Restore[k].val = u
  <2>1. DOMAIN Restore = 1..Blocks /\ \A k \in 1..Blocks : Restore[k].to = "restore" /\ Restore[k].val = u
    BY DEF Restore, Write
  <2>2. Len(Restore) = Blocks
    BY BlocksAre DEF Restore
  <2> QED BY <2>1, <2>2
<1> HIDE DEF W, u
<1>4. \A k \in 1..Len(W) : W[k].to = "restore" /\ W[k].val = u
  BY <1>2, <1>3
<1>5. Guards(u, p, w)
  BY DEF u
<1>6. \A k \in 1..Len(W) : W[k] \in X
  BY <1>1, <1>4, <1>5, ElementOfSeq DEF Sparing, Copies
<1> HIDE DEF X
<1>7. W \in Seq(X)
  BY <1>1, <1>6, Elementwise
<1> QED BY <1>7 DEF W, X

LEMMA ClearsSpare ==
  ASSUME NEW G \in Seq(Slots), NEW n, NEW s, NEW p, NEW w, \A i \in 1..Len(G) : G[i] # s
  PROVE  [i \in DOMAIN G |-> Write("dir", G[i], NoFile)] \in Seq(Sparing(n, s, p, w))
<1> DEFINE W == [i \in DOMAIN G |-> Write("dir", G[i], NoFile)]
           X == Sparing(n, s, p, w)
<1>1. DOMAIN G = 1..Len(G) /\ Len(G) \in Nat
  BY LenProperties
<1>2. W \in Seq(Writes)
  BY DirWrites DEF NoTables
<1>3. Len(W) = Len(G) /\ \A i \in 1..Len(G) : W[i].to = "dir" /\ W[i].at = G[i]
  <2>1. DOMAIN W = 1..Len(G) /\ \A i \in 1..Len(G) : W[i].to = "dir" /\ W[i].at = G[i]
    BY <1>1 DEF Write
  <2> HIDE DEF W
  <2> QED BY <1>1, <1>2, <2>1, LenProperties
<1> HIDE DEF W
<1>4. \A k \in 1..Len(W) : W[k] \in X
  BY <1>2, <1>3, ElementOfSeq DEF Sparing, Copies
<1> HIDE DEF X
<1>5. W \in Seq(X)
  BY <1>2, <1>4, Elementwise
<1> QED BY <1>5 DEF W, X

\* pfschecker.c: a repair spares what it finds whole.
LEMMA CheckSpares ==
  ASSUME TypeInv, NEW c \in Links \cup {NoTable}, NEW n, NEW s, NEW p, NEW w,
         Held(n, s, p, w), c # NoTable => Guards(c, p, w)
  PROVE  osPfsChecker(c) \in Seq(Sparing(n, s, p, w))
<1> DEFINE read == __osPfsReadInode(c)
           t == read.inode
           G == Ascending(Broken(t))
           C == [i \in DOMAIN G |-> Write("dir", G[i], NoFile)]
           R == Rebuilt(t)
           X == Sparing(n, s, p, w)
<1>1. disk \in [Copies -> Links] /\ t \in Links
  BY ReadType DEF TypeInv
<1>2. /\ Guards(disk["inode"], p, w) /\ Guards(disk["minode"], p, w)
      /\ s \in Slots /\ dir[s] # NoFile /\ dir[s].start = p
  BY DEF Held, Copies
<1>3. Guards(t, p, w)
  BY <1>2 DEF __osPfsReadInode
<1>4. read.todo \in Seq(X)
  BY <1>1, <1>2, ReadSpares
<1>5. osPfsChecker(c) = read.todo \o C \o __osPfsWriteInode(R)
  BY DEF osPfsChecker
<1> HIDE DEF read, X
<1>6. s \notin Broken(t) /\ s \in Kept(t) /\ Walk(t, dir[s].start) = w
  BY <1>2, <1>3 DEF Broken, Kept, Guards
<1>7. G \in Seq(Slots) /\ \A i \in 1..Len(G) : G[i] # s
  <2> DEFINE B == Broken(t)
  <2>1. B \in SUBSET (0..DirSize) /\ DirSize \in Nat /\ B \subseteq Slots
    BY Numbers DEF Broken
  <2> HIDE DEF B
  <2>2. Ascending(B) \in Seq(B)
    BY <2>1, AscendingSeq
  <2>3. Ascending(B) \in Seq(Slots)
    BY <2>1, <2>2, SeqMonotonic
  <2>4. \A i \in 1..Len(Ascending(B)) : Ascending(B)[i] \in B
    BY <2>2, ElementOfSeq
  <2> QED BY <1>6, <2>3, <2>4 DEF B
<1> HIDE DEF G
<1>8. C \in Seq(X)
  BY <1>7, ClearsSpare DEF X
<1>9. R \in Links
  BY <1>1, RebuiltType
<1>10. Guards(R, p, w)
  <2> DEFINE used == UNION {ToSet(Walk(t, dir[u].start)) : u \in Kept(t)}
  <2>1. \A q \in Pages : R[q] = IF q \in used THEN t[q] ELSE FREE
    BY Numbers DEF Rebuilt
  <2>2. \A x \in ToSet(w) : x \in used
    BY <1>6
  <2> HIDE DEF used, R, t
  <2>3. IsChain(t, p, w)
    BY <1>3, WholeIs DEF Guards
  <2>4. \A x \in ToSet(w) : x \in Pages /\ x # FREE
    BY <2>3, ChainPages, Numbers
  <2>5. \A x \in ToSet(w) : R[x] = t[x]
    BY <2>1, <2>2, <2>4
  <2>6. \A q \in Pages : R[q] \in ToSet(w) => t[q] = R[q]
    BY <2>1, <2>4
  <2> QED BY <1>3, <2>5, <2>6, GuardsStay
<1> HIDE DEF C, R
<1>11. __osPfsWriteInode(R) \in Seq(X)
  BY <1>9, <1>10, TableSpares DEF X
<1>12. read.todo \o C \o __osPfsWriteInode(R) \in Seq(X)
  BY <1>4, <1>8, <1>11, ConcatProperties
<1> QED BY <1>5, <1>12 DEF X

\* saves.c: a save of a new file spares those that are there.
LEMMA NewSpares ==
  ASSUME TypeInv, FileInv, NEW m \in Names, NEW z \in Sizes, NEW read,
         read = __osPfsReadInode(NoTable), WriteNew(m, z, read), Ready,
         cache' = CacheAfter(read), UNCHANGED <<mounted, saved, clean>>,
         NEW n, NEW s, NEW p, NEW w, Held(n, s, p, w)
  PROVE  todo' \in Seq(Sparing(n, s, p, w))
<1> DEFINE S == disk["inode"]
           new == __osPfsDeclearPage(S, z).inode
           got == __osPfsDeclearPage(S, z).pages
           p0 == __osPfsDeclearPage(S, z).first
           F == FirstFreeSlot
           entry(b) == [name |-> m, start |-> p0, occupied |-> b]
           I == __osPfsWriteInode(new)
           X == Sparing(n, s, p, w)
<1>1. S \in Links /\ read.inode = S /\ read.todo = <<>>
  BY ReadyFiles
<1>2. F \in FreeSlots /\ new \in Links
  BY <1>1, WriteNewStep
<1>3. z \in Nat \ {0} /\ z <= Len(FreePages(S))
  BY <1>1, PakAssumption DEF WriteNew
<1>4. p0 \in Pages
  BY <1>1, <1>3, DeclaredType
<1>5. PICK b \in BOOLEAN :
        Start("write", m, z, TRUE,
              <<>> \o I \o <<Write("dir", F, entry(b))>>
              \o DataWrites(got, m) \o Occupy(F, entry(b)))
  BY <1>1 DEF WriteNew
<1> DEFINE B1 == <<Write("dir", F, entry(b))>>
           B2 == DataWrites(got, m)
           B3 == Occupy(F, entry(b))
<1>6. todo' = <<>> \o I \o B1 \o B2 \o B3
  BY <1>5 DEF Start
<1>7. /\ got \in Seq(Pages) /\ Len(got) = z
      /\ \A i \in 1..z : got[i] \in Pages /\ S[got[i]] = FREE
      /\ \A i \in 1..(z - 1) : new[got[i]] = got[i + 1]
      /\ new[got[z]] = EOF
      /\ \A q \in Pages : q \notin ToSet(got) => new[q] = S[q]
      /\ \A q : q \in ToSet(got) <=> \E i \in 1..z : got[i] = q
  BY <1>1, <1>3, DeclaredIs
<1>8. Guards(S, p, w) /\ s \in Slots /\ dir[s] # NoFile
  BY DEF Held, Copies
<1>9. entry(b) \in Entry /\ F \in Slots /\ F # s
  BY <1>2, <1>4, <1>8 DEF Entry, FreeSlots
<1> HIDE DEF S, new, got, p0, F, entry
<1>10. IsChain(S, p, w)
  BY <1>8, WholeIs DEF Guards
<1>11. \A x \in ToSet(w) : x \in Pages /\ S[x] # FREE /\ x # EOF /\ x \notin ToSet(got)
  <2>1. \A x \in ToSet(w) : x \in Pages /\ S[x] # FREE
    BY <1>10, ChainPages
  <2>2. \A x \in ToSet(got) : S[x] = FREE
    BY <1>7
  <2> QED BY <2>1, <2>2, Numbers
<1>12. Guards(new, p, w)
  <2>1. \A x \in ToSet(w) : new[x] = S[x]
    BY <1>7, <1>11
  <2>2. ASSUME NEW q \in Pages, new[q] \in ToSet(w) PROVE S[q] = new[q]
    <3>1. ASSUME q \in ToSet(got) PROVE FALSE
      <4>1. PICK i \in 1..z : got[i] = q
        BY <1>7, <3>1
      <4>2. i # z
        BY <1>7, <1>11, <2>2, <4>1
      <4> DEFINE j == i + 1
      <4>3. i \in 1..(z - 1) /\ j \in 1..z
        BY <1>3, <4>1, <4>2
      <4>4. new[q] = got[j]
        BY <1>7, <4>1, <4>3
      <4> HIDE DEF j
      <4>5. new[q] \in ToSet(got)
        BY <1>7, <4>3, <4>4
      <4> QED BY <1>11, <2>2, <4>5
    <3> QED BY <1>7, <3>1
  <2> QED BY <1>8, <2>1, <2>2, GuardsStay
<1> HIDE DEF X
<1>13. I \in Seq(X)
  BY <1>2, <1>12, TableSpares DEF X
<1>14. B1 \in Seq(X)
  BY <1>9, DirSpares DEF X
<1>15. B2 \in Seq(X)
  <2>1. \A i \in 1..Len(got) : got[i] \notin ToSet(w)
    BY <1>7, <1>11
  <2> QED BY <1>7, <2>1, DataSpares DEF X
<1>16. B3 \in Seq(X)
  BY <1>9, OccupySpares DEF X
<1> HIDE DEF I, B1, B2, B3
<1>17. <<>> \o I \o B1 \o B2 \o B3 \in Seq(X)
  BY <1>13, <1>14, <1>15, <1>16, ConcatProperties, ConcatEmptySeq
<1> QED BY <1>6, <1>17 DEF X

\* A file written over keeps its pages, and others keep their data.
LEMMA OverSpares ==
  ASSUME TypeInv, FileInv, NEW m \in Names, NEW z \in Sizes, NEW read,
         read = __osPfsReadInode(NoTable), WriteOver(m, z, read), Ready,
         NEW n, NEW s, NEW p, NEW w, Held(n, s, p, w)
  PROVE  todo' \in Seq(Sparing(n, s, p, w))
<1> DEFINE S == disk["inode"]
           X == Sparing(n, s, p, w)
<1>0. /\ Consistent(S, dir) /\ S \in Links /\ dir \in Dirs
      /\ read.inode = S /\ read.ok /\ read.todo = <<>>
  BY ReadyFiles
<1>1. PICK u \in SlotOf(m) :
        LET all   == Walk(read.inode, dir[u].start)
            here  == IF read.ok THEN SubSeq(all, 1, Min({z, Len(all)})) ELSE <<dir[u].start>>
            whole == Len(here) = z
        IN  Start("write", m, z, whole,
                  read.todo \o DataWrites(here, m) \o (IF whole THEN Occupy(u, dir[u]) ELSE <<>>))
  BY DEF WriteOver
<1>2. PICK all, here : /\ all = Walk(S, dir[u].start)
                       /\ here = SubSeq(all, 1, Min({z, Len(all)}))
  OBVIOUS
<1> DEFINE B1 == DataWrites(here, m)
           B2 == IF Len(here) = z THEN Occupy(u, dir[u]) ELSE <<>>
<1>3. todo' = <<>> \o B1 \o B2
  BY <1>0, <1>1, <1>2 DEF Start
<1>4. /\ u \in Slots /\ dir[u] # NoFile /\ dir[u] \in Entry /\ dir[u].start \in Pages
      /\ dir[u].name = m
  BY Listed DEF SlotOf
<1>5. /\ Guards(S, p, w) /\ s \in Slots /\ dir[s] # NoFile /\ dir[s].start = p
      /\ dir[s].name = n
  BY DEF Held, Copies
<1>6. all \in Seq(Pages) /\ z \in Nat /\ DOMAIN all = 1..Len(all)
  <2>1. all \in Seq(Pages) /\ z \in Nat
    BY <1>0, <1>2, <1>4, WalkType, PakAssumption
  <2> QED BY <2>1, LenProperties
<1>7. here \in Seq(Pages) /\ \A i \in 1..Len(here) : i \in 1..Len(all) /\ here[i] = all[i]
  BY <1>2, <1>6, HereIs
<1>8. \A i \in 1..Len(here) : here[i] \in FilePages(S, dir, u)
  <2> HIDE DEF S
  <2> QED BY <1>2, <1>6, <1>7 DEF FilePages, ToSet
<1>9. u # s => \A i \in 1..Len(here) : here[i] \notin ToSet(w)
  <2>1. ToSet(w) = FilePages(S, dir, s)
    BY <1>5 DEF Guards, FilePages
  <2>2. u \in Used(dir) /\ s \in Used(dir)
    BY <1>4, <1>5 DEF Used
  <2> HIDE DEF S
  <2>3. u # s => \A x : ~(x \in FilePages(S, dir, u) /\ x \in FilePages(S, dir, s))
    BY <1>0, <2>2 DEF Consistent
  <2> QED BY <1>8, <2>1, <2>3
<1> HIDE DEF X
<1>10. B1 \in Seq(X)
  <2>1. m = n \/ \A i \in 1..Len(here) : here[i] \notin ToSet(w)
    BY <1>4, <1>5, <1>9
  <2> QED BY <1>7, <2>1, DataSpares DEF X
<1>11. B2 \in Seq(X)
  <2>1. <<>> \in Seq(X)
    OBVIOUS
  <2>2. Occupy(u, dir[u]) \in Seq(X)
    BY <1>4, <1>5, OccupySpares DEF X
  <2> QED BY <2>1, <2>2
<1> HIDE DEF B1, B2
<1>12. <<>> \o B1 \o B2 \in Seq(X)
  BY <1>10, <1>11, ConcatProperties, ConcatEmptySeq
<1> QED BY <1>3, <1>12 DEF X

\* A deletion spares the other files.
LEMMA DeleteSpares ==
  ASSUME TypeInv, FileInv, NEW u \in Slots, packDeleteFile(u),
         NEW n, NEW s, NEW p, NEW w, Held(n, s, p, w), n # dir[u].name
  PROVE  todo' \in Seq(Sparing(n, s, p, w))
<1> DEFINE S == disk["inode"]
           read == __osPfsReadInode(NoTable)
           freed == __osPfsReleasePages(read.inode, dir[u].start)
           B == IF Ends(read.inode, dir[u].start) THEN <<Write("dir", u, NoFile)>> ELSE <<>>
           X == Sparing(n, s, p, w)
<1>0. /\ Consistent(S, dir) /\ S \in Links
      /\ read.inode = S /\ read.ok /\ read.todo = <<>>
  BY ReadyFiles DEF packDeleteFile
<1>1. /\ dir[u] # NoFile
      /\ Start("delete", dir[u].name, 0, TRUE, read.todo \o __osPfsWriteInode(freed.inode) \o B)
  BY DEF packDeleteFile
<1> HIDE DEF read
<1>2. todo' = <<>> \o __osPfsWriteInode(freed.inode) \o B
  BY <1>0, <1>1 DEF Start
<1> DEFINE T == freed.inode
<1>3. \A e \in Entries : T[e] = IF e \in ToSet(Walk(S, dir[u].start)) THEN FREE ELSE S[e]
  BY <1>0 DEF __osPfsReleasePages
<1>4. T \in Links
  BY <1>0, ReleasedType
<1> DEFINE I == __osPfsWriteInode(T)
<1>5. todo' = <<>> \o I \o B
  BY <1>2
<1> HIDE DEF T, freed
<1>6. /\ Guards(S, p, w) /\ s \in Slots /\ dir[s] # NoFile /\ dir[s].start = p
      /\ u # s
  BY DEF Held, Copies
<1>7. \A x \in ToSet(w) : x \in Pages /\ x # FREE /\ x \notin FilePages(S, dir, u)
  <2>1. IsChain(S, p, w)
    BY <1>6, WholeIs DEF Guards
  <2>2. \A x \in ToSet(w) : x \in Pages /\ x # FREE
    BY <2>1, ChainPages, Numbers
  <2>3. ToSet(w) = FilePages(S, dir, s)
    BY <1>6 DEF Guards, FilePages
  <2>4. u \in Used(dir) /\ s \in Used(dir)
    BY <1>1, <1>6 DEF Used
  <2> HIDE DEF S
  <2>5. \A x : ~(x \in FilePages(S, dir, u) /\ x \in FilePages(S, dir, s))
    BY <1>0, <1>6, <2>4 DEF Consistent
  <2> QED BY <2>2, <2>3, <2>5
<1>8. Guards(T, p, w)
  <2>1. \A q \in Pages : T[q] = IF q \in FilePages(S, dir, u) THEN FREE ELSE S[q]
    BY <1>3, Numbers DEF FilePages
  <2> HIDE DEF S
  <2>2. \A x \in ToSet(w) : T[x] = S[x]
    BY <1>7, <2>1
  <2>3. \A q \in Pages : T[q] \in ToSet(w) => S[q] = T[q]
    BY <1>7, <2>1
  <2> QED BY <1>6, <2>2, <2>3, GuardsStay
<1> HIDE DEF S, X
<1>9. I \in Seq(X)
  BY <1>4, <1>8, TableSpares DEF X
<1>10. B \in Seq(X)
  <2>1. <<>> \in Seq(X)
    OBVIOUS
  <2>2. <<Write("dir", u, NoFile)>> \in Seq(X)
    BY <1>6, DirSpares DEF X
  <2> QED BY <2>1, <2>2
<1> HIDE DEF I, B
<1>11. <<>> \o I \o B \in Seq(X)
  BY <1>9, <1>10, ConcatProperties, ConcatEmptySeq
<1> QED BY <1>5, <1>11 DEF X

LEMMA NextSaved ==
  ASSUME TypeInv, TypeInv', FileInv, WriteInv, SavedInv, [Next]_vars, Dependable
  PROVE  WriteInv' /\ SavedInv'
<1> DEFINE Spared == \A n \in Names : \A s, p, w :
             Held(n, s, p, w) /\ saved'[n] # 0 => todo' \in Seq(Sparing(n, s, p, w))
<1>a. \A n \in Names : \A s, p, w :
        Held(n, s, p, w) => /\ Guards(disk["inode"], p, w) /\ Guards(disk["minode"], p, w)
                            /\ s \in Slots /\ dir[s].name = n
  BY DEF Held, Copies
<1>b. todo' = <<>> => Spared
  <2>1. \A X : <<>> \in Seq(X)
    OBVIOUS
  <2> QED BY <2>1
<1>1. CASE osPfsInit
  <2>1. /\ todo' = osPfsChecker(NoTable) /\ op'.kind = "init" /\ saved' = saved
        /\ UNCHANGED <<disk, dir, content>>
    BY <1>1 DEF osPfsInit, Start
  <2>2. Spared
    BY <2>1, CheckSpares
  <2>3. cache' \in Tables
    BY <1>1, ReadTables DEF osPfsInit
  <2>4. SavedInv'
    BY <2>1, <2>2, <2>3, BegunSaved
  <2> QED BY <2>1, <2>4 DEF WriteInv
<1>2. CASE packRepair
  <2>1. /\ todo' = osPfsChecker(cache) /\ op'.kind = "check" /\ saved' = saved
        /\ UNCHANGED <<disk, dir, content>> /\ cache \in Links \cup {NoTable} /\ Ready
    BY <1>2 DEF packRepair, Start, TypeInv
  <2>2. cache = NoTable \/ cache = disk["inode"]
    BY <2>1, ReadyFiles, CleanFiles
  <2>3. Spared
    BY <1>a, <2>1, <2>2, CheckSpares
  <2>4. cache' \in Tables
    BY <1>2, ReadTables DEF packRepair
  <2>5. SavedInv'
    BY <2>1, <2>3, <2>4, BegunSaved
  <2> QED BY <2>1, <2>5 DEF WriteInv
<1>3. CASE packFreeSpace
  <2>1. /\ todo' = __osPfsReadInode(cache).todo /\ saved' = saved /\ Ready
        /\ UNCHANGED <<disk, dir, content>> /\ op'.kind # "write"
    BY <1>3, NoOpOK DEF packFreeSpace, NoOp
  <2>2. todo' = <<>>
    BY <2>1, ReadyFiles, CleanFiles
  <2>3. cache' \in Tables
    BY <1>3, ReadTables DEF packFreeSpace
  <2>4. SavedInv'
    BY <1>b, <2>1, <2>2, <2>3, BegunSaved
  <2> QED BY <2>1, <2>4 DEF WriteInv
<1>4. CASE packFormat
  <2>1. /\ saved' = [n \in Names |-> 0] /\ op'.kind = "format"
        /\ UNCHANGED <<disk, dir, content>>
    BY <1>4 DEF packFormat, Start
  <2>2. SavedInv'
    BY <2>1 DEF SavedInv
  <2> QED BY <2>1, <2>2 DEF WriteInv
<1>5. ASSUME NEW m \in Names, NEW z \in Sizes, packWriteFile(m, z)
      PROVE  WriteInv' /\ SavedInv'
  <2>0. PICK read : read = __osPfsReadInode(NoTable)
    OBVIOUS
  <2>1. /\ WriteNew(m, z, read) \/ WriteOver(m, z, read)
        /\ cache' = CacheAfter(read) /\ UNCHANGED <<mounted, saved, clean>> /\ Ready
    BY <1>5, <2>0 DEF packWriteFile
  <2>2. WriteInv'
    BY <2>0, <2>1, NewFiles, OverFiles
  <2>3. Spared
    BY <2>0, <2>1, NewSpares, OverSpares
  <2>4. UNCHANGED <<disk, dir, content>>
    BY <2>1 DEF WriteNew, WriteOver, Start
  <2>5. cache' \in Tables
    BY <2>0, <2>1, ReadTables
  <2>6. SavedInv'
    BY <2>1, <2>3, <2>4, <2>5, BegunSaved
  <2> QED BY <2>2, <2>6
<1>6. ASSUME NEW u \in Slots, packDeleteFile(u) PROVE WriteInv' /\ SavedInv'
  <2>1. /\ saved' = [saved EXCEPT ![dir[u].name] = 0] /\ op'.kind = "delete"
        /\ UNCHANGED <<disk, dir, content>>
    BY <1>6 DEF packDeleteFile, Start
  <2>2. saved \in [Names -> Sizes \cup {0}]
    BY DEF TypeInv
  <2>3. /\ \A n \in Names : saved'[n] = saved[n] \/ saved'[n] = 0
        /\ \A n \in Names : saved'[n] # 0 => n # dir[u].name
    BY <2>1, <2>2
  <2>4. Spared
    BY <1>6, <2>3, DeleteSpares
  <2>5. cache' \in Tables
    BY <1>6, ReadTables DEF packDeleteFile
  <2>6. SavedInv'
    BY <2>1, <2>3, <2>4, <2>5, BegunSaved
  <2> QED BY <2>1, <2>6 DEF WriteInv
<1>7. CASE __osContRamWrite
  <2>1. /\ todo # <<>> /\ todo' = Tail(todo)
        /\ IF Tail(todo) = <<>> THEN Finish ELSE UNCHANGED <<op, mounted, saved, clean>>
    BY <1>7 DEF __osContRamWrite
  <2>2. Effect(Head(todo))
    BY <1>7, WrittenEffect
  <2>3. \A S : Heads(S, disk, todo, cache, op.kind) => Heads(S, disk', todo', cache', op'.kind)
    BY <1>7, WrittenHeads
  <2> QED BY <2>1, <2>2, <2>3, TailSaved
<1>8. CASE InodeWriteLost
  <2>1. /\ todo # <<>> /\ todo' = Tail(todo)
        /\ IF Tail(todo) = <<>> THEN Finish ELSE UNCHANGED <<op, mounted, saved, clean>>
    BY <1>8 DEF InodeWriteLost
  <2>2. Effect(Head(todo))
    BY <1>8, LostEffect
  <2>3. \A S : Heads(S, disk, todo, cache, op.kind) => Heads(S, disk', todo', cache', op'.kind)
    BY <1>8, LostHeads, DependableFirst
  <2> QED BY <2>1, <2>2, <2>3, TailSaved
<1>9. CASE WriteFails \/ PowerLoss
  <2>1. /\ todo' = <<>> /\ op' = NoOp /\ saved' = saved /\ UNCHANGED <<disk, dir, content>>
        /\ cache' \in Tables
    BY <1>9 DEF WriteFails, PowerLoss, Tables
  <2>2. SavedInv'
    BY <1>b, <2>1, BegunSaved
  <2> QED BY <2>1, <2>2, NoOpOK DEF WriteInv
<1>10. CASE UNCHANGED vars
  BY <1>10 DEF WriteInv, SavedInv, Fills, Held, Heads, vars
<1> QED BY <1>1, <1>2, <1>3, <1>4, <1>5, <1>6, <1>7, <1>8, <1>9, <1>10 DEF Next

LEMMA SavedHolds == Dependable => (Spec => [](TypeInv /\ FileInv /\ WriteInv /\ SavedInv))
<1> SUFFICES ASSUME Dependable
             PROVE  Spec => [](TypeInv /\ FileInv /\ WriteInv /\ SavedInv)
  OBVIOUS
<1>1. Init => TypeInv /\ FileInv /\ WriteInv /\ SavedInv
  <2>1. Init => WriteInv /\ SavedInv
    BY NoOpOK DEF Init, WriteInv, SavedInv
  <2> QED BY <2>1, InitType, InitFiles
<1>2. TypeInv /\ FileInv /\ WriteInv /\ SavedInv /\ [Next]_vars
        => (TypeInv /\ FileInv /\ WriteInv /\ SavedInv)'
  BY NextType, NextFiles, NextSaved
<1> QED BY <1>1, <1>2, PTL DEF Spec

\* A table that guards every file held finds what was saved.
LEMMA HeldSaved ==
  ASSUME SavedInv, NEW t,
         \A n \in Names : \A s, p, w : Held(n, s, p, w) => Guards(t, p, w)
  PROVE  SavedIn(t)
<1> SUFFICES ASSUME NEW n \in Names, saved[n] # 0
             PROVE  \E s \in Kept(t) :
                      /\ dir[s].name = n
                      /\ saved[n] <= Len(Walk(t, dir[s].start))
                      /\ \A i \in 1..saved[n] : content[Walk(t, dir[s].start)[i]] = n
  BY DEF SavedIn
<1>1. PICK s, p, w : Held(n, s, p, w)
  BY DEF SavedInv
<1>2. /\ s \in Slots /\ dir[s] # NoFile /\ dir[s].name = n /\ dir[s].start = p
      /\ saved[n] <= Len(w) /\ \A i \in 1..saved[n] : content[w[i]] = n
  BY <1>1 DEF Held
<1>3. Guards(t, p, w)
  BY <1>1
<1>4. s \in Kept(t) /\ Walk(t, dir[s].start) = w
  BY <1>2, <1>3 DEF Guards, Kept, Broken
<1> QED BY <1>2, <1>4

\* A file whose saving was reported as done is found again, with its data in
\* every page saved, whenever power fails and whatever is saved, deleted or
\* repaired after it: in the half-written tables of every request its chain is
\* whole, and no page of it is given to another file.
THEOREM SavedFilesStay == Dependable => (Spec => []SavedStays)
<1>1. TypeInv /\ SavedInv => SavedStays
  <2> SUFFICES ASSUME SavedInv, NEW n \in Names, NEW s, NEW p, NEW w, Held(n, s, p, w)
               PROVE  Guards(Readable, p, w)
    BY HeldSaved DEF SavedStays
  <2> QED BY DEF Held, Copies, Readable, __osPfsReadInode
<1> QED BY <1>1, SavedHolds, PTL

\* contpfs.c:284 and 349: the cached table is a whole one; every file reported as
\* saved is whole in it, so that a repair that writes the next table from it
\* keeps them; and it is the one on the pak of a checked pak.
THEOREM CacheStaysTable == Dependable => (Spec => []CacheIsTable)
<1>1. TypeInv /\ SavedInv /\ cache # NoTable => SavedIn(cache)
  <2> SUFFICES ASSUME SavedInv, cache # NoTable,
                      NEW n \in Names, NEW s, NEW p, NEW w, Held(n, s, p, w)
               PROVE  Guards(cache, p, w)
    BY HeldSaved
  <2> QED BY DEF Held
<1>2. CacheWhole /\ CacheAgrees /\ TypeInv /\ SavedInv => CacheIsTable
  BY <1>1 DEF CacheWhole, CacheAgrees, CacheIsTable
<1> QED BY <1>2, SavedHolds, CacheNeverTorn, CheckedCacheAgrees, DependableFirst, PTL
=============================================================================
