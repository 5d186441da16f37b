---------------------------- MODULE ScreenProofs ----------------------------
(***************************************************************************)
(* Proofs about what is drawn.                                             *)
(*                                                                         *)
(* The strings of the dialogue windows (Dialogue): their types, and that   *)
(* each slot in use is in the list of one window, once, and each list ends *)
(* and descends.  The lists are never unrolled: what a walk passes is the  *)
(* least set of slots that holds its first and is closed under the links,  *)
(* and two such sets are compared by closing one under the links of the    *)
(* other.                                                                  *)
(*                                                                         *)
(* The animation of textures and lights (Cycles): a frame and a colour are *)
(* those due after what passed in all.  What passed is compared modulo a   *)
(* cycle; turning round at an end keeps the part of the cycle a frame      *)
(* stands for.                                                             *)
(***************************************************************************)
EXTENDS Dialogue, Cycles, FiniteSetTheorems, NaturalsInduction, WellFoundedInduction, TLAPS

DialogueSpec == DialogueInit /\ [][DialogueNext]_dialogueVars

-----------------------------------------------------------------------------
(* Walks and lists, of any links.                                          *)

\* What a walk from h along slots of P passes when the links are nx.
Passed(h, P, nx) ==
  {u \in P : \A T \in SUBSET P :
     (h \in P => h \in T) /\ (\A v \in T : nx[v] \in P => nx[v] \in T) => u \in T}

\* A list from h: it has one last slot unless it is empty, no two of its links
\* meet, none leads back to the first, and the numbers descend.
List(A, h, nx, num) ==
  /\ h # NoString => \E last \in A : {u \in A : nx[u] = NoString} = {last}
  /\ h \in A => {u \in A : nx[u] = h} = {}
  /\ \A s \in A \ {h} : \E u \in A : {v \in A : nx[v] = s} = {u}
  /\ \A s \in A : nx[s] # NoString => num[s] >= num[nx[s]]

\* A walk passes slots of P only, the first of them if it is one, and goes on
\* as long as the links lead to slots of P.
LEMMA WalkIsClosed ==
  ASSUME NEW P, NEW h, NEW nx
  PROVE  /\ Passed(h, P, nx) \subseteq P
         /\ h \in P => h \in Passed(h, P, nx)
         /\ \A u \in Passed(h, P, nx) : nx[u] \in P => nx[u] \in Passed(h, P, nx)
  BY DEF Passed

\* It passes no other.
LEMMA WalkIsLeast ==
  ASSUME NEW P, NEW h, NEW nx, NEW T, T \subseteq P, h \in P => h \in T,
         \A u \in T : nx[u] \in P => nx[u] \in T
  PROVE  Passed(h, P, nx) \subseteq T
  BY DEF Passed

\* A walk from nowhere passes nothing.
LEMMA WalkFromNowhere ==
  ASSUME NEW P, NEW h, NEW nx, h \notin P
  PROVE  Passed(h, P, nx) = {}
  <1> SUFFICES ASSUME NEW u \in Passed(h, P, nx) PROVE FALSE
    OBVIOUS
  <1> DEFINE T == {}
  <1>1. /\ T \in SUBSET P /\ (h \in P => h \in T)
        /\ \A v \in T : nx[v] \in P => nx[v] \in T
    OBVIOUS
  <1> HIDE DEF T
  <1>2. u \in T
    BY <1>1 DEF Passed
  <1> QED
    BY <1>2 DEF T

\* Links changed elsewhere do not change a walk.
LEMMA WalkStays ==
  ASSUME NEW P, NEW h, NEW nx, NEW my,
         \A u \in Passed(h, P, nx) : my[u] = nx[u]
  PROVE  Passed(h, P, my) = Passed(h, P, nx)
  <1> DEFINE A == Passed(h, P, nx)
             B == Passed(h, P, my)
  <1>1. B \subseteq A
    BY WalkIsClosed, WalkIsLeast
  <1>2. A \subseteq B
    <2>1. /\ B \subseteq P /\ (h \in P => h \in B)
          /\ \A u \in B : my[u] \in P => my[u] \in B
      BY WalkIsClosed
    <2>2. \A u \in B : nx[u] \in P => nx[u] \in B
      BY <1>1, <2>1
    <2> HIDE DEF A, B
    <2> QED
      BY <2>1, <2>2, WalkIsLeast DEF A
  <1> QED
    BY <1>1, <1>2

\* The walk of a longer list: a slot s put first, or after another slot.
LEMMA WalkGrows ==
  ASSUME NEW P, NEW h \in P \cup {NoString}, NoString \notin P,
         NEW nx \in [P -> P \cup {NoString}], NEW my \in [P -> P \cup {NoString}],
         NEW s \in P, s \notin Passed(h, P, nx), NEW k,
         \/ k = s /\ my[s] = h /\ \A u \in Passed(h, P, nx) : my[u] = nx[u]
         \/ /\ k = h
            /\ \E p \in Passed(h, P, nx) :
                 /\ my[p] = s /\ my[s] = nx[p]
                 /\ \A u \in Passed(h, P, nx) \ {p} : my[u] = nx[u]
  PROVE  Passed(k, P, my) = Passed(h, P, nx) \cup {s}
  <1> DEFINE A == Passed(h, P, nx)
             B == Passed(k, P, my)
  <1>1. /\ A \subseteq P /\ (h \in P => h \in A)
        /\ \A u \in A : nx[u] \in P => nx[u] \in A
    BY WalkIsClosed
  <1>2. /\ B \subseteq P /\ (k \in P => k \in B)
        /\ \A u \in B : my[u] \in P => my[u] \in B
    BY WalkIsClosed
  <1>3. /\ s \notin A
        /\ \/ k = s /\ my[s] = h /\ \A u \in A : my[u] = nx[u]
           \/ /\ k = h
              /\ \E p \in A : /\ my[p] = s /\ my[s] = nx[p]
                              /\ \A u \in A \ {p} : my[u] = nx[u]
    OBVIOUS
  <1>4. \A T : /\ T \subseteq P /\ (k \in P => k \in T)
               /\ \A u \in T : my[u] \in P => my[u] \in T
               => B \subseteq T
    BY WalkIsLeast
  <1>5. \A T : /\ T \subseteq P /\ (h \in P => h \in T)
               /\ \A u \in T : nx[u] \in P => nx[u] \in T
               => A \subseteq T
    BY WalkIsLeast
  <1> HIDE DEF A, B
  <1>6. B \subseteq A \cup {s}
    <2> DEFINE T == A \cup {s}
    <2>1. T \subseteq P /\ (k \in P => k \in T)
      BY <1>1, <1>3
    <2>2. \A u \in T : my[u] \in P => my[u] \in T
      BY <1>1, <1>3
    <2> HIDE DEF T
    <2>3. B \subseteq T
      BY <1>4, <2>1, <2>2
    <2> QED
      BY <2>3 DEF T
  <1>7. A \subseteq B
    <2> DEFINE T == A \cap B
    <2>1. T \subseteq P
      BY <1>1
    <2>2. h \in P => h \in T
      BY <1>1, <1>2, <1>3
    <2>3. \A u \in T : nx[u] \in P => nx[u] \in T
      <3> SUFFICES ASSUME NEW u \in T, nx[u] \in P PROVE nx[u] \in B
        BY <1>1
      <3>1. CASE my[u] = nx[u]
        BY <1>2, <3>1
      <3>2. CASE my[u] = s /\ my[s] = nx[u]
        BY <1>2, <3>2
      <3> QED
        BY <1>3, <3>1, <3>2
    <2> HIDE DEF T
    <2>4. A \subseteq T
      BY <1>5, <2>1, <2>2, <2>3
    <2> QED
      BY <2>4 DEF T
  <1>8. s \in B
    BY <1>1, <1>2, <1>3, <1>7
  <1>9. B = A \cup {s}
    BY <1>6, <1>7, <1>8
  <1> QED
    BY <1>9 DEF A, B

\* A slot put first makes a list of a list.
LEMMA ListGrowsFirst ==
  ASSUME NEW A, NoString \notin A, NEW h, h \in A \/ (h = NoString /\ A = {}),
         NEW nx, NEW my, NEW num, NEW mum, NEW s, s \notin A, s # NoString,
         \A u \in A : nx[u] \in A \cup {NoString} /\ my[u] = nx[u] /\ mum[u] = num[u],
         my[s] = h, h # NoString => mum[s] >= num[h],
         List(A, h, nx, num)
  PROVE  List(A \cup {s}, s, my, mum)
  <1> DEFINE B == A \cup {s}
  <1>1. \E last \in B : {u \in B : my[u] = NoString} = {last}
    <2>1. CASE h = NoString
      BY <2>1
    <2>2. CASE h \in A
      BY <2>2 DEF List
    <2> QED
      BY <2>1, <2>2
  <1>2. {u \in B : my[u] = s} = {}
    OBVIOUS
  <1>3. ASSUME NEW x \in A
        PROVE  \E u \in B : {v \in B : my[v] = x} = {u}
    <2>1. CASE x = h
      <3>1. {v \in B : my[v] = x} = {s}
        BY <2>1 DEF List
      <3> QED
        BY <3>1
    <2>2. CASE x # h
      <3>1. PICK u \in A : {v \in A : nx[v] = x} = {u}
        BY <2>2 DEF List
      <3>2. {v \in B : my[v] = x} = {u}
        BY <2>2, <3>1
      <3> QED
        BY <3>1, <3>2
    <2> QED
      BY <2>1, <2>2
  <1>4. \A x \in B : my[x] # NoString => mum[x] >= mum[my[x]]
    BY DEF List
  <1> QED
    BY <1>1, <1>2, <1>3, <1>4 DEF List

\* A slot put after another makes a list of a list.
LEMMA ListGrowsAfter ==
  ASSUME NEW A, NoString \notin A, NEW h \in A,
         NEW nx, NEW my, NEW num, NEW mum, NEW s, s \notin A, s # NoString, NEW p \in A,
         \A u \in A : nx[u] \in A \cup {NoString} /\ mum[u] = num[u],
         \A u \in A \ {p} : my[u] = nx[u],
         my[p] = s, my[s] = nx[p],
         mum[p] >= mum[s], nx[p] # NoString => mum[s] >= mum[nx[p]],
         List(A, h, nx, num)
  PROVE  List(A \cup {s}, h, my, mum)
  <1> DEFINE B == A \cup {s}
  <1>1. \E last \in B : {u \in B : my[u] = NoString} = {last}
    <2>1. PICK last \in A : {u \in A : nx[u] = NoString} = {last}
      BY DEF List
    <2>2. CASE nx[p] = NoString
      <3>1. p = last
        BY <2>1, <2>2
      <3>2. {u \in B : my[u] = NoString} = {s}
        BY <2>1, <2>2, <3>1
      <3> QED
        BY <3>2
    <2>3. CASE nx[p] # NoString
      <3>1. {u \in B : my[u] = NoString} = {last}
        BY <2>1, <2>3
      <3> QED
        BY <3>1
    <2> QED
      BY <2>2, <2>3
  <1>2. {u \in B : my[u] = h} = {}
    <2>1. \A u \in A : nx[u] # h
      BY DEF List
    <2> QED
      BY <2>1
  <1>3. ASSUME NEW x \in B \ {h}
        PROVE  \E u \in B : {v \in B : my[v] = x} = {u}
    <2>1. CASE x = s
      <3>1. {v \in B : my[v] = x} = {p}
        BY <2>1
      <3> QED
        BY <3>1
    <2>2. CASE x \in A
      <3>1. PICK u \in A : {v \in A : nx[v] = x} = {u}
        BY <2>2 DEF List
      <3>2. CASE nx[p] = x
        <4>1. u = p
          BY <3>1, <3>2
        <4>2. {v \in B : my[v] = x} = {s}
          BY <2>2, <3>1, <3>2, <4>1
        <4> QED
          BY <4>2
      <3>3. CASE nx[p] # x
        <4>1. {v \in B : my[v] = x} = {u}
          BY <2>2, <3>1, <3>3
        <4> QED
          BY <4>1
      <3> QED
        BY <3>2, <3>3
    <2> QED
      BY <2>1, <2>2
  <1>4. \A x \in B : my[x] # NoString => mum[x] >= mum[my[x]]
    <2>1. \A x \in A \ {p} : nx[x] # NoString => num[x] >= num[nx[x]]
      BY DEF List
    <2> QED
      BY <2>1
  <1> QED
    BY <1>1, <1>2, <1>3, <1>4 DEF List

\* B is the beginning of A, a list from h, as far as it leads along slots of Q.
Beginning(B, A, Q, h, nx) ==
  /\ B \subseteq A
  /\ B = {} => h \notin Q
  /\ B # {} => h \in Q /\ \E u \in B : nx[u] \notin B
  /\ \A u \in B : nx[u] \notin B => nx[u] \notin Q

\* The part of a list that a walk along some slots passes ends somewhere, and
\* what follows is none of them.
LEMMA WalkStops ==
  ASSUME NEW P, NEW Q, Q \subseteq P, NoString \notin P, NEW h, NEW nx, NEW num,
         List(Passed(h, P, nx), h, nx, num),
         \A u \in P : nx[u] \in P \cup {NoString}
  PROVE  Beginning(Passed(h, Q, nx), Passed(h, P, nx), Q, h, nx)
  <1> DEFINE A == Passed(h, P, nx)
             B == Passed(h, Q, nx)
  <1>1. /\ A \subseteq P /\ (h \in P => h \in A)
        /\ \A u \in A : nx[u] \in P => nx[u] \in A
    BY WalkIsClosed
  <1>2. /\ B \subseteq Q /\ (h \in Q => h \in B)
        /\ \A u \in B : nx[u] \in Q => nx[u] \in B
    BY WalkIsClosed
  <1>3. \A T : /\ T \subseteq P /\ (h \in P => h \in T)
               /\ \A u \in T : nx[u] \in P => nx[u] \in T
               => A \subseteq T
    BY WalkIsLeast
  <1>4. \A T : /\ T \subseteq Q /\ (h \in Q => h \in T)
               /\ \A u \in T : nx[u] \in Q => nx[u] \in T
               => B \subseteq T
    BY WalkIsLeast
  <1>5. h \notin Q => B = {}
    BY WalkFromNowhere
  <1> HIDE DEF A, B
  <1>6. B \subseteq A
    <2> DEFINE T == A \cap Q
    <2>1. T \subseteq Q /\ (h \in Q => h \in T)
      BY <1>1
    <2>2. \A u \in T : nx[u] \in Q => nx[u] \in T
      BY <1>1
    <2> HIDE DEF T
    <2>3. B \subseteq T
      BY <1>4, <2>1, <2>2
    <2> QED
      BY <2>3 DEF T
  <1>7. ASSUME B # {}
        PROVE  \E u \in B : nx[u] \notin B
    <2> SUFFICES ASSUME \A u \in B : nx[u] \in B PROVE FALSE
      OBVIOUS
    <2>1. h \in B
      BY <1>2, <1>5, <1>7
    <2>2. A \subseteq B
      BY <1>2, <1>3, <2>1
    <2>3. h \in P /\ h # NoString
      BY <1>2, <2>1
    <2>4. PICK last \in A : nx[last] = NoString
      BY <2>3 DEF List, A
    <2>5. NoString \in B
      BY <2>2, <2>4
    <2> QED
      BY <1>2, <2>5
  <1>8. Beginning(B, A, Q, h, nx)
    BY <1>2, <1>5, <1>6, <1>7 DEF Beginning
  <1> QED
    BY <1>8 DEF A, B

-----------------------------------------------------------------------------
(* The invariant.                                                          *)

\* Every slot in use is shown by one window, and a free one by none.
Owned ==
  /\ \A s \in Strings \ FreeStrings : \E w \in Windows : s \in Shown(w)
  /\ \A w \in Windows : Shown(w) \cap FreeStrings = {}
  /\ \A w, v \in Windows : w # v => Shown(w) \cap Shown(v) = {}

IInv ==
  /\ DialogueTypeOK
  /\ Owned
  /\ \A w \in Windows : List(Shown(w), textBox[w], nextBox, number)

\* What a window shows, before and after a step.
LEMMA ShownIsPassed ==
  /\ \A w : Shown(w) = Passed(textBox[w], Strings, nextBox)
  /\ \A w : Shown(w)' = Passed(textBox'[w], Strings, nextBox')
  /\ \A w, P : Along(textBox[w], P) = Passed(textBox[w], P, nextBox)
  BY DEF Shown, Along, Passed

\* A number that is not that of a free slot, and slot 0 is none.
LEMMA Slots ==
  /\ NoString \notin Strings
  /\ Strings \subseteq Nat
  /\ \A m \in Numbers : m \in Nat /\ m < DIALOGUE_NUM_NULL
  BY DialogueAssumption DEF DialogueAssumption, Strings, NoString, DIALOGUE_NUM_NULL

\* At the start no slot is in use.
LEMMA InitIInv == DialogueInit => IInv
  <1> SUFFICES ASSUME DialogueInit PROVE IInv
    OBVIOUS
  <1>1. DialogueTypeOK
    BY DEF DialogueInit, DialogueTypeOK, DIALOGUE_NUM_NULL
  <1>2. \A w \in Windows : textBox[w] = NoString /\ Shown(w) = {}
    BY ShownIsPassed, WalkFromNowhere, Slots DEF DialogueInit
  <1>3. FreeStrings = Strings
    BY DEF DialogueInit, FreeStrings
  <1>4. Owned
    BY <1>2, <1>3 DEF Owned
  <1>5. \A w \in Windows : List(Shown(w), textBox[w], nextBox, number)
    BY <1>2 DEF List
  <1> QED
    BY <1>1, <1>4, <1>5 DEF IInv

-----------------------------------------------------------------------------
(* The steps.                                                              *)

\* There is a first free slot, if there is one.
LEMMA FirstFree ==
  ASSUME FreeStrings # {}
  PROVE  (CHOOSE s \in FreeStrings : \A u \in FreeStrings : s <= u) \in FreeStrings
  <1> DEFINE Less == {ij \in Nat \X Nat : ij[1] < ij[2]}
  <1>1. FreeStrings \subseteq Nat
    BY Slots DEF FreeStrings
  <1>2. Less = OpToRel(<, Nat)
    BY Zenon DEF OpToRel
  <1>3. PICK s \in FreeStrings : \A u \in FreeStrings : ~(<<u, s>> \in Less)
    BY <1>1, <1>2, NatLessThanWellFounded, WFMin, Zenon
  <1>4. ASSUME NEW u \in FreeStrings PROVE s <= u
    <2>1. <<u, s>> \in Nat \X Nat => ~(<<u, s>>[1] < <<u, s>>[2])
      BY <1>3
    <2> QED
      BY <1>1, <2>1
  <1> HIDE DEF Less
  <1> QED
    BY <1>4

\* A new string takes a free slot, which is put into the list of its window;
\* no link of another slot in use changes.
LEMMA AddPutsOne ==
  ASSUME IInv, NEW w \in Windows, NEW m \in Numbers, fontWindowAddStringXY(w, m)
  PROVE  \E s \in FreeStrings :
           /\ number' = [number EXCEPT ![s] = m]
           /\ nextBox' \in [Strings -> Strings \cup {NoString}]
           /\ textBox' \in [Windows -> Strings \cup {NoString}]
           /\ \A v \in Windows \ {w} : textBox'[v] = textBox[v]
           /\ \A u \in Strings \ (Shown(w) \cup {s}) : nextBox'[u] = nextBox[u]
           /\ Shown(w)' = Shown(w) \cup {s}
           /\ List(Shown(w)', textBox'[w], nextBox', number')
  <1> DEFINE s      == CHOOSE s \in FreeStrings : \A u \in FreeStrings : s <= u
             Q      == {u \in Strings : number[u] > m}
             A      == Shown(w)
             h      == textBox[w]
             before == Along(h, Q)
             prev   == CHOOSE u \in before : nextBox[u] \notin before
             rest   == IF before = {} THEN h ELSE nextBox[prev]
  <1>1. s \in FreeStrings
    BY FirstFree DEF fontWindowAddStringXY
  <1>2. /\ textBox' = IF before = {} THEN [textBox EXCEPT ![w] = s] ELSE textBox
        /\ nextBox' = [u \in Strings |-> IF u = s THEN rest
                                         ELSE IF u \in before /\ u = prev THEN s ELSE nextBox[u]]
        /\ number' = [number EXCEPT ![s] = m]
    BY DEF fontWindowAddStringXY
  <1>3. /\ A = Passed(h, Strings, nextBox) /\ before = Passed(h, Q, nextBox)
        /\ A' = Passed(textBox'[w], Strings, nextBox')
    BY ShownIsPassed
  <1>4. /\ number \in [Strings -> 0..DIALOGUE_NUM_NULL]
        /\ nextBox \in [Strings -> Strings \cup {NoString}]
        /\ textBox \in [Windows -> Strings \cup {NoString}]
        /\ List(A, h, nextBox, number) /\ A \cap FreeStrings = {}
    BY DEF IInv, DialogueTypeOK, Owned
  <1>5. /\ s \in Strings /\ s \notin A /\ s # NoString /\ NoString \notin Strings
    BY <1>1, <1>4, Slots DEF FreeStrings
  <1>6. /\ A \subseteq Strings /\ (h \in Strings => h \in A) /\ (h \notin Strings => A = {})
        /\ \A u \in A : nextBox[u] \in A \cup {NoString}
    BY <1>3, <1>4, WalkIsClosed, WalkFromNowhere
  <1>7. /\ before \subseteq A
        /\ before = {} => h \notin Q
        /\ before # {} => h \in Q /\ \E u \in before : nextBox[u] \notin before
        /\ \A u \in before : nextBox[u] \notin before => nextBox[u] \notin Q
    <2>1. Q \subseteq Strings /\ \A u \in Strings : nextBox[u] \in Strings \cup {NoString}
      BY <1>4
    <2>2. List(Passed(h, Strings, nextBox), h, nextBox, number)
      BY <1>3, <1>4
    <2>3. Beginning(Passed(h, Q, nextBox), Passed(h, Strings, nextBox), Q, h, nextBox)
      <3> HIDE DEF Q, A, h, before
      <3> QED
        BY <1>5, <2>1, <2>2, WalkStops
    <2> HIDE DEF Q, A, h, before
    <2> QED
      BY <1>3, <2>3 DEF Beginning
  <1>8. before \subseteq Q
    BY <1>3, WalkIsClosed
  <1>9. m \in Nat /\ m < DIALOGUE_NUM_NULL
    BY Slots
  <1> HIDE DEF s, Q, before, A, h
  <1>10. CASE before = {}
    <2>1. /\ textBox' = [textBox EXCEPT ![w] = s] /\ textBox'[w] = s
          /\ nextBox' = [u \in Strings |-> IF u = s THEN h ELSE nextBox[u]]
      BY <1>2, <1>4, <1>10
    <2>2. /\ nextBox' \in [Strings -> Strings \cup {NoString}]
          /\ textBox' \in [Windows -> Strings \cup {NoString}]
          /\ h \in Strings \cup {NoString}
      BY <1>4, <1>5, <2>1 DEF h
    <2>3. A' = A \cup {s}
      <3>1. nextBox'[s] = h /\ \A u \in A : nextBox'[u] = nextBox[u]
        BY <1>5, <1>6, <2>1
      <3> QED
        BY <1>3, <1>4, <1>5, <2>1, <2>2, <3>1, WalkGrows
    <2>4. List(A', textBox'[w], nextBox', number')
      <3>1. /\ nextBox'[s] = h
            /\ \A u \in A : /\ nextBox[u] \in A \cup {NoString}
                            /\ nextBox'[u] = nextBox[u] /\ number'[u] = number[u]
        BY <1>2, <1>4, <1>5, <1>6, <2>1
      <3>2. number'[s] = m
        BY <1>2, <1>4, <1>5
      <3>3. h # NoString => number'[s] >= number[h]
        BY <1>4, <1>7, <1>9, <1>10, <2>2, <3>2 DEF Q, DIALOGUE_NUM_NULL
      <3>4. NoString \notin A /\ (h \in A \/ (h = NoString /\ A = {}))
        BY <1>5, <1>6, <2>2
      <3>5. List(A \cup {s}, s, nextBox', number')
        BY <1>4, <1>5, <3>1, <3>3, <3>4, ListGrowsFirst
      <3> QED
        BY <2>1, <2>3, <3>5
    <2>5. \A u \in Strings \ (A \cup {s}) : nextBox'[u] = nextBox[u]
      BY <2>1
    <2>6. \A v \in Windows \ {w} : textBox'[v] = textBox[v]
      BY <1>4, <2>1
    <2> QED
      BY <1>1, <1>2, <2>2, <2>3, <2>4, <2>5, <2>6 DEF A
  <1>11. CASE before # {}
    <2>1. prev \in before /\ nextBox[prev] \notin before
      BY <1>7, <1>11
    <2> HIDE DEF prev
    <2>2. /\ textBox' = textBox
          /\ nextBox' = [u \in Strings |-> IF u = s THEN nextBox[prev]
                                           ELSE IF u = prev THEN s ELSE nextBox[u]]
      BY <1>2, <1>11, <2>1
    <2>3. prev \in A /\ prev \in Strings /\ prev # s /\ nextBox[prev] \notin Q
          /\ h \in Strings /\ h \in A
      BY <1>5, <1>6, <1>7, <1>11, <2>1 DEF Q
    <2>4. /\ nextBox' \in [Strings -> Strings \cup {NoString}]
          /\ textBox' \in [Windows -> Strings \cup {NoString}]
      BY <1>4, <1>5, <2>2, <2>3
    <2>5. /\ nextBox'[prev] = s /\ nextBox'[s] = nextBox[prev]
          /\ \A u \in A \ {prev} : nextBox'[u] = nextBox[u]
      BY <1>5, <1>6, <2>2, <2>3
    <2>6. A' = A \cup {s}
      <3>1. textBox'[w] = h /\ h \in Strings \cup {NoString}
        BY <2>2, <2>3 DEF h
      <3>2. \E p \in A : /\ nextBox'[p] = s /\ nextBox'[s] = nextBox[p]
                        /\ \A u \in A \ {p} : nextBox'[u] = nextBox[u]
        BY <2>3, <2>5
      <3>3. Passed(h, Strings, nextBox') = Passed(h, Strings, nextBox) \cup {s}
        BY <1>3, <1>4, <1>5, <2>4, <3>1, <3>2, WalkGrows
      <3> QED
        BY <1>3, <3>1, <3>3
    <2>7. List(A', textBox'[w], nextBox', number')
      <3>1. \A u \in A : nextBox[u] \in A \cup {NoString} /\ number'[u] = number[u]
        BY <1>2, <1>4, <1>5, <1>6
      <3>2. number'[s] = m
        BY <1>2, <1>4, <1>5
      <3>3. number'[prev] >= number'[s]
        BY <1>4, <1>8, <1>9, <2>1, <2>3, <3>1, <3>2 DEF Q, DIALOGUE_NUM_NULL
      <3>4. nextBox[prev] # NoString => number'[s] >= number'[nextBox[prev]]
        BY <1>4, <1>6, <1>9, <2>3, <3>1, <3>2 DEF Q, DIALOGUE_NUM_NULL
      <3>5. NoString \notin A
        BY <1>5, <1>6
      <3>6. List(A \cup {s}, h, nextBox', number')
        <4>1. nextBox[prev] # NoString => number'[s] >= number'[nextBox[prev]]
          BY <3>4
        <4>2. List(A, h, nextBox, number)
          BY <1>4
        <4>3. \A u \in A : nextBox[u] \in A \cup {NoString} /\ number'[u] = number[u]
          BY <3>1
        <4>4. /\ NoString \notin A /\ h \in A /\ s \notin A /\ s # NoString /\ prev \in A
              /\ nextBox'[prev] = s /\ nextBox'[s] = nextBox[prev]
          BY <1>5, <2>3, <2>5, <3>5
        <4>5. \A u \in A \ {prev} : nextBox'[u] = nextBox[u]
          BY <2>5
        <4> QED
          BY <3>3, <4>1, <4>2, <4>3, <4>4, <4>5, ListGrowsAfter
      <3> QED
        BY <2>2, <2>6, <3>6 DEF h
    <2>8. \A u \in Strings \ (A \cup {s}) : nextBox'[u] = nextBox[u]
      BY <2>2, <2>3
    <2> QED
      BY <1>1, <1>2, <2>2, <2>4, <2>6, <2>7, <2>8 DEF A
  <1> QED
    BY <1>10, <1>11

\* A string is added.
LEMMA AddKeepsIInv ==
  ASSUME IInv, NEW w \in Windows, NEW m \in Numbers, fontWindowAddStringXY(w, m)
  PROVE  IInv'
  <1>1. PICK s \in FreeStrings :
          /\ number' = [number EXCEPT ![s] = m]
          /\ nextBox' \in [Strings -> Strings \cup {NoString}]
          /\ textBox' \in [Windows -> Strings \cup {NoString}]
          /\ \A v \in Windows \ {w} : textBox'[v] = textBox[v]
          /\ \A u \in Strings \ (Shown(w) \cup {s}) : nextBox'[u] = nextBox[u]
          /\ Shown(w)' = Shown(w) \cup {s}
          /\ List(Shown(w)', textBox'[w], nextBox', number')
    BY AddPutsOne
  <1>2. /\ number \in [Strings -> 0..DIALOGUE_NUM_NULL] /\ s \in Strings
        /\ m \in Nat /\ m < DIALOGUE_NUM_NULL
    BY Slots DEF IInv, DialogueTypeOK, FreeStrings
  <1>3. DialogueTypeOK'
    <2>1. m \in 0..DIALOGUE_NUM_NULL
      BY <1>2 DEF DIALOGUE_NUM_NULL
    <2> QED
      BY <1>1, <1>2, <2>1 DEF DialogueTypeOK
  <1>4. FreeStrings' = FreeStrings \ {s}
    BY <1>1, <1>2 DEF FreeStrings, DIALOGUE_NUM_NULL
  <1>5. ASSUME NEW v \in Windows \ {w}
        PROVE  /\ Shown(v)' = Shown(v)
               /\ List(Shown(v)', textBox'[v], nextBox', number')
    <2>1. /\ Shown(v) \subseteq Strings /\ Shown(v) \cap Shown(w) = {} /\ s \notin Shown(v)
          /\ \A u \in Shown(v) : nextBox[u] \in Strings => nextBox[u] \in Shown(v)
      BY ShownIsPassed, WalkIsClosed DEF IInv, Owned
    <2>2. \A u \in Shown(v) : nextBox'[u] = nextBox[u] /\ number'[u] = number[u]
      BY <1>1, <1>2, <2>1
    <2>3. textBox'[v] = textBox[v]
      BY <1>1
    <2>4. Shown(v)' = Shown(v)
      BY <2>2, <2>3, ShownIsPassed, WalkStays
    <2>5. \A u \in Shown(v) : nextBox[u] \in Shown(v) \cup {NoString}
      BY <2>1 DEF IInv, DialogueTypeOK
    <2>6. List(Shown(v), textBox[v], nextBox, number)
      BY DEF IInv
    <2> QED
      BY <2>2, <2>3, <2>4, <2>5, <2>6 DEF List
  <1>6. Owned'
    <2>1. \A v \in Windows : Shown(v)' = IF v = w THEN Shown(w) \cup {s} ELSE Shown(v)
      BY <1>1, <1>5
    <2> QED
      BY <1>2, <1>4, <2>1 DEF IInv, Owned
  <1> QED
    BY <1>1, <1>3, <1>5, <1>6 DEF IInv

\* The strings of a window are given back.
LEMMA FlushKeepsIInv ==
  ASSUME IInv, NEW w \in Windows, fontWindowFlushStrings(w)
  PROVE  IInv'
  <1>1. /\ number' = [s \in Strings |-> IF s \in Shown(w) THEN DIALOGUE_NUM_NULL ELSE number[s]]
        /\ textBox' = [textBox EXCEPT ![w] = NoString]
        /\ nextBox' = nextBox
    BY DEF fontWindowFlushStrings
  <1>2. /\ number \in [Strings -> 0..DIALOGUE_NUM_NULL]
        /\ nextBox \in [Strings -> Strings \cup {NoString}]
        /\ textBox \in [Windows -> Strings \cup {NoString}]
    BY DEF IInv, DialogueTypeOK
  <1>3. DialogueTypeOK'
    BY <1>1, <1>2 DEF DialogueTypeOK, DIALOGUE_NUM_NULL
  <1>4. \A v \in Windows : Shown(v) \subseteq Strings
    BY ShownIsPassed, WalkIsClosed
  <1>5. FreeStrings' = FreeStrings \cup Shown(w)
    BY <1>1, <1>2, <1>4 DEF FreeStrings
  <1>6. Shown(w)' = {} /\ textBox'[w] = NoString
    <2>1. textBox'[w] = NoString
      BY <1>1, <1>2
    <2> QED
      BY <2>1, ShownIsPassed, WalkFromNowhere, Slots
  <1>7. ASSUME NEW v \in Windows \ {w}
        PROVE  /\ Shown(v)' = Shown(v)
               /\ List(Shown(v)', textBox'[v], nextBox', number')
    <2>1. textBox'[v] = textBox[v]
      BY <1>1, <1>2
    <2>2. Shown(v)' = Shown(v)
      BY <1>1, <2>1, ShownIsPassed
    <2>3. /\ Shown(v) \cap Shown(w) = {}
          /\ \A u \in Shown(v) : nextBox[u] \in Strings => nextBox[u] \in Shown(v)
      BY ShownIsPassed, WalkIsClosed DEF IInv, Owned
    <2>4. \A u \in Shown(v) : nextBox[u] \in Shown(v) \cup {NoString} /\ number'[u] = number[u]
      BY <1>1, <1>2, <1>4, <2>3
    <2>5. List(Shown(v), textBox[v], nextBox, number)
      BY DEF IInv
    <2> QED
      BY <1>1, <2>1, <2>2, <2>4, <2>5 DEF List
  <1>8. Owned'
    <2>1. \A v \in Windows : Shown(v)' = IF v = w THEN {} ELSE Shown(v)
      BY <1>6, <1>7
    <2> QED
      BY <1>5, <2>1 DEF IInv, Owned
  <1>9. List(Shown(w)', textBox'[w], nextBox', number')
    BY <1>6 DEF List
  <1> QED
    BY <1>3, <1>7, <1>8, <1>9 DEF IInv

\* Every step keeps the invariant.
LEMMA NextIInv == IInv /\ [DialogueNext]_dialogueVars => IInv'
  <1> SUFFICES ASSUME IInv, [DialogueNext]_dialogueVars PROVE IInv'
    OBVIOUS
  <1>1. CASE UNCHANGED dialogueVars
    BY <1>1 DEF dialogueVars, IInv, DialogueTypeOK, Owned, FreeStrings, Shown, Along
  <1> QED
    BY <1>1, AddKeepsIInv, FlushKeepsIInv DEF DialogueNext

-----------------------------------------------------------------------------
\* font.c:391: the slots' numbers and links, and the windows' first slots, keep
\* their ranges.
THEOREM DialogueTypes == DialogueSpec => []DialogueTypeOK
  <1>1. IInv => DialogueTypeOK
    BY DEF IInv
  <1> QED
    BY InitIInv, NextIInv, <1>1, PTL DEF DialogueSpec

\* The invariant says what the property counts.
LEMMA IInvCounts == IInv => StringsApart
  <1> SUFFICES ASSUME IInv PROVE StringsApart
    OBVIOUS
  <1>1. Cardinality({}) = 0 /\ \A x : Cardinality({x}) = 1
    BY FS_EmptySet, FS_Singleton
  <1>2. ASSUME NEW s \in Strings
        PROVE  Cardinality({w \in Windows : s \in Shown(w)}) = (IF s \in FreeStrings THEN 0 ELSE 1)
    <2>1. CASE s \in FreeStrings
      <3>1. {w \in Windows : s \in Shown(w)} = {}
        BY <2>1 DEF IInv, Owned
      <3> QED
        BY <1>1, <2>1, <3>1
    <2>2. CASE s \notin FreeStrings
      <3>1. PICK w \in Windows : s \in Shown(w)
        BY <2>2 DEF IInv, Owned
      <3>2. {v \in Windows : s \in Shown(v)} = {w}
        BY <3>1 DEF IInv, Owned
      <3> QED
        BY <1>1, <2>2, <3>2
    <2> QED
      BY <2>1, <2>2
  <1>3. ASSUME NEW w \in Windows
        PROVE  /\ \A s \in Shown(w) : nextBox[s] # NoString => number[s] >= number[nextBox[s]]
               /\ textBox[w] # NoString =>
                    Cardinality({s \in Shown(w) : nextBox[s] = NoString}) = 1
               /\ \A s \in Shown(w) :
                    Cardinality({u \in Shown(w) : nextBox[u] = s})
                      = (IF s = textBox[w] THEN 0 ELSE 1)
    <2>1. List(Shown(w), textBox[w], nextBox, number)
      BY DEF IInv
    <2>2. ASSUME textBox[w] # NoString
          PROVE  Cardinality({s \in Shown(w) : nextBox[s] = NoString}) = 1
      BY <1>1, <2>1, <2>2 DEF List
    <2>3. ASSUME NEW s \in Shown(w)
          PROVE  Cardinality({u \in Shown(w) : nextBox[u] = s})
                   = (IF s = textBox[w] THEN 0 ELSE 1)
      <3>1. CASE s = textBox[w]
        <4>1. {u \in Shown(w) : nextBox[u] = s} = {}
          BY <2>1, <2>3, <3>1 DEF List
        <4> QED
          BY <1>1, <3>1, <4>1
      <3>2. CASE s # textBox[w]
        <4>1. PICK u \in Shown(w) : {v \in Shown(w) : nextBox[v] = s} = {u}
          BY <2>1, <2>3, <3>2 DEF List
        <4> QED
          BY <1>1, <3>2, <4>1
      <3> QED
        BY <3>1, <3>2
    <2> QED
      BY <2>1, <2>2, <2>3 DEF List
  <1> QED
    BY <1>2, <1>3 DEF StringsApart

\* font.c:391 and 465: whatever is added and flushed in whatever order, for any
\* number of windows and slots, a slot in use is in the list of one window, once,
\* a free one in none, and each list ends and descends.
THEOREM StringsStayApart == DialogueSpec => []StringsApart
  <1> QED
    BY InitIInv, NextIInv, IInvCounts, PTL DEF DialogueSpec

-----------------------------------------------------------------------------
(* Animated textures and lights.                                           *)

CyclesSpec == CyclesInit /\ [][CyclesNext]_cyclesVars

\* What a texture that goes to and fro has shown of a cycle.
Phase(at, back) == IF back THEN Turn(at) ELSE at

TextureInv ==
  /\ texture \in [way : {"loop", "bounce", "blink"}, n : 1..MaxFrames]
  /\ frame \in 0..(n - 1) /\ shown \in Nat /\ blinkMode \in 0..3
  /\ running \in BOOLEAN /\ backwards \in BOOLEAN
  /\ texture.way = "loop" =>
       frame = (IF backwards THEN n - shown ELSE shown) % n /\ shown \in 0..(n - 1)
  /\ texture.way = "bounce" => Phase(frame, backwards) % (2 * n - 1) = shown
  /\ texture.way = "blink" => IF running THEN Phase(frame, backwards) = shown ELSE frame = 0

Lights == UNION {[0..(m - 1) -> 0..MaxTime] : m \in 2..MaxFrames}

LightInv ==
  /\ times \in Lights /\ totalTime > 0
  /\ currentFrame \in DOMAIN times /\ time \in Nat /\ shone \in Nat
  /\ time < times[currentFrame] \/ (shone = 0 /\ time = 0)
  /\ Elapsed[currentFrame] + time = shone

-----------------------------------------------------------------------------
\* A set of numbers that has 0 and all successors has every number.
LEMMA Upward ==
  ASSUME NEW I \in SUBSET Nat, 0 \in I, \A i \in I : i + 1 \in I
  PROVE  I = Nat
<1> DEFINE Less == {ij \in Nat \X Nat : ij[1] < ij[2]}
           J == Nat \ I
<1>1. Less = OpToRel(<, Nat)
  BY Zenon DEF OpToRel
<1>2. SUFFICES ASSUME J # {} PROVE FALSE
  OBVIOUS
<1>3. PICK i \in J : \A j \in J : ~(<<j, i>> \in Less)
  BY <1>1, <1>2, NatLessThanWellFounded, WFMin, Zenon
<1>4. i \in Nat /\ i # 0 /\ i - 1 \in Nat /\ i - 1 \notin I
  BY <1>3
<1>5. <<i - 1, i>> \in Less
  BY <1>4
<1> QED BY <1>3, <1>4, <1>5

\* A remainder is one, and the only one.
LEMMA Remainders ==
  ASSUME NEW a \in Int, NEW p \in Nat \ {0}
  PROVE  /\ a % p \in 0..(p - 1)
         /\ \E q \in Int : a = q * p + (a % p)
         /\ \A q \in Int, r \in 0..(p - 1) : a = q * p + r => a % p = r
<1>1. a % p \in 0..(p - 1) /\ a = (a \div p) * p + (a % p) /\ a \div p \in Int
  OBVIOUS
<1>2. ASSUME NEW q \in Int, NEW r \in 0..(p - 1), a = q * p + r
      PROVE  a % p = r
  <2> DEFINE d == a \div p
             s == a % p
  <2>1. d \in Int /\ s \in 0..(p - 1) /\ d * p + s = q * p + r
    BY <1>1, <1>2
  <2> HIDE DEF d, s
  <2>2. (d - q) * p = r - s
    <3>1. d * p \in Int /\ q * p \in Int /\ (d - q) * p = d * p - q * p
      BY <2>1
    <3> QED BY <3>1, <2>1
  <2>3. r - s < p /\ r - s > -p
    BY <2>1
  <2> DEFINE e == d - q
  <2>4. e \in Int
    BY <2>1
  <2>5. e * p < p /\ e * p > -p
    BY <2>2, <2>3
  <2> HIDE DEF e
  <2>6. e >= 1 => e * p >= p
    BY <2>4
  <2>7. e <= -1 => e * p <= -p
    BY <2>4
  <2>8. e = 0
    BY <2>4, <2>5, <2>6, <2>7
  <2>9. d = q
    BY <2>1, <2>8 DEF e
  <2>10. r = s
    BY <2>1, <2>9
  <2> QED BY <2>10 DEF s
<1> QED BY <1>1, <1>2

\* Numbers that differ by whole cycles have the same remainder.
Cycled(a, b, p) == \E k \in Int : a = b + k * p

LEMMA SameRemainder ==
  ASSUME NEW a \in Int, NEW b \in Int, NEW p \in Nat \ {0}, Cycled(a, b, p)
  PROVE  a % p = b % p
<1>0. PICK k \in Int : a = b + k * p
  BY DEF Cycled
<1>1. PICK q \in Int : b = q * p + (b % p)
  BY Remainders
<1>2. b % p \in 0..(p - 1)
  BY Remainders
<1> DEFINE r == b % p
<1>3. a = (q + k) * p + r /\ q + k \in Int
  <2> HIDE DEF r
  <2>1. b = q * p + r /\ r \in Int
    BY <1>1, <1>2 DEF r
  <2>2. q * p \in Int /\ k * p \in Int /\ (q + k) * p = q * p + k * p
    OBVIOUS
  <2> QED BY <1>0, <2>1, <2>2
<1> HIDE DEF r
<1>4. r \in 0..(p - 1)
  BY <1>2 DEF r
<1>5. \A c \in Int, s \in 0..(p - 1) : a = c * p + s => a % p = s
  BY Remainders
<1>6. a % p = r
  BY <1>3, <1>4, <1>5
<1> QED BY <1>6 DEF r

\* To add to a remainder is to add to the number.
LEMMA AddToRemainder ==
  ASSUME NEW a \in Int, NEW b \in Int, NEW p \in Nat \ {0}
  PROVE  ((a % p) + b) % p = (a + b) % p
<1>1. PICK q \in Int : a = q * p + (a % p)
  BY Remainders
<1> DEFINE r == a % p
<1>2. r \in Int
  BY Remainders
<1>3. a + b = (r + b) + q * p
  <2> HIDE DEF r
  <2>1. a = q * p + r /\ q * p \in Int
    BY <1>1 DEF r
  <2> QED BY <2>1, <1>2
<1> HIDE DEF r
<1>4. Cycled(a + b, r + b, p)
  BY <1>3 DEF Cycled
<1>5. a + b \in Int /\ r + b \in Int
  BY <1>2
<1>6. (a + b) % p = (r + b) % p
  BY <1>4, <1>5, SameRemainder
<1> QED BY <1>6 DEF r

LEMMA SmallRemainder ==
  ASSUME NEW p \in Nat \ {0}, NEW r \in 0..(p - 1)
  PROVE  r % p = r /\ (r + p) % p = r
<1>1. r = 0 * p + r /\ r + p = 1 * p + r
  OBVIOUS
<1> QED BY <1>1, Remainders

-----------------------------------------------------------------------------
\* A texture that goes to and fro: turned round often enough, its frame is one it
\* has, and stands for the same part of the cycle.
States == [at : Int, back : BOOLEAN]

Coming(s) == s \in States /\ (s.at < 0 => s.back) /\ (s.at >= n => ~s.back)

Away(s) == IF s.at < 0 THEN 1 - 2 * s.at ELSE 2 * s.at

LEMMA OneTurn ==
  ASSUME n \in Nat \ {0}, NEW s, Coming(s)
  PROVE  /\ Coming(TurnedRound(s))
         /\ Phase(TurnedRound(s).at, TurnedRound(s).back) % (2 * n - 1)
              = Phase(s.at, s.back) % (2 * n - 1)
         /\ s.at \in 0..(n - 1) => TurnedRound(s) = s
         /\ \/ TurnedRound(s).at \in 0..(n - 1)
            \/ Away(TurnedRound(s)) <= Away(s) - 1
<1> DEFINE p == n
           t == TurnedRound(s)
<1>1. p \in Nat /\ p > 0 /\ s.at \in Int /\ s.back \in BOOLEAN
  BY DEF Coming, States
<1>2. CASE s.at < 0
  <2>1. t = [at |-> -s.at, back |-> FALSE]
    BY <1>2, <1>1 DEF TurnedRound
  <2>2. t.at = -s.at /\ t.back = FALSE /\ t \in States
    BY <2>1, <1>1 DEF States
  <2>3. Coming(t) /\ Phase(t.at, t.back) = -s.at
    BY <2>2, <1>1, <1>2 DEF Coming, Phase
  <2>4. Phase(s.at, s.back) = 2 * p - s.at - 1
    BY <1>2 DEF Coming, Phase, Turn
  <2>5. (2 * p - s.at - 1) % (2 * p - 1) = (-s.at) % (2 * p - 1)
    <3>1. 2 * p - 1 \in Nat \ {0} /\ -s.at \in Int /\ 2 * p - s.at - 1 \in Int
          /\ 2 * p - s.at - 1 = (-s.at) + 1 * (2 * p - 1)
      BY <1>1
    <3>2. Cycled(2 * p - s.at - 1, -s.at, 2 * p - 1)
      BY <3>1 DEF Cycled
    <3> HIDE DEF p
    <3> QED BY <3>1, <3>2, SameRemainder
  <2>6. Away(t) <= Away(s) - 1
    BY <2>2, <1>1, <1>2 DEF Away
  <2> QED BY <2>3, <2>4, <2>5, <2>6, <1>1, <1>2
<1>3. CASE s.at >= n
  <2>1. t = [at |-> 2 * p - s.at - 1, back |-> TRUE]
    BY <1>3, <1>1 DEF TurnedRound, Turn
  <2>2. t.at = 2 * p - s.at - 1 /\ t.back = TRUE /\ t \in States
    BY <2>1, <1>1 DEF States
  <2>3. Coming(t) /\ Phase(t.at, t.back) = s.at
    BY <2>2, <1>1, <1>3 DEF Coming, Phase, Turn
  <2>4. Phase(s.at, s.back) = s.at
    BY <1>3 DEF Coming, Phase
  <2>5. t.at \in 0..(p - 1) \/ Away(t) <= Away(s) - 1
    BY <2>2, <1>1, <1>3 DEF Away
  <2> QED BY <2>3, <2>4, <2>5, <1>1, <1>3
<1>4. CASE ~(s.at < 0) /\ ~(s.at >= n)
  <2>1. t = s
    BY <1>4 DEF TurnedRound
  <2> QED BY <2>1, <1>1, <1>4
<1> QED BY <1>2, <1>3, <1>4

LEMMA SettledIs ==
  ASSUME n \in Nat \ {0}, NEW at \in Int, NEW back \in BOOLEAN,
         at < 0 => back, at >= n => ~back
  PROVE  /\ Settled(at, back) \in States /\ Settled(at, back).at \in 0..(n - 1)
         /\ Phase(Settled(at, back).at, Settled(at, back).back) % (2 * n - 1)
              = Phase(at, back) % (2 * n - 1)
<1> DEFINE N == MaxTurns(at)
           first == [at |-> at, back |-> back]
           Body(f, i) == IF i = 0 THEN first ELSE TurnedRound(f[i - 1])
           R == {s \in States : Coming(s)}
           I == {k \in Nat : \E f \in [0..k -> R] : f = [i \in 0..k |-> Body(f, i)]}
<1>n. N \in Nat /\ Away(first) <= N /\ first.at = at /\ first.back = back
  BY DEF MaxTurns, Away
<1>0. first \in R
  BY DEF Coming, States
<1>x. \A r \in R : TurnedRound(r) \in R
  BY OneTurn DEF Coming
<1> HIDE DEF N, R, first
<1>1. 0 \in I
  <2> DEFINE f == [i \in 0..0 |-> first]
  <2>1. f \in [0..0 -> R] /\ f = [i \in 0..0 |-> Body(f, i)]
    BY <1>0
  <2> QED BY <2>1
<1>2. ASSUME NEW k \in I PROVE k + 1 \in I
  <2>1. k \in Nat
    OBVIOUS
  <2>2. PICK f \in [0..k -> R] : f = [i \in 0..k |-> Body(f, i)]
    BY <1>2
  <2> DEFINE h == [i \in 0..(k + 1) |-> IF i = k + 1 THEN TurnedRound(f[k]) ELSE f[i]]
  <2>3. f[k] \in R /\ TurnedRound(f[k]) \in R
    BY <2>1, <2>2, <1>x
  <2>4. h \in [0..(k + 1) -> R]
    BY <2>1, <2>2, <2>3
  <2>5. \A i \in 0..(k + 1) : h[i] = Body(h, i)
    <3> SUFFICES ASSUME NEW i \in 0..(k + 1) PROVE h[i] = Body(h, i)
      OBVIOUS
    <3>1. CASE i = k + 1
      <4>1. h[k] = f[k] /\ i - 1 = k /\ i # 0
        BY <2>1, <3>1
      <4> QED BY <4>1, <3>1
    <3>2. CASE i = 0
      <4>1. h[0] = f[0] /\ f[0] = Body(f, 0)
        BY <2>1, <2>2
      <4> QED BY <4>1, <3>2
    <3>3. CASE i # k + 1 /\ i # 0
      <4>1. i \in 0..k /\ i - 1 \in 0..k /\ i - 1 \in 0..(k + 1) /\ i - 1 # k + 1
        BY <2>1, <3>3
      <4>2. h[i] = f[i] /\ h[i - 1] = f[i - 1]
        BY <4>1, <3>3
      <4>3. f[i] = Body(f, i)
        <5> HIDE DEF Body
        <5> QED BY <4>1, <2>2
      <4> HIDE DEF h
      <4> QED BY <4>2, <4>3, <3>3
    <3> QED BY <3>1, <3>2, <3>3
  <2>6. h = [i \in 0..(k + 1) |-> Body(h, i)]
    <3>1. h = [i \in 0..(k + 1) |-> h[i]]
      BY <2>4
    <3> HIDE DEF h, Body
    <3> QED BY <3>1, <2>5
  <2>7. k + 1 \in Nat
    BY <2>1
  <2> HIDE DEF h, Body
  <2> QED BY <2>4, <2>6, <2>7
<1>3. I = Nat
  <2> HIDE DEF I
  <2>1. I \in SUBSET Nat BY DEF I
  <2> QED BY <1>1, <1>2, <2>1, Upward
<1>4. PICK f \in [0..N -> R] : f = [i \in 0..N |-> Body(f, i)]
  BY <1>3, <1>n
<1> DEFINE c == CHOOSE w : w = [i \in 0..N |-> Body(w, i)]
<1>5. Settled(at, back) = c[N]
  BY DEF Settled, N, first
<1>6. c = [i \in 0..N |-> Body(c, i)]
  BY <1>4
<1> HIDE DEF c
<1>7. \A i \in 0..N : c[i] = Body(c, i)
  <2> HIDE DEF Body
  <2> QED BY <1>6
<1> DEFINE P(s) == Phase(s.at, s.back) % (2 * n - 1)
           J == {i \in Nat : i <= N =>
                   /\ c[i] \in R /\ P(c[i]) = P(first)
                   /\ c[i].at \in 0..(n - 1) \/ Away(c[i]) + i <= Away(first)}
<1>8. 0 \in J
  <2>1. 0 \in 0..N
    BY <1>n
  <2>2. c[0] = first /\ Away(first) + 0 <= Away(first)
    <3>1. Away(first) \in Int
      BY <1>n DEF Away
    <3> QED BY <3>1, <2>1, <1>7
  <2> QED BY <2>2, <1>0
<1>9. ASSUME NEW i \in J PROVE i + 1 \in J
  <2> SUFFICES ASSUME i + 1 <= N
               PROVE  /\ c[i + 1] \in R /\ P(c[i + 1]) = P(first)
                      /\ c[i + 1].at \in 0..(n - 1) \/ Away(c[i + 1]) + (i + 1) <= Away(first)
    OBVIOUS
  <2>1. i + 1 \in 0..N /\ i + 1 # 0 /\ (i + 1) - 1 = i /\ i <= N /\ i \in Nat
    BY <1>n
  <2>2. c[i + 1] = TurnedRound(c[i])
    BY <2>1, <1>7
  <2>3. /\ c[i] \in R /\ P(c[i]) = P(first)
        /\ c[i].at \in 0..(n - 1) \/ Away(c[i]) + i <= Away(first)
    BY <2>1
  <2>4. Coming(c[i])
    BY <2>3 DEF R
  <2>5. /\ P(TurnedRound(c[i])) = P(c[i])
        /\ c[i].at \in 0..(n - 1) => TurnedRound(c[i]) = c[i]
        /\ TurnedRound(c[i]).at \in 0..(n - 1) \/ Away(TurnedRound(c[i])) <= Away(c[i]) - 1
    BY <2>4, OneTurn
  <2>6. TurnedRound(c[i]) \in R
    BY <2>3, <1>x
  <2>7. Away(TurnedRound(c[i])) \in Int /\ Away(c[i]) \in Int /\ Away(first) \in Int
    BY <2>3, <2>6, <1>0 DEF R, States, Away
  <2> HIDE DEF P
  <2>8. c[i + 1].at \in 0..(n - 1) \/ Away(c[i + 1]) + (i + 1) <= Away(first)
    <3>1. CASE c[i].at \in 0..(n - 1)
      BY <3>1, <2>2, <2>5
    <3>2. CASE Away(c[i]) + i <= Away(first)
      BY <3>2, <2>1, <2>2, <2>5, <2>7
    <3> QED BY <2>3, <3>1, <3>2
  <2> QED BY <2>2, <2>3, <2>5, <2>6, <2>8
<1>10. J = Nat
  <2> HIDE DEF J
  <2>1. J \in SUBSET Nat BY DEF J
  <2> QED BY <1>8, <1>9, <2>1, Upward
<1>11. /\ c[N] \in R /\ P(c[N]) = P(first)
       /\ c[N].at \in 0..(n - 1) \/ Away(c[N]) + N <= Away(first)
  <2> HIDE DEF P
  <2> QED BY <1>10, <1>n
<1>12. c[N].at \in 0..(n - 1)
  <2>1. c[N] \in States
    BY <1>11 DEF R
  <2>2. CASE Away(c[N]) + N <= Away(first)
    <3>1. Away(c[N]) \in Int /\ Away(first) \in Int
      BY <2>1, <1>n DEF Away, States
    <3>2. Away(c[N]) <= 0
      BY <3>1, <2>2, <1>n
    <3>3. c[N].at = 0
      BY <3>2, <2>1 DEF Away, States
    <3> QED BY <3>3
  <2> QED BY <2>2, <1>11
<1> QED BY <1>5, <1>11, <1>12, <1>n DEF R

LEMMA FramesAre ==
  ASSUME TextureInv
  PROVE  /\ n \in Nat \ {0} /\ frame \in 0..(n - 1) /\ shown \in Nat /\ backwards \in BOOLEAN
         /\ \A step \in Steps : step \in Nat
<1>1. MaxFrames \in Nat /\ \A step \in Steps : step \in Nat
  BY CyclesAssumption
<1>2. texture.n \in 1..MaxFrames
  BY DEF TextureInv
<1> QED BY <1>1, <1>2 DEF TextureInv, n

LEMMA LoopKeepsTexture ==
  ASSUME TextureInv, NEW step \in Steps, Loop(step)
  PROVE  TextureInv'
<1> DEFINE p == n
<1>1. /\ p \in Nat \ {0} /\ step \in Nat /\ texture.way = "loop" /\ shown \in 0..(p - 1)
      /\ frame = (IF backwards THEN p - shown ELSE shown) % p /\ backwards \in BOOLEAN
  BY FramesAre DEF TextureInv, Loop
<1>2. /\ frame' = (IF backwards THEN frame - step ELSE frame + step) % p
      /\ shown' = (shown + step) % p
      /\ texture' = texture /\ running' = running /\ backwards' = backwards /\ blinkMode' = blinkMode
  BY DEF Loop
<1>3. n' = p
  BY <1>2 DEF n
<1> HIDE DEF p
<1>4. frame \in 0..(p - 1) /\ frame \in Int
  BY <1>1, FramesAre DEF p
<1>5. shown' \in 0..(p - 1) /\ frame' \in 0..(p - 1)
  <2>1. shown + step \in Int /\ (IF backwards THEN frame - step ELSE frame + step) \in Int
    BY <1>1, <1>4
  <2>2. \A a \in Int : a % p \in 0..(p - 1)
    BY <1>1, Remainders
  <2> QED BY <1>2, <2>1, <2>2
<1>6. frame' = (IF backwards THEN p - shown' ELSE shown') % p
  <2>1. CASE ~backwards
    <3>1. frame = shown /\ shown' % p = shown'
      BY <1>1, <1>5, <2>1, SmallRemainder
    <3> QED BY <3>1, <1>2, <2>1
  <2>2. CASE backwards
    <3> DEFINE a == p - shown
               r == (shown + step) % p
    <3>1. a \in Int /\ -step \in Int /\ shown + step \in Int /\ shown \in Int /\ p \in Int
      BY <1>1
    <3>2. frame = a % p
      BY <1>1, <2>2
    <3>3. frame' = (frame + (-step)) % p
      <4>1. frame - step = frame + (-step)
        BY <1>1, <1>4
      <4> QED BY <4>1, <1>2, <2>2
    <3>4. frame' = (a + (-step)) % p
      <4> HIDE DEF a
      <4>1. ((a % p) + (-step)) % p = (a + (-step)) % p
        BY <3>1, <1>1, AddToRemainder
      <4> QED BY <4>1, <3>2, <3>3
    <3>5. PICK q \in Int : shown + step = q * p + r
      BY <3>1, <1>1, Remainders
    <3>6. r \in Int
      BY <1>2, <1>5
    <3> HIDE DEF r
    <3>7. Cycled(p - r, a + (-step), p)
      <4>1. q * p \in Int
        BY <3>1
      <4>2. p - r = (a + (-step)) + q * p
        BY <4>1, <3>1, <3>5, <3>6, <1>1
      <4> QED BY <4>2 DEF Cycled
    <3>8. (p - r) % p = (a + (-step)) % p
      <4>1. p - r \in Int /\ a + (-step) \in Int
        BY <3>1, <3>6
      <4> HIDE DEF a
      <4> QED BY <4>1, <3>7, <1>1, SameRemainder
    <3>9. r = shown'
      BY <1>2 DEF r
    <3> HIDE DEF a
    <3> QED BY <3>4, <3>8, <3>9, <2>2
  <2> QED BY <2>1, <2>2
<1>7. n' = p /\ n = p
  BY <1>3 DEF p
<1> QED BY <1>1, <1>2, <1>5, <1>6, <1>7 DEF TextureInv

LEMMA BounceKeepsTexture ==
  ASSUME TextureInv, NEW step \in Steps, Bounce(step)
  PROVE  TextureInv'
<1> DEFINE at == IF backwards THEN frame - step ELSE frame + step
           to == Settled(at, backwards)
           p == 2 * n - 1
<1>1. /\ n \in Nat \ {0} /\ step \in Nat /\ texture.way = "bounce" /\ backwards \in BOOLEAN
      /\ frame \in 0..(n - 1) /\ Phase(frame, backwards) % p = shown /\ shown \in Nat
  BY FramesAre DEF TextureInv, Bounce
<1>2. /\ frame' = to.at /\ backwards' = to.back /\ shown' = (shown + step) % p
      /\ texture' = texture /\ running' = running /\ blinkMode' = blinkMode
  BY DEF Bounce
<1>3. at \in Int /\ (at < 0 => backwards) /\ (at >= n => ~backwards)
  BY <1>1
<1>4. Phase(at, backwards) = Phase(frame, backwards) + step /\ Phase(frame, backwards) \in Int
      /\ p \in Nat \ {0}
  BY <1>1 DEF Phase, Turn
<1> HIDE DEF at
<1>5. /\ to \in States /\ to.at \in 0..(n - 1)
      /\ Phase(to.at, to.back) % p = Phase(at, backwards) % p
  BY <1>1, <1>3, SettledIs
<1> HIDE DEF to, p
<1>6. Phase(at, backwards) % p = shown'
  <2> DEFINE a == Phase(frame, backwards)
  <2>1. a \in Int /\ step \in Int
    BY <1>1, <1>4
  <2> HIDE DEF a
  <2>2. ((a % p) + step) % p = (a + step) % p
    BY <2>1, <1>4, AddToRemainder
  <2>3. a % p = shown /\ Phase(at, backwards) = a + step
    BY <1>1, <1>4 DEF a
  <2> QED BY <2>2, <2>3, <1>2
<1>7. shown' \in Nat
  <2>1. Phase(at, backwards) \in Int
    BY <1>1, <1>4
  <2>2. Phase(at, backwards) % p \in 0..(p - 1)
    BY <2>1, <1>4, Remainders
  <2>3. shown' \in 0..(p - 1)
    BY <2>2, <1>6
  <2> QED BY <2>3
<1>8. n' = n /\ Phase(frame', backwards') = Phase(to.at, to.back)
  BY <1>2 DEF n, Phase, Turn
<1>9. (Phase(frame, backwards))' = Phase(to.at, to.back) /\ (2 * n - 1)' = p
  BY <1>2 DEF n, Phase, Turn, p
<1>10. (Phase(frame, backwards) % (2 * n - 1))' = shown'
  BY <1>5, <1>6, <1>9
<1>11. to.back \in BOOLEAN /\ frame' \in 0..(n' - 1)
  BY <1>2, <1>5, <1>8 DEF States
<1> QED BY <1>1, <1>2, <1>7, <1>10, <1>11 DEF TextureInv

LEMMA BlinkKeepsTexture ==
  ASSUME TextureInv, NEW step \in Steps, Blink(step)
  PROVE  TextureInv'
<1> DEFINE at == IF backwards THEN frame - step ELSE frame + step
           hold == ~backwards /\ at >= n /\ blinkMode = 3
           last == IF ~backwards /\ at >= n THEN Turn(at) ELSE at
<1>1. /\ n \in Nat \ {0} /\ step \in Nat /\ texture.way = "blink" /\ backwards \in BOOLEAN
      /\ frame \in 0..(n - 1) /\ running /\ shown \in Nat
      /\ (IF backwards THEN 2 * n - frame - 1 ELSE frame) = shown
  BY FramesAre DEF TextureInv, Blink, Phase, Turn
<1>2. /\ frame' = IF hold THEN n - 1 ELSE IF last < 0 THEN 0 ELSE last
      /\ running' = (hold \/ last >= 0)
      /\ backwards' = (~hold /\ last >= 0 /\ (backwards \/ at >= n))
      /\ shown' = IF hold THEN n - 1 ELSE IF last < 0 THEN 0 ELSE shown + step
      /\ blinkMode' = 0 /\ texture' = texture /\ n' = n
  BY DEF Blink, n
<1>3. at \in Int /\ last \in Int /\ hold \in BOOLEAN
  BY <1>1 DEF Turn
<1>4. (Phase(frame, backwards))' = IF backwards' THEN 2 * n - frame' - 1 ELSE frame'
  BY <1>2 DEF Phase, Turn
<1>5. CASE hold
  <2>1. frame' = n - 1 /\ running' = TRUE /\ backwards' = FALSE /\ shown' = n - 1
    BY <1>2, <1>5, <1>3
  <2>2. frame' \in 0..(n - 1) /\ shown' \in Nat
    BY <2>1, <1>1
  <2> QED BY <2>1, <2>2, <1>1, <1>2, <1>4 DEF TextureInv
<1>6. CASE ~hold /\ last < 0
  <2>1. frame' = 0 /\ running' = FALSE /\ backwards' = FALSE /\ shown' = 0
    <3> HIDE DEF hold, last
    <3>1. ~(last >= 0)
      BY <1>3, <1>6
    <3> QED BY <3>1, <1>2, <1>6
  <2>2. frame' \in 0..(n - 1) /\ shown' \in Nat
    BY <2>1, <1>1
  <2> QED BY <2>1, <2>2, <1>1, <1>2, <1>4 DEF TextureInv
<1>7. CASE ~hold /\ last >= 0 /\ ~backwards /\ at < n
  <2>1. last = at /\ at = shown + step /\ at \in 0..(n - 1) /\ ~(at >= n)
    BY <1>1, <1>7
  <2>2. frame' = at /\ running' = TRUE /\ backwards' = FALSE /\ shown' = at
    <3> HIDE DEF hold, last, at
    <3>1. ~(last < 0)
      BY <1>3, <1>7
    <3> QED BY <3>1, <1>2, <1>7, <2>1
  <2> HIDE DEF at, last, hold
  <2>3. shown' \in Nat
    BY <2>1, <2>2, <1>1
  <2> QED BY <2>1, <2>2, <2>3, <1>1, <1>2, <1>4 DEF TextureInv
<1>8. CASE ~hold /\ last >= 0 /\ ~backwards /\ at >= n
  <2>1. last = 2 * n - at - 1 /\ at = shown + step /\ last \in 0..(n - 1) /\ at \in Nat
    BY <1>1, <1>8 DEF Turn
  <2>2. frame' = last /\ running' = TRUE /\ backwards' = TRUE /\ shown' = at
    <3> HIDE DEF hold, last, at
    <3>1. ~(last < 0)
      BY <1>3, <1>8
    <3> QED BY <3>1, <1>2, <1>8, <2>1
  <2>3. 2 * n - last - 1 = at
    BY <2>1, <1>1
  <2> HIDE DEF at, last, hold
  <2> QED BY <2>1, <2>2, <2>3, <1>1, <1>2, <1>4 DEF TextureInv
<1>9. CASE ~hold /\ last >= 0 /\ backwards
  <2>1. last = frame - step /\ last \in 0..(n - 1) /\ 2 * n - last - 1 = shown + step
        /\ shown + step \in Nat
    BY <1>1, <1>9
  <2>2. frame' = last /\ running' = TRUE /\ backwards' = TRUE /\ shown' = shown + step
    <3> HIDE DEF hold, last, at
    <3>1. ~(last < 0)
      BY <1>3, <1>9
    <3> QED BY <3>1, <1>2, <1>9
  <2> HIDE DEF at, last, hold
  <2> QED BY <2>1, <2>2, <1>1, <1>2, <1>4 DEF TextureInv
<1> HIDE DEF hold, last
<1>10. hold \/ (~hold /\ last < 0) \/ (~hold /\ last >= 0 /\ ~backwards /\ at < n)
       \/ (~hold /\ last >= 0 /\ ~backwards /\ at >= n) \/ (~hold /\ last >= 0 /\ backwards)
  <2> HIDE DEF at
  <2>1. (last < 0 \/ last >= 0) /\ (at < n \/ at >= n)
    BY <1>1, <1>3
  <2> QED BY <2>1
<1> QED BY <1>5, <1>6, <1>7, <1>8, <1>9, <1>10

LEMMA BlinkStartsKeepsTexture ==
  ASSUME TextureInv, BlinkStarts
  PROVE  TextureInv'
<1>1. /\ texture.way = "blink" /\ ~running /\ frame = 0 /\ texture' = texture /\ frame' = 0
      /\ running' \in BOOLEAN /\ backwards' = (backwards /\ ~running') /\ blinkMode' = 0
      /\ shown' = IF running' THEN 0 ELSE shown
  BY DEF BlinkStarts, TextureInv
<1>2. n' = n /\ (Phase(frame, backwards))' = IF backwards' THEN Turn(0)' ELSE 0
  BY <1>1 DEF n, Phase, Turn
<1>3. backwards' \in BOOLEAN /\ shown' \in Nat /\ (running' => ~backwards')
  BY <1>1 DEF TextureInv
<1> QED BY <1>1, <1>2, <1>3 DEF TextureInv

LEMMA SetBlinkKeepsTexture ==
  ASSUME TextureInv, SetBlink
  PROVE  TextureInv'
BY DEF TextureInv, SetBlink, n, Phase, Turn

-----------------------------------------------------------------------------
\* The light: the time of its first colours, once and twice round.
LEMMA ElapsedIs ==
  ASSUME NEW m \in Nat, m > 0, times \in [0..(m - 1) -> 0..MaxTime]
  PROVE  /\ numberFrames = m /\ DOMAIN times = 0..(m - 1)
         /\ Elapsed[0] = 0
         /\ \A f \in 0..(2 * m) : Elapsed[f] \in Nat
         /\ \A f \in 0..(2 * m - 1) : Elapsed[f + 1] = Elapsed[f] + times[f % m]
         /\ \A f \in 0..(2 * m - 1) : times[f % m] \in 0..MaxTime
<1> DEFINE N == 2 * m
           Body(s, i) == IF i = 0 THEN 0 ELSE s[i - 1] + times[(i - 1) % m]
           I == {k \in Nat : k <= N => \E s \in [0..k -> Nat] : s = [i \in 0..k |-> Body(s, i)]}
<1>d. numberFrames = m /\ DOMAIN times = 0..(m - 1)
  <2>1. DOMAIN times = 0..(m - 1)
    OBVIOUS
  <2>2. Cardinality(0..(m - 1)) = m
    BY FS_Interval
  <2> QED BY <2>1, <2>2 DEF numberFrames
<1>n. N \in Nat /\ N = 2 * numberFrames
  BY <1>d
<1>x. \A i \in 0..(2 * m - 1) : times[i % m] \in 0..MaxTime
  <2>1. \A a \in Int : a % m \in 0..(m - 1)
    BY Remainders
  <2> QED BY <2>1
<1>t. \A i \in 0..(N - 1) : times[i % m] \in Nat
  BY <1>x
<1> HIDE DEF N
<1>1. 0 \in I
  <2> DEFINE s == [i \in 0..0 |-> 0]
  <2>1. s \in [0..0 -> Nat] /\ s = [i \in 0..0 |-> Body(s, i)]
    OBVIOUS
  <2> QED BY <2>1
<1>2. ASSUME NEW k \in I PROVE k + 1 \in I
  <2>0. k + 1 \in Nat
    OBVIOUS
  <2> SUFFICES ASSUME k + 1 <= N
               PROVE  \E s \in [0..(k + 1) -> Nat] : s = [i \in 0..(k + 1) |-> Body(s, i)]
    BY <2>0, Zenon
  <2>1. k \in Nat /\ k <= N /\ k \in 0..(N - 1)
    BY <1>n
  <2>2. PICK s \in [0..k -> Nat] : s = [i \in 0..k |-> Body(s, i)]
    BY <1>2, <2>1
  <2> DEFINE last == s[k] + times[k % m]
             h == [i \in 0..(k + 1) |-> IF i = k + 1 THEN last ELSE s[i]]
  <2>3. s[k] \in Nat /\ last \in Nat
    BY <2>1, <2>2, <1>t
  <2> HIDE DEF last
  <2>4. h \in [0..(k + 1) -> Nat]
    BY <2>1, <2>2, <2>3
  <2>5. \A i \in 0..(k + 1) : h[i] = Body(h, i)
    <3> SUFFICES ASSUME NEW i \in 0..(k + 1) PROVE h[i] = Body(h, i)
      OBVIOUS
    <3>1. CASE i = k + 1
      <4>1. h[k] = s[k] /\ i - 1 = k /\ i # 0 /\ h[i] = last
        BY <2>1, <3>1
      <4> HIDE DEF h
      <4> QED BY <4>1, <3>1 DEF last
    <3>2. CASE i = 0
      <4>1. h[0] = s[0] /\ s[0] = Body(s, 0)
        BY <2>1, <2>2
      <4> QED BY <4>1, <3>2
    <3>3. CASE i # k + 1 /\ i # 0
      <4>1. i \in 0..k /\ i - 1 \in 0..k /\ i - 1 \in 0..(k + 1) /\ i - 1 # k + 1
        BY <2>1, <3>3
      <4>2. h[i] = s[i] /\ h[i - 1] = s[i - 1]
        BY <4>1, <3>3
      <4>3. s[i] = Body(s, i)
        <5> HIDE DEF Body
        <5> QED BY <4>1, <2>2
      <4> HIDE DEF h
      <4> QED BY <4>2, <4>3, <3>3
    <3> QED BY <3>1, <3>2, <3>3
  <2>6. h = [i \in 0..(k + 1) |-> Body(h, i)]
    <3>1. h = [i \in 0..(k + 1) |-> h[i]]
      BY <2>4
    <3> HIDE DEF h, Body
    <3> QED BY <3>1, <2>5
  <2> HIDE DEF h, Body
  <2> QED BY <2>4, <2>6
<1>3. I = Nat
  <2> HIDE DEF I
  <2>1. I \in SUBSET Nat BY DEF I
  <2> QED BY <1>1, <1>2, <2>1, Upward
<1>4. PICK s \in [0..N -> Nat] : s = [i \in 0..N |-> Body(s, i)]
  BY <1>3, <1>n
<1> DEFINE c == CHOOSE w : w = [i \in 0..N |-> Body(w, i)]
<1>5. Elapsed = c
  <2>1. Elapsed = CHOOSE w : w = [i \in 0..(2 * numberFrames) |->
                    IF i = 0 THEN 0 ELSE w[i - 1] + times[(i - 1) % numberFrames]]
    BY DEF Elapsed
  <2> QED BY <2>1, <1>d, <1>n
<1>6. c = [i \in 0..N |-> Body(c, i)]
  BY <1>4
<1> HIDE DEF c
<1>7. \A i \in 0..N : c[i] = Body(c, i)
  <2> HIDE DEF Body
  <2> QED BY <1>6
<1>8. c[0] = 0 /\ \A i \in 0..(N - 1) : c[i + 1] = c[i] + times[i % m]
  <2>1. c[0] = 0
    BY <1>7, <1>n
  <2>2. ASSUME NEW i \in 0..(N - 1) PROVE c[i + 1] = c[i] + times[i % m]
    <3>1. i + 1 \in 0..N /\ i + 1 # 0 /\ (i + 1) - 1 = i
      BY <1>n
    <3>2. c[i + 1] = Body(c, i + 1)
      <4> HIDE DEF Body
      <4> QED BY <3>1, <1>7
    <3> QED BY <3>1, <3>2
  <2> QED BY <2>1, <2>2
<1> DEFINE J == {k \in Nat : k <= N => c[k] \in Nat}
<1>9. J = Nat
  <2>1. 0 \in J
    BY <1>8
  <2>2. ASSUME NEW k \in J PROVE k + 1 \in J
    <3> SUFFICES ASSUME k + 1 <= N PROVE c[k + 1] \in Nat
      OBVIOUS
    <3>1. k \in 0..(N - 1) /\ k <= N
      BY <1>n
    <3> QED BY <3>1, <1>8, <1>t
  <2> HIDE DEF J
  <2>3. J \in SUBSET Nat BY DEF J
  <2> QED BY <2>1, <2>2, <2>3, Upward
<1>10. \A i \in 0..N : c[i] \in Nat
  BY <1>9, <1>n
<1> QED BY <1>5, <1>8, <1>10, <1>d, <1>x DEF N

\* Time passes: it never runs back, the second round takes as long as the first,
\* and a round no longer than its colours may.
LEMMA ElapsedGrows ==
  ASSUME NEW m \in Nat, m > 0, times \in [0..(m - 1) -> 0..MaxTime]
  PROVE  /\ \A f \in 0..m : Elapsed[f] <= f * MaxTime
         /\ \A f \in 0..m : Elapsed[f + m] = Elapsed[f] + Elapsed[m]
         /\ \A f, h \in 0..(2 * m) : f <= h => Elapsed[f] <= Elapsed[h]
<1> DEFINE E == Elapsed
<1>0. /\ E[0] = 0 /\ MaxTime \in Nat
      /\ \A f \in 0..(2 * m) : E[f] \in Nat
      /\ \A f \in 0..(2 * m - 1) : E[f + 1] = E[f] + times[f % m] /\ times[f % m] \in 0..MaxTime
  BY ElapsedIs, CyclesAssumption
<1> HIDE DEF E
<1>1. \A f \in 0..m : E[f] <= f * MaxTime
  <2> DEFINE I == {k \in Nat : k <= m => E[k] <= k * MaxTime}
  <2>1. 0 \in I
    BY <1>0
  <2>2. ASSUME NEW k \in I PROVE k + 1 \in I
    <3> SUFFICES ASSUME k + 1 <= m PROVE E[k + 1] <= (k + 1) * MaxTime
      OBVIOUS
    <3>1. k \in 0..(2 * m - 1) /\ k \in 0..(2 * m) /\ k <= m /\ k \in Nat
      OBVIOUS
    <3>2. E[k] <= k * MaxTime /\ k * MaxTime \in Nat /\ (k + 1) * MaxTime = k * MaxTime + MaxTime
      BY <3>1, <1>0
    <3> DEFINE t == times[k % m]
    <3>3. E[k + 1] = E[k] + t /\ t \in 0..MaxTime /\ E[k] \in Nat
      BY <3>1, <1>0
    <3> HIDE DEF t
    <3> QED BY <3>2, <3>3, <1>0
  <2>3. I = Nat
    <3> HIDE DEF I
    <3>1. I \in SUBSET Nat BY DEF I
    <3> QED BY <2>1, <2>2, <3>1, Upward
  <2> QED BY <2>3
<1>2. \A f \in 0..m : E[f + m] = E[f] + E[m]
  <2> DEFINE I == {k \in Nat : k <= m => E[k + m] = E[k] + E[m]}
  <2>1. 0 \in I
    <3>1. 0 + m = m /\ m \in 0..(2 * m)
      OBVIOUS
    <3> QED BY <3>1, <1>0
  <2>2. ASSUME NEW k \in I PROVE k + 1 \in I
    <3> SUFFICES ASSUME k + 1 <= m PROVE E[(k + 1) + m] = E[k + 1] + E[m]
      OBVIOUS
    <3>1. k \in 0..(2 * m - 1) /\ k + m \in 0..(2 * m - 1) /\ k <= m /\ (k + 1) + m = (k + m) + 1
          /\ k \in 0..(m - 1) /\ m \in 0..(2 * m) /\ k \in 0..(2 * m)
      OBVIOUS
    <3>2. (k + m) % m = k % m
      BY <3>1, SmallRemainder
    <3>3. E[k + m] = E[k] + E[m]
      BY <3>1
    <3>4. E[(k + m) + 1] = E[k + m] + times[k % m] /\ E[k + 1] = E[k] + times[k % m]
      BY <3>1, <3>2, <1>0
    <3>5. E[k] \in Nat /\ E[m] \in Nat /\ times[k % m] \in Nat
      BY <3>1, <1>0
    <3> QED BY <3>1, <3>3, <3>4, <3>5
  <2>3. I = Nat
    <3> HIDE DEF I
    <3>1. I \in SUBSET Nat BY DEF I
    <3> QED BY <2>1, <2>2, <3>1, Upward
  <2>4. ASSUME NEW f \in 0..m PROVE E[f + m] = E[f] + E[m]
    <3>1. f \in Nat /\ f <= m
      OBVIOUS
    <3> QED BY <3>1, <2>3
  <2> QED BY <2>4
<1>3. \A f, h \in 0..(2 * m) : f <= h => E[f] <= E[h]
  <2> SUFFICES ASSUME NEW f \in 0..(2 * m) PROVE \A h \in 0..(2 * m) : f <= h => E[f] <= E[h]
    OBVIOUS
  <2> DEFINE I == {k \in Nat : f + k <= 2 * m => E[f] <= E[f + k]}
  <2>1. 0 \in I
    BY <1>0
  <2>2. ASSUME NEW k \in I PROVE k + 1 \in I
    <3> SUFFICES ASSUME f + (k + 1) <= 2 * m PROVE E[f] <= E[f + (k + 1)]
      OBVIOUS
    <3>1. f + k \in 0..(2 * m - 1) /\ f + k <= 2 * m /\ f + (k + 1) = (f + k) + 1
          /\ f + k \in 0..(2 * m)
      OBVIOUS
    <3>2. E[f] <= E[f + k]
      BY <3>1
    <3>3. E[(f + k) + 1] = E[f + k] + times[(f + k) % m] /\ times[(f + k) % m] \in 0..MaxTime
          /\ E[f + k] \in Nat /\ E[f] \in Nat
      BY <3>1, <1>0
    <3> QED BY <3>1, <3>2, <3>3, <1>0
  <2>3. I = Nat
    <3> HIDE DEF I
    <3>1. I \in SUBSET Nat BY DEF I
    <3> QED BY <2>1, <2>2, <3>1, Upward
  <2>4. ASSUME NEW h \in 0..(2 * m), f <= h PROVE E[f] <= E[h]
    <3>1. h - f \in Nat /\ f + (h - f) = h /\ f + (h - f) <= 2 * m
      BY <2>4
    <3>2. h - f \in I
      <4> HIDE DEF I
      <4> QED BY <3>1, <2>3
    <3> QED BY <3>1, <3>2
  <2> QED BY <2>4
<1> QED BY <1>1, <1>2, <1>3 DEF E

\* From a colour on, less than a round leads into one of the next round's.
LEMMA ColourDue ==
  ASSUME NEW m \in Nat, m > 0, times \in [0..(m - 1) -> 0..MaxTime],
         NEW at \in 0..(m - 1), NEW all \in Nat, all < Elapsed[m]
  PROVE  \E f \in at..(at + m - 1) :
           Elapsed[f] <= Elapsed[at] + all /\ Elapsed[at] + all < Elapsed[f + 1]
<1> DEFINE E == Elapsed
           due == E[at] + all
           I == {k \in Nat : k <= m =>
                   \/ E[at + k] <= due
                   \/ \E f \in at..(at + m - 1) : E[f] <= due /\ due < E[f + 1]}
<1>0. /\ \A f \in 0..(2 * m) : E[f] \in Nat
      /\ E[at + m] = E[at] + E[m] /\ all < E[m]
  <2>1. at \in 0..m
    OBVIOUS
  <2>2. \A f \in 0..m : Elapsed[f + m] = Elapsed[f] + Elapsed[m]
    BY ElapsedGrows
  <2>3. \A f \in 0..(2 * m) : Elapsed[f] \in Nat
    BY ElapsedIs
  <2> QED BY <2>1, <2>2, <2>3
<1> HIDE DEF E
<1>1. 0 \in I
  <2>1. at \in 0..(2 * m) /\ at + 0 = at
    OBVIOUS
  <2>2. E[at + 0] <= due
    BY <2>1, <1>0
  <2> HIDE DEF due
  <2> QED BY <2>2
<1>2. ASSUME NEW k \in I PROVE k + 1 \in I
  <2> SUFFICES ASSUME k + 1 <= m
               PROVE  \/ E[at + (k + 1)] <= due
                      \/ \E f \in at..(at + m - 1) : E[f] <= due /\ due < E[f + 1]
    OBVIOUS
  <2>1. k <= m /\ at + k \in at..(at + m - 1) /\ (at + k) + 1 = at + (k + 1)
        /\ (at + k) + 1 \in 0..(2 * m) /\ at \in 0..(2 * m)
    OBVIOUS
  <2>2. E[(at + k) + 1] \in Nat /\ due \in Nat
    BY <2>1, <1>0
  <2> HIDE DEF due
  <2> QED BY <1>2, <2>1, <2>2
<1>3. I = Nat
  <2> HIDE DEF I
  <2>1. I \in SUBSET Nat BY DEF I
  <2> QED BY <1>1, <1>2, <2>1, Upward
<1>4. ~(E[at + m] <= due)
  <2>1. E[at] \in Nat /\ E[m] \in Nat
    BY <1>0
  <2> QED BY <2>1, <1>0
<1>5. \E f \in at..(at + m - 1) : E[f] <= due /\ due < E[f + 1]
  <2>1. m \in I
    <3> HIDE DEF I
    <3> QED BY <1>3
  <2> HIDE DEF due
  <2> QED BY <1>4, <2>1
<1> QED BY <1>5 DEF E, due

LEMMA LightIs ==
  ASSUME times \in Lights
  PROVE  \E m \in 2..MaxFrames : times \in [0..(m - 1) -> 0..MaxTime] /\ numberFrames = m
         /\ DOMAIN times = 0..(m - 1) /\ totalTime = Elapsed[m] /\ Elapsed[m] <= MaxFrames * MaxTime
         /\ Elapsed[m] \in Nat
<1>1. PICK m \in 2..MaxFrames : times \in [0..(m - 1) -> 0..MaxTime]
  BY DEF Lights
<1>2. MaxFrames \in Nat /\ MaxTime \in Nat /\ TimeLimit \in Nat /\ MaxFrames * MaxTime + 0 < TimeLimit
  BY CyclesAssumption
<1>3. m \in Nat /\ m > 0 /\ m <= MaxFrames
  BY <1>2
<1>4. numberFrames = m /\ DOMAIN times = 0..(m - 1) /\ Elapsed[m] \in Nat
  BY <1>1, <1>3, ElapsedIs
<1>5. Elapsed[m] <= m * MaxTime
  BY <1>1, <1>3, ElapsedGrows
<1>6. m * MaxTime <= MaxFrames * MaxTime /\ m * MaxTime \in Nat /\ MaxFrames * MaxTime \in Nat
  BY <1>2, <1>3
<1>7. Elapsed[m] <= MaxFrames * MaxTime /\ Elapsed[m] \in 0..(TimeLimit - 1) /\ TimeLimit \in Nat \ {0}
  BY <1>2, <1>4, <1>5, <1>6
<1>8. totalTime = Elapsed[m]
  BY <1>4, <1>7, SmallRemainder DEF totalTime
<1> QED BY <1>1, <1>4, <1>7, <1>8

LEMMA LightStays ==
  ASSUME times' = times
  PROVE  Elapsed' = Elapsed /\ totalTime' = totalTime
BY DEF Elapsed, totalTime, numberFrames

LEMMA ResetKeepsLight ==
  ASSUME LightInv, resetMixCycle
  PROVE  LightInv'
<1>1. PICK m \in 2..MaxFrames : times \in [0..(m - 1) -> 0..MaxTime] /\ DOMAIN times = 0..(m - 1)
  BY LightIs DEF LightInv
<1>2. m \in Nat /\ m > 0 /\ 0 \in 0..(m - 1)
  BY CyclesAssumption
<1>3. Elapsed[0] = 0
  BY <1>1, <1>2, ElapsedIs
<1>4. /\ times' = times /\ currentFrame' = 0 /\ time' = 0 /\ shone' = 0
      /\ Elapsed' = Elapsed /\ totalTime' = totalTime
  BY LightStays DEF resetMixCycle
<1>5. Elapsed'[0] + 0 = 0
  BY <1>3, <1>4
<1> QED BY <1>1, <1>2, <1>4, <1>5 DEF LightInv, Lights

LEMMA UpdateKeepsLight ==
  ASSUME LightInv, NEW timeDelta \in Steps, updateMixCycle(timeDelta)
  PROVE  LightInv'
<1>1. PICK m \in 2..MaxFrames :
        /\ times \in [0..(m - 1) -> 0..MaxTime] /\ numberFrames = m /\ DOMAIN times = 0..(m - 1)
        /\ totalTime = Elapsed[m] /\ Elapsed[m] <= MaxFrames * MaxTime /\ Elapsed[m] \in Nat
  BY LightIs DEF LightInv
<1>2. /\ m \in Nat /\ m > 0 /\ m <= MaxFrames /\ MaxFrames \in Nat /\ MaxTime \in Nat
      /\ timeDelta \in Nat /\ TimeLimit \in Nat /\ MaxFrames * MaxTime + timeDelta < TimeLimit
  BY CyclesAssumption
<1> DEFINE E == Elapsed
           T == E[m]
           cur == currentFrame
           all == ((time + timeDelta) % TimeLimit) % totalTime
           last == CHOOSE f \in cur..(cur + numberFrames - 1) :
                     /\ E[f] <= E[cur] + all
                     /\ E[cur] + all < E[f + 1]
<1>3. /\ time' = E[cur] + all - E[last] /\ currentFrame' = last % m
      /\ shone' = (shone + timeDelta) % T /\ times' = times /\ E' = E /\ totalTime' = totalTime
  BY <1>1, LightStays DEF updateMixCycle
<1>4. /\ cur \in 0..(m - 1) /\ time \in Nat /\ shone \in Nat /\ E[cur] + time = shone
      /\ T \in Nat /\ T > 0 /\ (time < times[cur] \/ time = 0) /\ times[cur] \in 0..MaxTime
  BY <1>1 DEF LightInv
<1>5. /\ \A f \in 0..(2 * m) : E[f] \in Nat
      /\ \A f \in 0..(2 * m - 1) : E[f + 1] = E[f] + times[f % m] /\ times[f % m] \in 0..MaxTime
  BY <1>1, <1>2, ElapsedIs
<1>6. /\ \A f \in 0..m : E[f + m] = E[f] + T
      /\ \A f, h \in 0..(2 * m) : f <= h => E[f] <= E[h]
  BY <1>1, <1>2, ElapsedGrows
\* The 16 bits do not overflow.
<1>7. all = (time + timeDelta) % T
  <2>1. MaxTime <= MaxFrames * MaxTime /\ MaxFrames * MaxTime \in Nat
    <3>1. MaxFrames >= 1
      BY <1>2
    <3> QED BY <3>1, <1>2
  <2>2. time <= MaxTime
    BY <1>2, <1>4
  <2>3. time + timeDelta \in 0..(TimeLimit - 1) /\ TimeLimit \in Nat \ {0}
    BY <2>1, <2>2, <1>2, <1>4
  <2>4. (time + timeDelta) % TimeLimit = time + timeDelta
    BY <2>3, SmallRemainder
  <2> QED BY <2>4, <1>1
<1>8. PICK q \in Int : time + timeDelta = q * T + all
  <2>1. time + timeDelta \in Int /\ T \in Nat \ {0}
    BY <1>2, <1>4
  <2> HIDE DEF all, T
  <2> QED BY <2>1, <1>7, Remainders
<1>9. all \in 0..(T - 1)
  <2>1. time + timeDelta \in Int /\ T \in Nat \ {0}
    BY <1>2, <1>4
  <2> HIDE DEF all, T
  <2> QED BY <2>1, <1>7, Remainders
<1> HIDE DEF all
<1>10. last \in cur..(cur + m - 1) /\ E[last] <= E[cur] + all /\ E[cur] + all < E[last + 1]
  <2>1. all \in Nat /\ all < Elapsed[m]
    BY <1>4, <1>9
  <2>2. \E f \in cur..(cur + m - 1) : E[f] <= E[cur] + all /\ E[cur] + all < E[f + 1]
    BY <2>1, <1>1, <1>2, <1>4, ColourDue
  <2> HIDE DEF E, cur
  <2> QED BY <2>2, <1>1
<1> HIDE DEF E, last, cur
<1>11. PICK c \in Int : c = cur /\ c \in 0..(m - 1)
  BY <1>4
<1>12. PICK d \in Int : d = last /\ d \in c..(c + m - 1) /\ d \in 0..(2 * m - 1) /\ d \in 0..(2 * m)
         /\ d + 1 \in 0..(2 * m)
  BY <1>2, <1>10, <1>11
<1>13. /\ E[d + 1] = E[d] + times[d % m] /\ times[d % m] \in 0..MaxTime
       /\ E[c] \in Nat /\ E[d] \in Nat /\ E[d + 1] \in Nat
  BY <1>2, <1>5, <1>11, <1>12
<1>14. E[d] <= E[c] + all /\ E[c] + all < E[d + 1]
  BY <1>10, <1>11, <1>12
<1>15. /\ time' \in Nat /\ time' < times[d % m] /\ time' = E[c] + all - E[d]
  <2>1. time' = E[c] + all - E[d]
    BY <1>3, <1>11, <1>12
  <2> DEFINE t == times[d % m]
  <2>2. E[d + 1] = E[d] + t /\ t \in Nat
    BY <1>13
  <2>3. all \in Int
    BY <1>4, <1>9
  <2> HIDE DEF t
  <2>4. E[c] + all - E[d] \in Nat /\ E[c] + all - E[d] < t
    BY <2>2, <2>3, <1>13, <1>14
  <2> QED BY <2>1, <2>4 DEF t
<1>16. d % m \in 0..(m - 1) /\ currentFrame' = d % m
  BY <1>2, <1>3, <1>12, Remainders
\* The light is in the next round when the colour due is.
<1>17. \E j \in {0, 1} : E[d % m] = E[d] - j * T /\ E[c] + all - j * T \in 0..(T - 1)
  <2>1. CASE d < m
    <3>1. d % m = d
      BY <2>1, <1>2, <1>12, SmallRemainder
    <3>2. E[d + 1] <= E[m]
      <4>1. d + 1 <= m /\ d + 1 \in 0..(2 * m) /\ m \in 0..(2 * m)
        BY <2>1, <1>2, <1>12
      <4> QED BY <4>1, <1>6
    <3>3. E[c] + all - 0 * T \in 0..(T - 1) /\ E[d % m] = E[d] - 0 * T
      BY <3>1, <3>2, <1>4, <1>9, <1>13, <1>14
    <3> QED BY <3>3
  <2>2. CASE d >= m
    <3> DEFINE b == d - m
    <3>1. b \in 0..(m - 1) /\ d = b + m /\ b \in 0..m /\ m \in 0..m /\ d + 1 \in 0..(2 * m)
          /\ 2 * m \in 0..(2 * m) /\ b \in 0..(2 * m)
      BY <2>2, <1>2, <1>12
    <3>2. d % m = b
      <4> HIDE DEF b
      <4> QED BY <3>1, <1>2, SmallRemainder
    <3>3. E[d] = E[b] + T /\ E[b] \in Nat
      <4> HIDE DEF b
      <4> QED BY <3>1, <1>5, <1>6
    <3>4. E[d + 1] <= 2 * T
      <4>1. E[d + 1] <= E[m + m]
        <5>1. 2 * m = m + m /\ d + 1 <= 2 * m
          BY <1>2, <1>12
        <5> HIDE DEF b
        <5> QED BY <5>1, <3>1, <1>6
      <4>2. E[m + m] = T + T
        BY <3>1, <1>6
      <4> QED BY <4>1, <4>2, <1>4
    <3>5. E[c] + all - 1 * T \in 0..(T - 1) /\ E[b] = E[d] - 1 * T
      <4> HIDE DEF b, T
      <4>1. all \in Int /\ T \in Int
        BY <1>4, <1>9
      <4> QED BY <4>1, <3>3, <3>4, <1>13, <1>14
    <3> HIDE DEF b
    <3> QED BY <3>2, <3>5
  <2> QED BY <2>1, <2>2, <1>2, <1>12
<1>18. PICK j \in {0, 1} : E[d % m] = E[d] - j * T /\ E[c] + all - j * T \in 0..(T - 1)
  BY <1>17
<1>19. shone' = E[c] + all - j * T
  <2> DEFINE r == E[c] + all - j * T
             a == shone + timeDelta
  <2>1. E[c] + time = shone /\ all \in Int /\ T \in Int /\ time \in Int /\ timeDelta \in Int
    BY <1>2, <1>4, <1>9, <1>11
  <2> HIDE DEF T
  <2>2. a \in Int /\ r \in 0..(T - 1) /\ q + j \in Int /\ T \in Nat \ {0}
    BY <1>2, <1>4, <1>18
  <2>3. (q + j) * T = q * T + j * T /\ q * T \in Int /\ j * T \in Int
    BY <2>1
  <2>4. a = (q + j) * T + r
    <3> DEFINE x == q * T
               y == j * T
               e == E[c]
    <3>1. /\ a = shone + timeDelta /\ e + time = shone /\ time + timeDelta = x + all
          /\ r = e + all - y /\ (q + j) * T = x + y
          /\ x \in Int /\ y \in Int /\ e \in Int
      BY <2>1, <2>3, <1>8, <1>13
    <3> HIDE DEF x, y, e, a, r
    <3>2. a = (x + y) + r
      BY <3>1, <2>1
    <3> QED BY <3>1, <3>2
  <2> HIDE DEF a, r
  <2>5. a % T = r
    BY <2>2, <2>4, Remainders
  <2> QED BY <2>5, <1>3 DEF a, r
<1>20. E[d % m] + time' = shone'
  <2>1. all \in Int /\ j * T \in Int
    BY <1>4, <1>9
  <2> HIDE DEF T
  <2> QED BY <2>1, <1>13, <1>15, <1>18, <1>19
<1>21. shone' \in Nat
  BY <1>4, <1>18, <1>19
<1>22. /\ currentFrame' \in DOMAIN times' /\ time' < times'[currentFrame']
       /\ Elapsed'[currentFrame'] + time' = shone'
  BY <1>1, <1>3, <1>15, <1>16, <1>20 DEF E
<1>23. times' \in Lights /\ totalTime' > 0
  BY <1>3 DEF LightInv
<1> QED BY <1>15, <1>21, <1>22, <1>23 DEF LightInv

-----------------------------------------------------------------------------
CyclesInv == TextureInv /\ LightInv

LEMMA InitCyclesInv == CyclesInit => CyclesInv
<1> SUFFICES ASSUME CyclesInit PROVE CyclesInv
  OBVIOUS
<1>1. times \in Lights /\ totalTime > 0 /\ currentFrame = 0 /\ time = 0 /\ shone = 0
  BY DEF CyclesInit, Lights
<1>2. LightInv
  <2>1. PICK m \in 2..MaxFrames : times \in [0..(m - 1) -> 0..MaxTime] /\ DOMAIN times = 0..(m - 1)
    BY <1>1, LightIs
  <2>2. m \in Nat /\ m > 0 /\ 0 \in 0..(m - 1)
    BY CyclesAssumption
  <2>3. Elapsed[0] = 0
    BY <2>1, <2>2, ElapsedIs
  <2> QED BY <1>1, <2>1, <2>2, <2>3 DEF LightInv
<1>3. /\ texture \in [way : {"loop", "bounce", "blink"}, n : 1..MaxFrames]
      /\ frame = 0 /\ running = FALSE /\ blinkMode = 0 /\ shown = 0
      /\ backwards \in BOOLEAN /\ (backwards => texture.way = "loop")
  BY DEF CyclesInit
<1>4. n \in Nat \ {0}
  BY <1>3, CyclesAssumption DEF n
<1>5. frame \in 0..(n - 1) /\ shown \in 0..(n - 1)
  BY <1>3, <1>4
<1>6. (IF backwards THEN n - shown ELSE shown) % n = 0
  <2>1. 0 % n = 0 /\ (0 + n) % n = 0
    <3>1. 0 \in 0..(n - 1)
      BY <1>4
    <3> QED BY <3>1, <1>4, SmallRemainder
  <2>2. n - 0 = 0 + n
    BY <1>4
  <2> QED BY <2>1, <2>2, <1>3
<1>7. texture.way = "bounce" => Phase(frame, backwards) % (2 * n - 1) = shown
  <2>1. 2 * n - 1 \in Nat \ {0} /\ 0 \in 0..((2 * n - 1) - 1)
    BY <1>4
  <2>2. 0 % (2 * n - 1) = 0
    BY <2>1, SmallRemainder
  <2> QED BY <2>2, <1>3 DEF Phase
<1>8. texture.way = "blink" => IF running THEN Phase(frame, backwards) = shown ELSE frame = 0
  BY <1>3
<1>9. texture.way = "loop" =>
        frame = (IF backwards THEN n - shown ELSE shown) % n /\ shown \in 0..(n - 1)
  BY <1>3, <1>5, <1>6, Zenon
<1>10. TextureInv
  <2>1. 0 \in Nat /\ 0 \in 0..3
    OBVIOUS
  <2>2. shown \in Nat /\ blinkMode \in 0..3
    BY <2>1, <1>3, Zenon
  <2>3. running \in BOOLEAN
    BY <1>3, Zenon
  <2> QED BY <2>2, <2>3, <1>3, <1>5, <1>7, <1>8, <1>9, Zenon DEF TextureInv
<1> QED BY <1>2, <1>10 DEF CyclesInv

LEMMA NextCyclesInv == CyclesInv /\ [CyclesNext]_cyclesVars => CyclesInv'
<1> SUFFICES ASSUME CyclesInv, [CyclesNext]_cyclesVars PROVE CyclesInv'
  OBVIOUS
<1>t. UNCHANGED textureVars => TextureInv'
  BY DEF CyclesInv, TextureInv, textureVars, n, Phase, Turn
<1>l. UNCHANGED lightVars => LightInv'
  <2> SUFFICES ASSUME UNCHANGED lightVars PROVE LightInv'
    OBVIOUS
  <2>1. /\ times' = times /\ currentFrame' = currentFrame /\ time' = time /\ shone' = shone
        /\ Elapsed' = Elapsed /\ totalTime' = totalTime
    BY LightStays DEF lightVars
  <2> QED BY <2>1 DEF CyclesInv, LightInv
<1>1. CASE /\ \/ \E step \in Steps : Loop(step) \/ Bounce(step) \/ Blink(step)
              \/ BlinkStarts
              \/ SetBlink
           /\ UNCHANGED lightVars
  BY <1>1, <1>l, LoopKeepsTexture, BounceKeepsTexture, BlinkKeepsTexture, BlinkStartsKeepsTexture,
     SetBlinkKeepsTexture DEF CyclesInv
<1>2. CASE /\ resetMixCycle \/ \E timeDelta \in Steps : updateMixCycle(timeDelta)
           /\ UNCHANGED textureVars
  BY <1>2, <1>t, ResetKeepsLight, UpdateKeepsLight DEF CyclesInv
<1>3. CASE UNCHANGED cyclesVars
  <2>1. UNCHANGED textureVars /\ UNCHANGED lightVars
    BY <1>3 DEF cyclesVars
  <2> QED BY <2>1, <1>t, <1>l DEF CyclesInv
<1> QED BY <1>1, <1>2, <1>3 DEF CyclesNext

\* The types of animated textures and lights.
THEOREM CyclesTypes == CyclesSpec => []CyclesTypeOK
<1>1. CyclesInv => CyclesTypeOK
  <2> SUFFICES ASSUME CyclesInv PROVE CyclesTypeOK
    OBVIOUS
  <2>1. frame \in Nat
    BY FramesAre DEF CyclesInv
  <2>2. currentFrame \in Nat
    <3>1. PICK m \in 2..MaxFrames : DOMAIN times = 0..(m - 1)
      BY LightIs DEF CyclesInv, LightInv
    <3> QED BY <3>1 DEF CyclesInv, LightInv
  <2> QED BY <2>1, <2>2 DEF CyclesInv, TextureInv, LightInv, CyclesTypeOK
<1> QED BY <1>1, InitCyclesInv, NextCyclesInv, PTL DEF CyclesSpec

\* texAnimateTexture and updateMixCycle: a frame and a colour are those due after
\* what passed in all, however unevenly it passed.
THEOREM CyclesAlwaysKeepTime == CyclesSpec => []CyclesKeepTime
<1>1. CyclesInv => CyclesKeepTime
  BY DEF CyclesInv, TextureInv, LightInv, CyclesKeepTime, Phase
<1> QED BY <1>1, InitCyclesInv, NextCyclesInv, PTL DEF CyclesSpec
=============================================================================
