-------------------------- MODULE MemoryPoolProofs --------------------------
(***************************************************************************)
(* Proofs about MemoryPool: the slot list stays a well-formed cut of the   *)
(* pool whatever is allocated and freed, blocks never overlap, the pool    *)
(* implements AbstractHeap, the loop of mmFreeTick counts each delay once, *)
(* and FreeRAM is the number of free bytes, for every size of the pool, of *)
(* the slot table and of the queue.  The lemmas on cutting and merging     *)
(* slots come first, then those on the queue, the effects of the steps,    *)
(* the theorems, the loop, and last sums over sets and the free bytes.     *)
(***************************************************************************)
EXTENDS MCMemoryPool, FiniteSetTheorems, SequenceTheorems,
        WellFoundedInduction, NaturalsInduction, TLAPS

(* What every operation on the pool preserves.  The conjuncts on the stack *)
(* of unlinked slots are needed for the ones on the list: a slot number    *)
(* that was on both would be cut out of a free slot while in use.          *)
StackDistinct(p) ==
  \A j, k \in p.curNumSlots .. MaxSlots - 1 : p.index[j] = p.index[k] => j = k

Placed(p) ==
  \A i \in Linked(p) :
    /\ p.size[i] > 0
    /\ p.data[i] >= Base
    /\ p.data[i] + p.size[i] <= Base + PoolBytes

SlotsDisjoint(p) ==
  \A i, j \in Linked(p) :
    i # j => Apart(p.data[i], p.size[i], p.data[j], p.size[j])

PoolOK(p) ==
  /\ p \in Pools
  /\ StackDistinct(p)
  /\ Cardinality(Linked(p)) = p.curNumSlots
  /\ 0 \in Linked(p)
  /\ p.data[0] = Base
  /\ Links(p)
  /\ Placed(p)
  /\ SlotsDisjoint(p)

LEMMA SlotIdsFinite ==
  /\ IsFiniteSet(SlotIds)
  /\ Cardinality(SlotIds) = MaxSlots
  /\ NONE \notin SlotIds
  /\ 0 \in SlotIds
  /\ \A i \in SlotIds : i \in Nat
<1>1. MaxSlots \in Nat /\ MaxSlots >= 2
  BY PoolAssumption
<1>2. IsFiniteSet(0 .. MaxSlots - 1) /\ Cardinality(0 .. MaxSlots - 1) = MaxSlots
  BY <1>1, FS_Interval
<1>3. QED
  BY <1>1, <1>2 DEF SlotIds, NONE

LEMMA LinkedFinite ==
  ASSUME NEW p
  PROVE  /\ Linked(p) \subseteq SlotIds
         /\ IsFiniteSet(Linked(p))
         /\ Cardinality(Linked(p)) \in Nat
<1>1. Linked(p) \subseteq SlotIds
  BY DEF Linked
<1>2. QED
  BY <1>1, SlotIdsFinite, FS_Subset, FS_CardinalityType

(* The initial pool is one free slot.                                      *)
LEMMA InitialPoolOK == PoolOK(InitialPool) /\ UsedSlots(InitialPool) = {}
<1> DEFINE p == InitialPool
<1>0. MaxSlots \in Nat /\ MaxSlots >= 2 /\ Base \in Nat /\ PoolBytes \in Nat \ {0}
  BY PoolAssumption
<1>a. /\ p.data = [i \in SlotIds |-> IF i = 0 THEN Base ELSE 0]
      /\ p.size = [i \in SlotIds |-> IF i = 0 THEN PoolBytes ELSE 0]
      /\ p.flags = [i \in SlotIds |-> FREE]
      /\ p.prevIndex = [i \in SlotIds |-> NONE]
      /\ p.nextIndex = [i \in SlotIds |-> NONE]
      /\ p.index = [i \in SlotIds |-> i]
      /\ p.curNumSlots = 1
      /\ p.FreeRAM = PoolBytes
  BY DEF p, InitialPool
<1>b. p = [data |-> p.data, size |-> p.size, flags |-> p.flags,
           prevIndex |-> p.prevIndex, nextIndex |-> p.nextIndex,
           index |-> p.index, curNumSlots |-> p.curNumSlots,
           FreeRAM |-> p.FreeRAM]
  BY DEF p, InitialPool
<1> HIDE DEF p
<1>1. p \in Pools
  <2>1. p.data \in [SlotIds -> Nat] /\ p.size \in [SlotIds -> Nat]
    BY <1>0, <1>a
  <2>2. /\ p.flags \in [SlotIds -> {FREE, USED}]
        /\ p.prevIndex \in [SlotIds -> SlotIds \union {NONE}]
        /\ p.nextIndex \in [SlotIds -> SlotIds \union {NONE}]
        /\ p.index \in [SlotIds -> SlotIds]
    BY <1>a
  <2>3. p.curNumSlots \in 1 .. MaxSlots /\ p.FreeRAM \in Int
    BY <1>0, <1>a
  <2> QED
    BY <1>b, <2>1, <2>2, <2>3 DEF Pools
<1>2. Unlinked(p) = 1 .. MaxSlots - 1
  <2>1. \A k \in 1 .. MaxSlots - 1 : p.index[k] = k
    BY <1>0, <1>a DEF SlotIds
  <2>2. Unlinked(p) = {p.index[k] : k \in 1 .. MaxSlots - 1}
    BY <1>a DEF Unlinked
  <2> QED
    BY <2>1, <2>2
<1>3. Linked(p) = {0}
  BY <1>0, <1>2 DEF Linked, SlotIds
<1>4. Cardinality(Linked(p)) = 1
  BY <1>3, FS_Singleton
<1>5. StackDistinct(p)
  BY <1>0, <1>a DEF StackDistinct, SlotIds
<1>6. Links(p)
  BY <1>0, <1>3, <1>a DEF Links, SlotIds, NONE
<1>7. Placed(p) /\ SlotsDisjoint(p)
  BY <1>0, <1>3, <1>a DEF Placed, SlotsDisjoint, SlotIds
<1>8. p.data[0] = Base
  BY <1>0, <1>a DEF SlotIds
<1>9. UsedSlots(p) = {}
  BY <1>3, <1>a, SlotIdsFinite DEF UsedSlots, FREE, USED
<1> QED
  BY <1>1, <1>3, <1>4, <1>5, <1>6, <1>7, <1>8, <1>9, <1>a DEF PoolOK, p

(* The type of a pool, field by field. *)
LEMMA PoolFields ==
  ASSUME NEW p \in Pools
  PROVE  /\ p.data \in [SlotIds -> Nat]
         /\ p.size \in [SlotIds -> Nat]
         /\ p.flags \in [SlotIds -> {FREE, USED}]
         /\ p.prevIndex \in [SlotIds -> SlotIds \union {NONE}]
         /\ p.nextIndex \in [SlotIds -> SlotIds \union {NONE}]
         /\ p.index \in [SlotIds -> SlotIds]
         /\ p.curNumSlots \in 1 .. MaxSlots
         /\ p.FreeRAM \in Int
         /\ p.curNumSlots .. MaxSlots - 1 \subseteq SlotIds
<1>1. p.curNumSlots \in 1 .. MaxSlots
  BY DEF Pools
<1>2. p.curNumSlots .. MaxSlots - 1 \subseteq SlotIds
  BY <1>1, PoolAssumption DEF SlotIds
<1> QED
  BY <1>1, <1>2 DEF Pools

(* Cutting a slot in two takes the top of the stack and keeps the pool     *)
(* well formed.                                                            *)
LEMMA SplitOK ==
  ASSUME NEW p, PoolOK(p), NEW i \in Linked(p), NEW bytes \in Nat,
         0 < bytes, bytes < p.size[i], p.curNumSlots < MaxSlots,
         NEW taken \in {FREE, USED}, NEW restTaken \in {FREE, USED},
         NEW n, n = p.index[p.curNumSlots],
         NEW q, q = Split(p, i, bytes, taken, restTaken)
  PROVE  /\ n \in SlotIds \ Linked(p)
         /\ Linked(q) = Linked(p) \union {n}
         /\ PoolOK(q)
         /\ q.flags[n] = restTaken /\ q.flags[i] = taken
         /\ q.data[n] = p.data[i] + bytes
         /\ q.size[n] = p.size[i] - bytes
         /\ q.size[i] = bytes
         /\ q.nextIndex[n] = p.nextIndex[i] /\ q.nextIndex[i] = n
         /\ \A j \in SlotIds \ {n} : q.data[j] = p.data[j]
         /\ \A j \in SlotIds \ {n, i} : /\ q.size[j] = p.size[j]
                                        /\ q.nextIndex[j] = p.nextIndex[j]
                                        /\ q.flags[j] = p.flags[j]
         /\ q.FreeRAM = p.FreeRAM
         /\ q.curNumSlots = p.curNumSlots + 1
<1> DEFINE c == p.curNumSlots
           k == p.nextIndex[i]
<1>0. /\ MaxSlots \in Nat /\ MaxSlots >= 2 /\ c \in Nat /\ c >= 1 /\ c < MaxSlots
      /\ Base \in Nat /\ PoolBytes \in Nat
      /\ Linked(p) \subseteq SlotIds /\ i \in SlotIds
      /\ p \in Pools
  BY PoolAssumption, PoolFields, LinkedFinite DEF PoolOK
<1>1. n \in Unlinked(p) /\ n \in SlotIds /\ n \notin Linked(p) /\ n # i
  <2>1. c \in c .. MaxSlots - 1 /\ c \in SlotIds
    BY <1>0 DEF SlotIds
  <2>2. n \in SlotIds
    BY <1>0, <2>1, PoolFields
  <2>3. n \in Unlinked(p)
    BY <2>1 DEF Unlinked
  <2> QED
    BY <2>2, <2>3 DEF Linked
<1>2. /\ q.data = [p.data EXCEPT ![n] = p.data[i] + bytes]
      /\ q.size = [p.size EXCEPT ![n] = p.size[i] - bytes, ![i] = bytes]
      /\ q.flags = [p.flags EXCEPT ![n] = restTaken, ![i] = taken]
      /\ q.prevIndex = [j \in SlotIds |-> IF j = n THEN i
                                         ELSE IF j = k THEN n
                                         ELSE p.prevIndex[j]]
      /\ q.nextIndex = [p.nextIndex EXCEPT ![n] = k, ![i] = n]
      /\ q.index = p.index
      /\ q.curNumSlots = c + 1
      /\ q.FreeRAM = p.FreeRAM
      /\ q = [data |-> q.data, size |-> q.size, flags |-> q.flags,
              prevIndex |-> q.prevIndex, nextIndex |-> q.nextIndex,
              index |-> q.index, curNumSlots |-> q.curNumSlots,
              FreeRAM |-> q.FreeRAM]
  BY DEF Split
<1>3. p.size[i] \in Nat /\ p.data[i] \in Nat /\ k \in SlotIds \union {NONE}
  BY <1>0, PoolFields
<1>4. q \in Pools
  <2>1. q.data \in [SlotIds -> Nat] /\ q.size \in [SlotIds -> Nat]
    BY <1>0, <1>1, <1>2, <1>3, PoolFields
  <2>2. q.flags \in [SlotIds -> {FREE, USED}]
    BY <1>0, <1>1, <1>2, PoolFields
  <2>3. /\ q.prevIndex \in [SlotIds -> SlotIds \union {NONE}]
        /\ q.nextIndex \in [SlotIds -> SlotIds \union {NONE}]
        /\ q.index \in [SlotIds -> SlotIds]
    BY <1>0, <1>1, <1>2, <1>3, PoolFields
  <2>4. q.curNumSlots \in 1 .. MaxSlots /\ q.FreeRAM \in Int
    BY <1>0, <1>2, PoolFields
  <2> QED
    BY <1>2, <2>1, <2>2, <2>3, <2>4 DEF Pools
<1>5. Unlinked(q) = Unlinked(p) \ {n}
  BY <1>0, <1>2 DEF Unlinked, PoolOK, StackDistinct
<1>6. Linked(q) = Linked(p) \union {n}
  BY <1>1, <1>5 DEF Linked
<1>7. StackDistinct(q)
  BY <1>0, <1>2 DEF StackDistinct, PoolOK
<1>8. Cardinality(Linked(q)) = q.curNumSlots
  <2>1. Cardinality(Linked(p) \union {n}) = Cardinality(Linked(p)) + 1
    BY <1>1, LinkedFinite, FS_AddElement
  <2> QED
    BY <1>2, <1>6, <2>1 DEF PoolOK
<1>9. /\ q.data[n] = p.data[i] + bytes
      /\ q.size[n] = p.size[i] - bytes
      /\ q.size[i] = bytes
      /\ q.nextIndex[n] = k /\ q.nextIndex[i] = n
      /\ q.prevIndex[n] = i
      /\ \A j \in SlotIds \ {n} : q.data[j] = p.data[j]
      /\ \A j \in SlotIds \ {n, i} : /\ q.size[j] = p.size[j]
                                     /\ q.nextIndex[j] = p.nextIndex[j]
      /\ \A j \in SlotIds \ {n, k} : q.prevIndex[j] = p.prevIndex[j]
      /\ k # NONE => q.prevIndex[k] = n
  <2>1. k # NONE => k # n
    BY <1>0, <1>1 DEF PoolOK, Links
  <2> QED
    BY <1>0, <1>1, <1>2, <1>3, <2>1, PoolFields
<1>9a. /\ q.flags[n] = restTaken /\ q.flags[i] = taken
       /\ \A j \in SlotIds \ {n, i} : q.flags[j] = p.flags[j]
  BY <1>0, <1>1, <1>2, PoolFields
<1>10. Links(q)
  <2>1. \A j \in Linked(p) : j \in SlotIds /\ j # n
    BY <1>0, <1>1
  <2>2. ASSUME NEW j \in Linked(q)
        PROVE  /\ q.nextIndex[j] # NONE =>
                    /\ q.nextIndex[j] \in Linked(q)
                    /\ q.prevIndex[q.nextIndex[j]] = j
                    /\ q.data[q.nextIndex[j]] = q.data[j] + q.size[j]
               /\ q.nextIndex[j] = NONE => q.data[j] + q.size[j] = Base + PoolBytes
    <3>1. CASE j = n
      BY <1>0, <1>1, <1>3, <1>6, <1>9, <2>1, <3>1 DEF PoolOK, Links
    <3>2. CASE j = i
      BY <1>0, <1>1, <1>3, <1>6, <1>9, <2>1, <3>2, SlotIdsFinite DEF PoolOK, Links
    <3>3. CASE j # n /\ j # i
      <4>1. j \in Linked(p)
        BY <1>6, <3>3
      <4>2. p.nextIndex[j] # NONE => p.nextIndex[j] # k \/ k = NONE
        BY <4>1, <3>3 DEF PoolOK, Links
      <4> QED
        BY <1>0, <1>1, <1>3, <1>6, <1>9, <2>1, <3>3, <4>1, <4>2 DEF PoolOK, Links
    <3> QED
      BY <3>1, <3>2, <3>3
  <2>3. ASSUME NEW j \in Linked(q)
        PROVE  /\ q.prevIndex[j] # NONE =>
                    /\ q.prevIndex[j] \in Linked(q)
                    /\ q.nextIndex[q.prevIndex[j]] = j
               /\ q.prevIndex[j] = NONE <=> j = 0
    <3>0. i # NONE /\ n # NONE /\ 0 # n
      BY <1>0, <1>1, SlotIdsFinite DEF PoolOK
    <3>1. CASE j = n
      BY <1>0, <1>1, <1>3, <1>6, <1>9, <2>1, <3>1, <3>0 DEF PoolOK, Links
    <3>2. CASE j # n /\ j = k
      <4>1. p.prevIndex[j] = i
        BY <3>2, SlotIdsFinite, <1>0, <1>6 DEF PoolOK, Links
      <4> QED
        BY <1>0, <1>1, <1>3, <1>6, <1>9, <2>1, <3>2, <3>0, <4>1, SlotIdsFinite
           DEF PoolOK, Links
    <3>3. CASE j # n /\ j # k
      <4>1. j \in Linked(p) /\ p.prevIndex[j] # i
        BY <1>6, <3>3, <3>0 DEF PoolOK, Links
      <4> QED
        BY <1>0, <1>1, <1>3, <1>6, <1>9, <2>1, <3>3, <4>1, <3>0 DEF PoolOK, Links
    <3> QED
      BY <3>1, <3>2, <3>3
  <2> QED
    BY <2>2, <2>3 DEF Links
<1>11. Placed(q)
  BY <1>0, <1>1, <1>3, <1>6, <1>9, PoolFields DEF Placed, PoolOK
<1>12. SlotsDisjoint(q)
  <2>1. \A j \in Linked(p) : p.data[j] \in Nat /\ p.size[j] \in Nat /\ j \in SlotIds /\ j # n
    BY <1>0, <1>1, PoolFields
  <2>2. SUFFICES ASSUME NEW a \in Linked(q), NEW b \in Linked(q), a # b
                 PROVE  Apart(q.data[a], q.size[a], q.data[b], q.size[b])
    BY DEF SlotsDisjoint
  <2>3. CASE a = n \/ b = n
    BY <1>1, <1>3, <1>6, <1>9, <2>1, <2>2, <2>3 DEF SlotsDisjoint, Apart, PoolOK
  <2>4. CASE a # n /\ b # n
    BY <1>1, <1>3, <1>6, <1>9, <2>1, <2>2, <2>4 DEF SlotsDisjoint, Apart, PoolOK
  <2> QED
    BY <2>3, <2>4
<1>13. 0 \in Linked(q) /\ q.data[0] = Base
  BY <1>1, <1>6, <1>9, SlotIdsFinite DEF PoolOK
<1>14. PoolOK(q)
  BY <1>4, <1>6, <1>7, <1>8, <1>10, <1>11, <1>12, <1>13 DEF PoolOK
<1> QED
  BY <1>1, <1>2, <1>6, <1>9, <1>9a, <1>14

-----------------------------------------------------------------------------
(* Walks of the list. *)

Reached(p) == Linked(p) \subseteq Chain(p)

(* A walk of the list meets linked slots only. *)
LEMMA ChainLinked ==
  ASSUME NEW p, PoolOK(p)
  PROVE  Chain(p) \subseteq Linked(p)
<1>1. Linked(p) \in SUBSET SlotIds /\ 0 \in Linked(p)
  BY LinkedFinite DEF PoolOK
<1>2. ClosedUnderNext(p, Linked(p))
  BY DEF ClosedUnderNext, PoolOK, Links
<1> QED
  BY <1>1, <1>2 DEF Chain, WalkFrom

(* The list only depends on the links, and well-formedness not on the      *)
(* flags or on FreeRAM.                                                    *)
LEMMA SameShape ==
  ASSUME NEW p, PoolOK(p), Reached(p), NEW q \in Pools,
         q.data = p.data, q.size = p.size, q.prevIndex = p.prevIndex,
         q.nextIndex = p.nextIndex, q.index = p.index,
         q.curNumSlots = p.curNumSlots
  PROVE  PoolOK(q) /\ Reached(q) /\ Linked(q) = Linked(p)
<1>1. Linked(q) = Linked(p)
  BY DEF Linked, Unlinked
<1>2. Chain(q) = Chain(p)
  BY DEF Chain, WalkFrom, ClosedUnderNext
<1>3. StackDistinct(q) /\ Links(q) /\ Placed(q) /\ SlotsDisjoint(q)
  BY <1>1 DEF PoolOK, StackDistinct, Links, Placed, SlotsDisjoint
<1> QED
  BY <1>1, <1>2, <1>3 DEF PoolOK, Reached

(* A slot cut in two stays on the walk, and so does its new neighbour.     *)
LEMMA SplitReached ==
  ASSUME NEW p, PoolOK(p), Reached(p), NEW i \in Linked(p), NEW bytes \in Nat,
         0 < bytes, bytes < p.size[i], p.curNumSlots < MaxSlots,
         NEW taken \in {FREE, USED}, NEW restTaken \in {FREE, USED},
         NEW q, q = Split(p, i, bytes, taken, restTaken)
  PROVE  Reached(q)
<1> DEFINE n == p.index[p.curNumSlots]
<1>0. /\ n \in SlotIds \ Linked(p)
      /\ Linked(q) = Linked(p) \union {n}
      /\ q.nextIndex[n] = p.nextIndex[i] /\ q.nextIndex[i] = n
      /\ \A j \in SlotIds \ {n, i} : q.nextIndex[j] = p.nextIndex[j]
  BY SplitOK
<1>1. Linked(p) \subseteq SlotIds
  BY LinkedFinite
<1> HIDE DEF n
<1>2. SUFFICES ASSUME NEW S \in SUBSET SlotIds, 0 \in S, ClosedUnderNext(q, S)
               PROVE  Linked(q) \subseteq S
  BY <1>0, <1>1 DEF Reached, Chain, WalkFrom
<1> DEFINE T == S \ {n}
<1>3. 0 \in T
  BY <1>0, <1>2 DEF PoolOK
<1>4. ClosedUnderNext(p, T \intersect Linked(p))
  <2>1. SUFFICES ASSUME NEW j \in T \intersect Linked(p), p.nextIndex[j] # NONE
                 PROVE  p.nextIndex[j] \in T \intersect Linked(p)
    BY DEF ClosedUnderNext
  <2>2. p.nextIndex[j] \in Linked(p) /\ p.nextIndex[j] # n
    BY <1>0, <2>1 DEF PoolOK, Links
  <2>3. p.nextIndex[j] \in S
    <3>1. CASE j = i
      <4>1. n # NONE
        BY <1>0, SlotIdsFinite
      <4>2. n \in S
        BY <1>0, <1>2, <2>1, <3>1, <4>1 DEF ClosedUnderNext
      <4> QED
        BY <1>0, <1>2, <2>1, <3>1, <4>2 DEF ClosedUnderNext
    <3>2. CASE j # i
      BY <1>0, <1>1, <1>2, <2>1, <3>2 DEF ClosedUnderNext
    <3> QED
      BY <3>1, <3>2
  <2> QED
    BY <2>2, <2>3
<1>5. Linked(p) \subseteq T
  BY <1>1, <1>3, <1>4 DEF Reached, Chain, WalkFrom, PoolOK
<1>6. n \in S
  <2>1. n # NONE /\ i \in S
    BY <1>0, <1>5, SlotIdsFinite
  <2> QED
    BY <1>0, <1>2, <2>1 DEF ClosedUnderNext
<1> QED
  BY <1>0, <1>5, <1>6

(* mempool_slot_assign on a slot that is large enough, when a slot number  *)
(* is left for the rest: the slot gets its size and flags, the rest, if    *)
(* any, is the one new slot, and all other slots keep their place.         *)
LEMMA AssignOK ==
  ASSUME NEW p, PoolOK(p), Reached(p), NEW i \in Linked(p), NEW bytes \in Nat,
         0 < bytes, bytes <= p.size[i],
         bytes < p.size[i] => p.curNumSlots < MaxSlots,
         NEW taken \in {FREE, USED}, NEW restTaken \in {FREE, USED},
         NEW n, n = p.index[p.curNumSlots],
         NEW q, q = mempool_slot_assign(p, i, bytes, taken, restTaken)
  PROVE  /\ PoolOK(q) /\ Reached(q)
         /\ i \in Linked(q) /\ q.flags[i] = taken
         /\ q.size[i] = bytes /\ q.data[i] = p.data[i]
         /\ \A j \in Linked(p) : q.data[j] = p.data[j]
         /\ \A j \in Linked(p) \ {i} : /\ q.size[j] = p.size[j]
                                        /\ q.nextIndex[j] = p.nextIndex[j]
                                        /\ q.flags[j] = p.flags[j]
         /\ bytes = p.size[i] => /\ Linked(q) = Linked(p)
                                 /\ q.nextIndex[i] = p.nextIndex[i]
         /\ bytes < p.size[i] =>
              /\ n \in SlotIds \ Linked(p)
              /\ Linked(q) = Linked(p) \union {n}
              /\ q.flags[n] = restTaken
              /\ q.data[n] = p.data[i] + bytes
              /\ q.size[n] = p.size[i] - bytes
              /\ q.nextIndex[i] = n /\ q.nextIndex[n] = p.nextIndex[i]
              /\ q.curNumSlots = p.curNumSlots + 1
<1> DEFINE r == IF bytes < p.size[i]
                THEN Split(p, i, bytes, taken, restTaken)
                ELSE TakeWhole(p, i, taken)
<1>0. /\ Linked(p) \subseteq SlotIds /\ i \in SlotIds /\ p \in Pools
      /\ p.size[i] \in Nat
  BY LinkedFinite, PoolFields DEF PoolOK
<1>1. q = [r EXCEPT !.FreeRAM = IF taken = USED THEN @ - bytes ELSE @]
  BY DEF mempool_slot_assign
<1>2. ASSUME r \in Pools, PoolOK(r), Reached(r)
      PROVE  /\ PoolOK(q) /\ Reached(q) /\ Linked(q) = Linked(r)
             /\ q.data = r.data /\ q.size = r.size /\ q.flags = r.flags
             /\ q.nextIndex = r.nextIndex /\ q.curNumSlots = r.curNumSlots
  <2> HIDE DEF r
  <2>1. /\ q.data = r.data /\ q.size = r.size /\ q.flags = r.flags
        /\ q.nextIndex = r.nextIndex /\ q.prevIndex = r.prevIndex
        /\ q.index = r.index /\ q.curNumSlots = r.curNumSlots
        /\ q \in Pools
    BY <1>1, <1>2 DEF Pools
  <2> QED
    BY <1>2, <2>1, SameShape
<1>3. CASE bytes < p.size[i]
  <2>1. r = Split(p, i, bytes, taken, restTaken)
    BY <1>3
  <2>2. PoolOK(r) /\ Reached(r) /\ r \in Pools
    BY <1>3, <2>1, SplitOK, SplitReached DEF PoolOK
  <2> HIDE DEF r
  <2>3. /\ n \in SlotIds \ Linked(p)
        /\ Linked(r) = Linked(p) \union {n}
        /\ r.flags[n] = restTaken /\ r.flags[i] = taken
        /\ r.data[n] = p.data[i] + bytes
        /\ r.size[n] = p.size[i] - bytes
        /\ r.size[i] = bytes
        /\ r.nextIndex[n] = p.nextIndex[i] /\ r.nextIndex[i] = n
        /\ \A j \in SlotIds \ {n} : r.data[j] = p.data[j]
        /\ \A j \in SlotIds \ {n, i} : /\ r.size[j] = p.size[j]
                                        /\ r.nextIndex[j] = p.nextIndex[j]
                                        /\ r.flags[j] = p.flags[j]
        /\ r.curNumSlots = p.curNumSlots + 1
    BY <1>3, <2>1, SplitOK
  <2> QED
    BY <1>0, <1>2, <1>3, <2>2, <2>3
<1>4. CASE bytes = p.size[i]
  <2>1. r = [p EXCEPT !.flags = [@ EXCEPT ![i] = taken]]
    BY <1>0, <1>4 DEF TakeWhole
  <2> HIDE DEF r
  <2>2. /\ r \in Pools
        /\ r.data = p.data /\ r.size = p.size /\ r.nextIndex = p.nextIndex
        /\ r.prevIndex = p.prevIndex /\ r.index = p.index
        /\ r.curNumSlots = p.curNumSlots
        /\ r.flags = [p.flags EXCEPT ![i] = taken]
    BY <1>0, <2>1 DEF Pools
  <2>3. PoolOK(r) /\ Reached(r) /\ Linked(r) = Linked(p)
    BY <2>2, SameShape
  <2> QED
    BY <1>0, <1>2, <1>4, <2>2, <2>3, PoolFields
<1> QED
  BY <1>0, <1>3, <1>4

-----------------------------------------------------------------------------
(* Merging. *)

(* A slot that swallows its successor leaves a well-formed pool without    *)
(* the successor, whose number is on the stack again.                      *)
LEMMA AbsorbOK ==
  ASSUME NEW p, PoolOK(p), NEW a \in Linked(p),
         NEW b, b = p.nextIndex[a], b # NONE,
         NEW q, q = Absorb(p, a, b)
  PROVE  /\ PoolOK(q)
         /\ b \in Linked(p) /\ b # a
         /\ Linked(q) = Linked(p) \ {b}
         /\ q.data = p.data /\ q.flags = p.flags
         /\ q.size[a] = p.size[a] + p.size[b]
         /\ q.nextIndex[a] = p.nextIndex[b]
         /\ \A j \in SlotIds \ {a} : /\ q.size[j] = p.size[j]
                                     /\ q.nextIndex[j] = p.nextIndex[j]
<1> DEFINE c == p.curNumSlots
           k == p.nextIndex[b]
<1>0. /\ MaxSlots \in Nat /\ MaxSlots >= 2 /\ c \in Nat /\ c >= 1 /\ c <= MaxSlots
      /\ Base \in Nat /\ PoolBytes \in Nat
      /\ Linked(p) \subseteq SlotIds /\ a \in SlotIds
      /\ p \in Pools
      /\ b \in Linked(p) /\ b \in SlotIds
      /\ p.prevIndex[b] = a /\ p.data[b] = p.data[a] + p.size[a]
      /\ k \in SlotIds \union {NONE}
  BY PoolAssumption, PoolFields, LinkedFinite DEF PoolOK, Links
<1>1. /\ p.size[a] \in Nat /\ p.size[b] \in Nat /\ p.data[a] \in Nat /\ p.data[b] \in Nat
      /\ p.size[a] > 0 /\ p.size[b] > 0
      /\ a # b /\ b # 0
  <2>1. /\ p.size[a] \in Nat /\ p.size[b] \in Nat
        /\ p.data[a] \in Nat /\ p.data[b] \in Nat
        /\ p.size[a] > 0 /\ p.size[b] > 0
    BY <1>0, PoolFields DEF PoolOK, Placed
  <2>2. a # b
    BY <1>0, <2>1
  <2>3. b # 0
    BY <1>0, SlotIdsFinite DEF PoolOK, Links
  <2> QED
    BY <2>1, <2>2, <2>3
<1>2. /\ q.data = p.data
      /\ q.size = [p.size EXCEPT ![a] = p.size[a] + p.size[b]]
      /\ q.flags = p.flags
      /\ q.prevIndex = [j \in SlotIds |-> IF j = k THEN a ELSE p.prevIndex[j]]
      /\ q.nextIndex = [p.nextIndex EXCEPT ![a] = k]
      /\ q.index = [p.index EXCEPT ![c - 1] = b]
      /\ q.curNumSlots = c - 1
      /\ q.FreeRAM = p.FreeRAM
      /\ q = [data |-> q.data, size |-> q.size, flags |-> q.flags,
              prevIndex |-> q.prevIndex, nextIndex |-> q.nextIndex,
              index |-> q.index, curNumSlots |-> q.curNumSlots,
              FreeRAM |-> q.FreeRAM]
  BY DEF Absorb
<1>3. c >= 2
  <2>1. Cardinality({a, b}) = 2
    <3>1. {a, b} = {a} \union {b} /\ b \notin {a}
      BY <1>1
    <3>2. IsFiniteSet({a}) /\ Cardinality({a}) = 1
      BY FS_Singleton
    <3>3. Cardinality({a} \union {b}) = 1 + 1
      BY <3>1, <3>2, FS_AddElement
    <3> QED
      BY <3>1, <3>3
  <2>2. Cardinality({a, b}) <= Cardinality(Linked(p))
    BY <1>0, LinkedFinite, FS_Subset
  <2> QED
    BY <2>1, <2>2 DEF PoolOK
<1>4. q \in Pools
  <2>1. q.data \in [SlotIds -> Nat] /\ q.size \in [SlotIds -> Nat]
    BY <1>0, <1>1, <1>2, PoolFields
  <2>2. q.flags \in [SlotIds -> {FREE, USED}]
    BY <1>0, <1>2, PoolFields
  <2>3. /\ q.prevIndex \in [SlotIds -> SlotIds \union {NONE}]
        /\ q.nextIndex \in [SlotIds -> SlotIds \union {NONE}]
    BY <1>0, <1>2, PoolFields
  <2>3a. q.index \in [SlotIds -> SlotIds]
    <3>1. \A x : [p.index EXCEPT ![x] = b] \in [SlotIds -> SlotIds]
      BY <1>0, PoolFields
    <3> QED
      BY <1>2, <3>1
  <2>4. q.curNumSlots \in 1 .. MaxSlots /\ q.FreeRAM \in Int
    BY <1>0, <1>2, <1>3, PoolFields
  <2> QED
    BY <1>2, <2>1, <2>2, <2>3, <2>3a, <2>4 DEF Pools
<1>5. /\ c - 1 \in SlotIds
      /\ q.index[c - 1] = b
      /\ \A m \in c .. MaxSlots - 1 : m \in SlotIds /\ q.index[m] = p.index[m]
      /\ (c - 1) .. MaxSlots - 1 = (c .. MaxSlots - 1) \union {c - 1}
  <2>1. c - 1 \in SlotIds /\ \A m \in c .. MaxSlots - 1 : m \in SlotIds /\ m # c - 1
    BY <1>0, <1>3 DEF SlotIds
  <2>2. (c - 1) .. MaxSlots - 1 = (c .. MaxSlots - 1) \union {c - 1}
    BY <1>0, <1>3
  <2> QED
    BY <1>0, <1>2, <2>1, <2>2, PoolFields
<1>6. Unlinked(q) = Unlinked(p) \union {b}
  <2>1. Unlinked(q) = {q.index[m] : m \in (c - 1) .. MaxSlots - 1}
    BY <1>2 DEF Unlinked
  <2> QED
    BY <1>5, <2>1 DEF Unlinked
<1>7. Linked(q) = Linked(p) \ {b}
  BY <1>6 DEF Linked
<1>8. StackDistinct(q)
  <2>1. \A m \in c .. MaxSlots - 1 : p.index[m] # b
    BY <1>0 DEF Linked, Unlinked
  <2> QED
    BY <1>2, <1>5, <2>1 DEF StackDistinct, PoolOK
<1>9. Cardinality(Linked(q)) = q.curNumSlots
  <2>1. Cardinality(Linked(p) \ {b}) = Cardinality(Linked(p)) - 1
    BY <1>0, LinkedFinite, FS_RemoveElement
  <2> QED
    BY <1>2, <1>7, <2>1 DEF PoolOK
<1>10. /\ q.size[a] = p.size[a] + p.size[b]
       /\ q.nextIndex[a] = k
       /\ \A j \in SlotIds \ {a} : /\ q.size[j] = p.size[j]
                                   /\ q.nextIndex[j] = p.nextIndex[j]
       /\ \A j \in SlotIds \ {k} : q.prevIndex[j] = p.prevIndex[j]
       /\ k # NONE => q.prevIndex[k] = a /\ k \in Linked(p) /\ p.prevIndex[k] = b
  BY <1>0, <1>1, <1>2, PoolFields DEF PoolOK, Links
<1>11. Links(q)
  <2>1. \A j \in Linked(p) : j \in SlotIds
    BY <1>0
  <2>2. ASSUME NEW j \in Linked(q)
        PROVE  /\ q.nextIndex[j] # NONE =>
                    /\ q.nextIndex[j] \in Linked(q)
                    /\ q.prevIndex[q.nextIndex[j]] = j
                    /\ q.data[q.nextIndex[j]] = q.data[j] + q.size[j]
               /\ q.nextIndex[j] = NONE => q.data[j] + q.size[j] = Base + PoolBytes
    <3>1. CASE j = a
      <4>1. k # b
        BY <1>0, <1>1, <1>10 DEF PoolOK, Links
      <4>2. k # NONE => p.data[k] = p.data[b] + p.size[b]
        BY <1>0 DEF PoolOK, Links
      <4>3. k = NONE => p.data[b] + p.size[b] = Base + PoolBytes
        BY <1>0 DEF PoolOK, Links
      <4> QED
        BY <1>0, <1>1, <1>2, <1>7, <1>10, <3>1, <4>1, <4>2, <4>3
    <3>2. CASE j # a
      <4>1. j \in Linked(p) /\ j # b /\ j \in SlotIds
        BY <1>7, <2>1
      <4>2. p.nextIndex[j] # NONE => p.nextIndex[j] # b /\ p.nextIndex[j] # k
        BY <1>0, <1>10, <3>2, <4>1 DEF PoolOK, Links
      <4>3. q.nextIndex[j] = p.nextIndex[j] /\ q.size[j] = p.size[j]
        BY <1>10, <3>2, <4>1
      <4>4. p.nextIndex[j] # NONE =>
              /\ p.nextIndex[j] \in Linked(p)
              /\ p.prevIndex[p.nextIndex[j]] = j
              /\ p.data[p.nextIndex[j]] = p.data[j] + p.size[j]
        BY <4>1 DEF PoolOK, Links
      <4>5. p.nextIndex[j] = NONE => p.data[j] + p.size[j] = Base + PoolBytes
        BY <4>1 DEF PoolOK, Links
      <4> QED
        BY <1>2, <1>7, <1>10, <2>1, <4>2, <4>3, <4>4, <4>5
    <3> QED
      BY <3>1, <3>2
  <2>3. ASSUME NEW j \in Linked(q)
        PROVE  /\ q.prevIndex[j] # NONE =>
                    /\ q.prevIndex[j] \in Linked(q)
                    /\ q.nextIndex[q.prevIndex[j]] = j
               /\ q.prevIndex[j] = NONE <=> j = 0
    <3>1. j \in Linked(p) /\ j # b /\ j \in SlotIds /\ a # NONE
      BY <1>0, <1>7, <2>1, SlotIdsFinite
    <3>2. CASE j = k
      <4>1. j # NONE /\ p.prevIndex[j] = b /\ b # NONE
        BY <1>10, <3>1, <3>2, SlotIdsFinite, <1>0
      <4>2. j # 0
        BY <3>1, <4>1 DEF PoolOK, Links
      <4> QED
        BY <1>0, <1>1, <1>7, <1>10, <3>1, <3>2, <4>1, <4>2
    <3>3. CASE j # k
      <4>1. q.prevIndex[j] = p.prevIndex[j]
        BY <1>10, <3>1, <3>3
      <4>2. p.prevIndex[j] # b
        BY <3>1, <3>3, <1>0, SlotIdsFinite DEF PoolOK, Links
      <4>3. p.prevIndex[j] # NONE => p.prevIndex[j] # a
        BY <3>1 DEF PoolOK, Links
      <4>4. /\ p.prevIndex[j] # NONE =>
                 p.prevIndex[j] \in Linked(p) /\ p.nextIndex[p.prevIndex[j]] = j
            /\ p.prevIndex[j] = NONE <=> j = 0
        BY <3>1 DEF PoolOK, Links
      <4> QED
        BY <1>0, <1>7, <1>10, <4>1, <4>2, <4>3, <4>4
    <3> QED
      BY <3>2, <3>3
  <2> QED
    BY <2>2, <2>3 DEF Links
<1>12. Placed(q)
  BY <1>0, <1>1, <1>2, <1>7, <1>10, PoolFields DEF Placed, PoolOK
<1>13. SlotsDisjoint(q)
  <2>1. \A j \in Linked(p) : p.data[j] \in Nat /\ p.size[j] \in Nat /\ j \in SlotIds /\ p.size[j] > 0
    BY <1>0, PoolFields DEF PoolOK, Placed
  <2>2. SUFFICES ASSUME NEW i \in Linked(q), NEW j \in Linked(q), i # j
                 PROVE  Apart(p.data[i], q.size[i], p.data[j], q.size[j])
    BY <1>2 DEF SlotsDisjoint
  <2>3. i \in Linked(p) \ {b} /\ j \in Linked(p) \ {b}
    BY <1>7, <2>2
  <2>4. /\ Apart(p.data[i], p.size[i], p.data[j], p.size[j])
        /\ Apart(p.data[i], p.size[i], p.data[b], p.size[b])
        /\ Apart(p.data[b], p.size[b], p.data[j], p.size[j])
    BY <1>0, <2>2, <2>3 DEF PoolOK, SlotsDisjoint
  <2> QED
    BY <1>0, <1>1, <1>10, <2>1, <2>2, <2>3, <2>4 DEF Apart
<1>14. 0 \in Linked(q) /\ q.data[0] = Base
  BY <1>1, <1>2, <1>7 DEF PoolOK
<1>15. PoolOK(q)
  BY <1>4, <1>8, <1>9, <1>11, <1>12, <1>13, <1>14 DEF PoolOK
<1> QED
  BY <1>0, <1>1, <1>2, <1>7, <1>10, <1>15

(* No slot is lost by merging: what the walk met before it meets still,    *)
(* except the swallowed slot.                                              *)
LEMMA AbsorbReached ==
  ASSUME NEW p, PoolOK(p), Reached(p), NEW a \in Linked(p),
         NEW b, b = p.nextIndex[a], b # NONE,
         NEW q, q = Absorb(p, a, b)
  PROVE  Reached(q)
<1>0. /\ Linked(p) \subseteq SlotIds
      /\ b \in Linked(p) /\ b # a
      /\ Linked(q) = Linked(p) \ {b}
      /\ q.nextIndex[a] = p.nextIndex[b]
      /\ \A j \in SlotIds \ {a} : q.nextIndex[j] = p.nextIndex[j]
  BY AbsorbOK, LinkedFinite
<1>1. SUFFICES ASSUME NEW S \in SUBSET SlotIds, 0 \in S, ClosedUnderNext(q, S)
               PROVE  Linked(q) \subseteq S
  BY <1>0 DEF Reached, Chain, WalkFrom
<1> DEFINE T == IF a \in S THEN S \union {b} ELSE S \ {b}
<1>2. T \subseteq S \union {b} /\ T \in SUBSET SlotIds /\ 0 \in T
  BY <1>0, <1>1, SlotIdsFinite DEF PoolOK, Links
<1>3. ClosedUnderNext(p, T \intersect Linked(p))
  <2>1. SUFFICES ASSUME NEW j \in T \intersect Linked(p), p.nextIndex[j] # NONE
                 PROVE  p.nextIndex[j] \in T
    BY DEF ClosedUnderNext, PoolOK, Links
  <2>2. p.nextIndex[j] \in Linked(p) /\ p.prevIndex[p.nextIndex[j]] = j
    BY <2>1 DEF PoolOK, Links
  <2>3. CASE j = a
    BY <1>0, <2>1, <2>3
  <2>4. CASE j = b
    <3>1. a \in S
      BY <2>1, <2>4
    <3> QED
      BY <1>0, <1>1, <2>1, <2>4, <3>1 DEF ClosedUnderNext
  <2>5. CASE j # a /\ j # b
    <3>1. j \in S /\ p.nextIndex[j] \in S
      BY <1>0, <1>1, <1>2, <2>1, <2>5 DEF ClosedUnderNext
    <3>2. p.nextIndex[j] # b
      BY <2>1, <2>2, <2>5, <1>0 DEF PoolOK, Links
    <3> QED
      BY <3>1, <3>2
  <2> QED
    BY <2>3, <2>4, <2>5
<1>4. Linked(p) \subseteq T
  BY <1>0, <1>2, <1>3 DEF Reached, Chain, WalkFrom, PoolOK
<1> QED
  BY <1>0, <1>2, <1>4

(* mempool_slot_clear gives the slot's memory back and disturbs no other   *)
(* used slot; free neighbours are merged.                                  *)
LEMMA ClearOK ==
  ASSUME NEW p, PoolOK(p), Reached(p), Coalesced(p), NEW i \in UsedSlots(p),
         NEW q, q = mempool_slot_clear(p, i)
  PROVE  /\ PoolOK(q) /\ Reached(q) /\ Coalesced(q)
         /\ UsedSlots(q) = UsedSlots(p) \ {i}
         /\ \A j \in UsedSlots(q) : q.data[j] = p.data[j] /\ q.size[j] = p.size[j]
<1> DEFINE f == MarkFree(p, i)
           g == AbsorbNext(f, i)
           Settled(r) == \A j \in Linked(r) :
                           /\ r.flags[j] = FREE
                           /\ r.nextIndex[j] # NONE
                           /\ r.nextIndex[j] # i
                           => r.flags[r.nextIndex[j]] # FREE
           SettledBut(r) == \A j \in Linked(r) :
                              /\ r.flags[j] = FREE /\ j # i
                              /\ r.nextIndex[j] # NONE
                              /\ r.nextIndex[j] # i
                              => r.flags[r.nextIndex[j]] # FREE
<1>0. /\ i \in Linked(p) /\ i \in SlotIds /\ p \in Pools /\ p.flags[i] = USED
      /\ Linked(p) \subseteq SlotIds
      /\ USED # FREE
  BY LinkedFinite DEF UsedSlots, PoolOK, USED, FREE
<1>1. /\ f \in Pools
      /\ f.data = p.data /\ f.size = p.size /\ f.nextIndex = p.nextIndex
      /\ f.prevIndex = p.prevIndex /\ f.index = p.index
      /\ f.curNumSlots = p.curNumSlots
      /\ f.flags = [p.flags EXCEPT ![i] = FREE]
  <2>1. p.FreeRAM + p.size[i] \in Int
    BY <1>0, PoolFields
  <2>2. [p.flags EXCEPT ![i] = FREE] \in [SlotIds -> {FREE, USED}]
    BY <1>0, PoolFields
  <2>3. f = [p EXCEPT !.flags = [p.flags EXCEPT ![i] = FREE],
                      !.FreeRAM = p.FreeRAM + p.size[i]]
    BY DEF MarkFree
  <2> HIDE DEF f
  <2> QED
    BY <1>0, <2>1, <2>2, <2>3 DEF Pools
<1>2. PoolOK(f) /\ Reached(f) /\ Linked(f) = Linked(p)
  BY <1>1, SameShape
<1>3. f.flags[i] = FREE /\ \A j \in SlotIds \ {i} : f.flags[j] = p.flags[j]
  BY <1>0, <1>1, PoolFields
<1>4. SettledBut(f)
  BY <1>0, <1>1, <1>2, <1>3 DEF Coalesced
<1>5. UsedSlots(f) = UsedSlots(p) \ {i}
  BY <1>0, <1>2, <1>3 DEF UsedSlots
<1> HIDE DEF f
<1>6. /\ PoolOK(g) /\ Reached(g) /\ i \in Linked(g) /\ g.flags = f.flags
      /\ Settled(g)
      /\ UsedSlots(g) = UsedSlots(f)
      /\ \A j \in UsedSlots(g) : g.data[j] = f.data[j] /\ g.size[j] = f.size[j]
  <2> DEFINE b == f.nextIndex[i]
  <2>1. CASE b # NONE /\ f.flags[b] = FREE
    <3>1. g = Absorb(f, i, b)
      BY <2>1 DEF AbsorbNext
    <3>2. /\ PoolOK(g) /\ Reached(g)
          /\ b \in Linked(f) /\ b # i
          /\ Linked(g) = Linked(f) \ {b}
          /\ g.data = f.data /\ g.flags = f.flags
          /\ g.nextIndex[i] = f.nextIndex[b]
          /\ \A j \in SlotIds \ {i} : /\ g.size[j] = f.size[j]
                                      /\ g.nextIndex[j] = f.nextIndex[j]
      BY <1>0, <1>2, <2>1, <3>1, AbsorbOK, AbsorbReached
    <3> HIDE DEF g
    <3>3. f.nextIndex[b] # i
      <4>1. /\ f.data[i] \in Nat /\ f.size[i] \in Nat /\ f.data[b] \in Nat
            /\ f.size[b] \in Nat /\ f.size[i] > 0 /\ f.size[b] > 0
        BY <1>0, <1>1, <1>2, <3>2, PoolFields DEF PoolOK, Placed
      <4>2. f.data[b] = f.data[i] + f.size[i]
        BY <1>0, <1>2, <2>1 DEF PoolOK, Links
      <4>3. i # NONE /\ f.nextIndex[b] = i => f.data[i] = f.data[b] + f.size[b]
        BY <3>2, <1>2 DEF PoolOK, Links
      <4> QED
        BY <4>1, <4>2, <4>3, <1>0, SlotIdsFinite
    <3>4. Settled(g)
      <4>1. SUFFICES ASSUME NEW j \in Linked(g), g.flags[j] = FREE,
                            g.nextIndex[j] # NONE, g.nextIndex[j] # i
                     PROVE  g.flags[g.nextIndex[j]] # FREE
        OBVIOUS
      <4>2. CASE j = i
        BY <1>4, <2>1, <3>2, <3>3, <4>1, <4>2
      <4>3. CASE j # i
        BY <1>0, <1>2, <1>4, <3>2, <4>1, <4>3
      <4> QED
        BY <4>2, <4>3
    <3>5. UsedSlots(g) = UsedSlots(f)
      BY <2>1, <3>2, <1>0 DEF UsedSlots
    <3>6. \A j \in UsedSlots(g) : j \in SlotIds \ {i}
      BY <1>0, <1>2, <1>5, <3>5 DEF UsedSlots
    <3> QED
      BY <1>0, <1>2, <3>2, <3>4, <3>5, <3>6
  <2>2. CASE ~(b # NONE /\ f.flags[b] = FREE)
    <3>1. g = f
      BY <2>2 DEF AbsorbNext
    <3> HIDE DEF g
    <3>2. Settled(f)
      BY <1>4, <2>2
    <3> QED
      BY <1>0, <1>2, <3>1, <3>2
  <2> QED
    BY <2>1, <2>2
<1>7. q = AbsorbIntoPrev(g, i)
  BY DEF mempool_slot_clear, f
<1> HIDE DEF g
<1>8. /\ PoolOK(q) /\ Reached(q) /\ Coalesced(q)
      /\ UsedSlots(q) = UsedSlots(g)
      /\ \A j \in UsedSlots(q) : q.data[j] = g.data[j] /\ q.size[j] = g.size[j]
  <2> DEFINE a == g.prevIndex[i]
  <2>0. /\ Linked(g) \subseteq SlotIds /\ i # NONE
        /\ \A j \in Linked(g) : g.nextIndex[j] = i => a = j /\ a # NONE
        /\ a # NONE => a \in Linked(g) /\ g.nextIndex[a] = i
    BY <1>0, <1>6, SlotIdsFinite, LinkedFinite DEF PoolOK, Links
  <2>1. CASE a # NONE /\ g.flags[a] = FREE
    <3>1. q = Absorb(g, a, i)
      BY <1>7, <2>1 DEF AbsorbIntoPrev
    <3>2. /\ PoolOK(q) /\ Reached(q) /\ i # a
          /\ Linked(q) = Linked(g) \ {i}
          /\ q.data = g.data /\ q.flags = g.flags
          /\ q.nextIndex[a] = g.nextIndex[i]
          /\ \A j \in SlotIds \ {a} : /\ q.size[j] = g.size[j]
                                      /\ q.nextIndex[j] = g.nextIndex[j]
      BY <1>6, <2>0, <2>1, <3>1, AbsorbOK, AbsorbReached
    <3>3. Coalesced(q)
      <4>1. SUFFICES ASSUME NEW j \in Linked(q), q.flags[j] = FREE,
                            q.nextIndex[j] # NONE
                     PROVE  q.flags[q.nextIndex[j]] # FREE
        BY DEF Coalesced
      <4>2. g.nextIndex[i] # i
        BY <1>6, <2>0, <3>2 DEF PoolOK, Links
      <4>3. g.flags[i] = FREE
        BY <1>3, <1>6
      <4>4. CASE j = a
        BY <1>6, <3>2, <4>1, <4>2, <4>3, <4>4
      <4>5. CASE j # a
        BY <1>6, <2>0, <3>2, <4>1, <4>5
      <4> QED
        BY <4>4, <4>5
    <3>4. UsedSlots(q) = UsedSlots(g)
      BY <1>0, <1>3, <1>6, <2>1, <3>2 DEF UsedSlots
    <3>5. \A j \in UsedSlots(q) : j \in SlotIds \ {a}
      BY <1>0, <2>0, <2>1, <3>4 DEF UsedSlots
    <3> QED
      BY <3>2, <3>3, <3>4, <3>5
  <2>2. CASE ~(a # NONE /\ g.flags[a] = FREE)
    <3>1. q = g
      BY <1>7, <2>2 DEF AbsorbIntoPrev
    <3>2. Coalesced(g)
      BY <1>6, <2>0, <2>2 DEF Coalesced
    <3> QED
      BY <1>6, <3>1, <3>2
  <2> QED
    BY <2>1, <2>2
<1> QED
  BY <1>1, <1>5, <1>6, <1>8

-----------------------------------------------------------------------------
(* The used slots and the blocks B correspond to each other.               *)
Matches(p, B) ==
  /\ \A i \in UsedSlots(p) : \E b \in B : b.addr = p.data[i]
  /\ \A b \in B : \E i \in UsedSlots(p) : b.addr = p.data[i] /\ b.bytes <= p.size[i]
  /\ \A b, c \in B : b.addr = c.addr => b = c

PoolInv(p, B) ==
  PoolOK(p) /\ Reached(p) /\ Coalesced(p) /\ Matches(p, B)

AllBlocks == held \union QueuedBlocks

(* The inductive invariant. *)
IInv ==
  /\ TypeOK
  /\ PoolInv(pool, AllBlocks)
  /\ QueuedOnce
  /\ phase \in {"panic", "tick"} => tickIndex >= 1

-----------------------------------------------------------------------------
(* Arithmetic. *)

LEMMA AlignUpBounds ==
  ASSUME NEW bytes \in Nat \ {0}
  PROVE  AlignUp(bytes) \in Nat /\ AlignUp(bytes) >= bytes
<1>1. Align \in Nat \ {0}
  BY PoolAssumption
<1>2. bytes % Align \in 0 .. Align - 1
  BY <1>1
<1> QED
  BY <1>1, <1>2 DEF AlignUp

LEMMA ByteBounds ==
  ASSUME NEW delay \in Nat
  PROVE  /\ delay % ByteRange \in 0 .. ByteRange - 1
         /\ Decremented(delay) \in 0 .. ByteRange - 1
<1>1. ByteRange \in Nat \ {0}
  BY PoolAssumption
<1>2. \A n \in Nat : n % ByteRange \in 0 .. ByteRange - 1
  BY <1>1
<1>3. delay + ByteRange - 1 \in Nat
  BY <1>1
<1> QED
  BY <1>2, <1>3 DEF Decremented

-----------------------------------------------------------------------------
(* Slots and blocks. *)

(* Linked slots have different addresses inside the pool. *)
LEMMA SlotAddresses ==
  ASSUME NEW p, PoolOK(p)
  PROVE  /\ UsedSlots(p) \subseteq Linked(p)
         /\ \A i \in Linked(p) :
              /\ i \in SlotIds /\ p.data[i] \in Ram /\ p.data[i] \in Nat
              /\ p.size[i] \in 1 .. PoolBytes
              /\ p.data[i] + p.size[i] <= Base + PoolBytes
         /\ \A i, j \in Linked(p) : p.data[i] = p.data[j] => i = j
<1>1. \A i \in Linked(p) : /\ i \in SlotIds
                           /\ p.data[i] \in Nat /\ p.size[i] \in Nat
                           /\ p.size[i] > 0
                           /\ p.data[i] >= Base
                           /\ p.data[i] + p.size[i] <= Base + PoolBytes
  BY LinkedFinite, PoolFields DEF PoolOK, Placed
<1>2. Base \in Nat /\ PoolBytes \in Nat
  BY PoolAssumption
<1>3. \A i, j \in Linked(p) : p.data[i] = p.data[j] => i = j
  BY <1>1 DEF PoolOK, SlotsDisjoint, Apart
<1>4. \A i \in Linked(p) : p.data[i] \in Ram /\ p.size[i] \in 1 .. PoolBytes
  BY <1>1, <1>2 DEF Ram
<1> QED
  BY <1>1, <1>3, <1>4 DEF UsedSlots

(* Assigning a free slot whose successor is not free gives one more used   *)
(* slot, of the size asked for, and leaves no two free neighbours.         *)
LEMMA AllocOK ==
  ASSUME NEW p, PoolOK(p), Reached(p), Coalesced(p), NEW i \in Linked(p),
         p.nextIndex[i] # NONE => p.flags[p.nextIndex[i]] # FREE,
         NEW bytes \in Nat, 0 < bytes, bytes <= p.size[i],
         bytes < p.size[i] => p.curNumSlots < MaxSlots,
         NEW q, q = mempool_slot_assign(p, i, bytes, USED, FREE)
  PROVE  /\ PoolOK(q) /\ Reached(q) /\ Coalesced(q)
         /\ UsedSlots(q) = UsedSlots(p) \union {i}
         /\ q.data[i] = p.data[i] /\ q.size[i] = bytes
         /\ \A j \in UsedSlots(p) \ {i} :
              q.data[j] = p.data[j] /\ q.size[j] = p.size[j]
<1> DEFINE n == p.index[p.curNumSlots]
<1>0. /\ USED # FREE /\ USED \in {FREE, USED} /\ FREE \in {FREE, USED}
      /\ Linked(p) \subseteq SlotIds
      /\ p.size[i] \in Nat
  BY SlotAddresses, LinkedFinite DEF USED, FREE
<1>1. /\ PoolOK(q) /\ Reached(q)
      /\ i \in Linked(q) /\ q.flags[i] = USED
      /\ q.size[i] = bytes /\ q.data[i] = p.data[i]
      /\ \A j \in Linked(p) : q.data[j] = p.data[j]
      /\ \A j \in Linked(p) \ {i} : /\ q.size[j] = p.size[j]
                                    /\ q.nextIndex[j] = p.nextIndex[j]
                                    /\ q.flags[j] = p.flags[j]
      /\ bytes = p.size[i] => /\ Linked(q) = Linked(p)
                              /\ q.nextIndex[i] = p.nextIndex[i]
      /\ bytes < p.size[i] =>
           /\ n \in SlotIds \ Linked(p)
           /\ Linked(q) = Linked(p) \union {n}
           /\ q.flags[n] = FREE
           /\ q.nextIndex[i] = n /\ q.nextIndex[n] = p.nextIndex[i]
  BY <1>0, AssignOK
<1> HIDE DEF n
<1>2. \A j \in Linked(p) : p.nextIndex[j] # NONE => p.nextIndex[j] \in Linked(p)
  BY DEF PoolOK, Links
<1>3. p.nextIndex[i] # i
  BY SlotAddresses, <1>0, <1>2, SlotIdsFinite DEF PoolOK, Links
<1>4. Coalesced(q)
  <2>1. SUFFICES ASSUME NEW j \in Linked(q), q.flags[j] = FREE, q.nextIndex[j] # NONE
                 PROVE  q.flags[q.nextIndex[j]] # FREE
    BY DEF Coalesced
  <2>2. j # i
    BY <1>0, <1>1, <2>1
  <2>3. CASE j \in Linked(p)
    <3>1. p.flags[p.nextIndex[j]] # FREE /\ p.nextIndex[j] \in Linked(p)
      BY <1>1, <1>2, <2>1, <2>2, <2>3 DEF Coalesced
    <3> QED
      BY <1>0, <1>1, <2>1, <2>2, <2>3, <3>1
  <2>4. CASE j \notin Linked(p)
    <3>1. j = n /\ bytes < p.size[i]
      BY <1>0, <1>1, <2>1, <2>4
    <3> QED
      BY <1>1, <1>2, <1>3, <2>1, <3>1
  <2> QED
    BY <2>3, <2>4
<1>5. UsedSlots(q) = UsedSlots(p) \union {i}
  <2>1. CASE bytes = p.size[i]
    BY <1>0, <1>1, <2>1 DEF UsedSlots
  <2>2. CASE bytes < p.size[i]
    BY <1>0, <1>1, <2>2 DEF UsedSlots
  <2> QED
    BY <1>0, <2>1, <2>2
<1> QED
  BY <1>1, <1>4, <1>5 DEF UsedSlots

(* Cutting off the front of a free slot and assigning what follows.  Two   *)
(* slot numbers are left, as the guard of mmAllocAtAddr and the test for   *)
(* an empty stack say together.                                            *)
LEMMA AllocInsideOK ==
  ASSUME NEW p, PoolOK(p), Reached(p), Coalesced(p), NEW i \in Linked(p),
         p.flags[i] = FREE, p.curNumSlots + 1 < MaxSlots,
         NEW d \in Nat, 0 < d, NEW bytes \in Nat, 0 < bytes,
         d + bytes <= p.size[i],
         NEW n, n = p.index[p.curNumSlots],
         NEW q, q = mempool_slot_assign(mempool_slot_assign(p, i, d, FREE, USED),
                                        n, bytes, USED, FREE)
  PROVE  /\ PoolOK(q) /\ Reached(q) /\ Coalesced(q)
         /\ UsedSlots(q) = UsedSlots(p) \union {n}
         /\ n \notin UsedSlots(p)
         /\ q.data[n] = p.data[i] + d /\ q.size[n] = bytes
         /\ \A j \in UsedSlots(p) : q.data[j] = p.data[j] /\ q.size[j] = p.size[j]
<1> DEFINE f == mempool_slot_assign(p, i, d, FREE, USED)
<1>0. /\ USED # FREE /\ USED \in {FREE, USED} /\ FREE \in {FREE, USED}
      /\ Linked(p) \subseteq SlotIds
      /\ p.size[i] \in Nat /\ p.curNumSlots \in Nat /\ MaxSlots \in Nat
      /\ d < p.size[i] /\ p.curNumSlots < MaxSlots
  BY SlotAddresses, LinkedFinite, PoolFields, PoolAssumption
     DEF USED, FREE, PoolOK
<1>1. /\ PoolOK(f) /\ Reached(f)
      /\ f.flags[i] = FREE
      /\ \A j \in Linked(p) : f.data[j] = p.data[j]
      /\ \A j \in Linked(p) \ {i} : /\ f.size[j] = p.size[j]
                                    /\ f.nextIndex[j] = p.nextIndex[j]
                                    /\ f.flags[j] = p.flags[j]
      /\ n \in SlotIds \ Linked(p)
      /\ Linked(f) = Linked(p) \union {n}
      /\ f.flags[n] = USED
      /\ f.data[n] = p.data[i] + d
      /\ f.size[n] = p.size[i] - d
      /\ f.nextIndex[i] = n /\ f.nextIndex[n] = p.nextIndex[i]
      /\ f.curNumSlots = p.curNumSlots + 1
  BY <1>0, AssignOK
<1> HIDE DEF f
<1>2. \A j \in Linked(p) : p.nextIndex[j] # NONE => p.nextIndex[j] \in Linked(p)
  BY DEF PoolOK, Links
<1>3. p.nextIndex[i] # i
  BY SlotAddresses, <1>0, <1>2, SlotIdsFinite DEF PoolOK, Links
<1>4. Coalesced(f)
  <2>1. SUFFICES ASSUME NEW j \in Linked(f), f.flags[j] = FREE, f.nextIndex[j] # NONE
                 PROVE  f.flags[f.nextIndex[j]] # FREE
    BY DEF Coalesced
  <2>2. CASE j = i
    BY <1>0, <1>1, <2>2
  <2>3. CASE j # i
    <3>1. j \in Linked(p) \ {i}
      BY <1>0, <1>1, <2>1, <2>3
    <3>2. p.flags[p.nextIndex[j]] # FREE /\ p.nextIndex[j] \in Linked(p) \ {i}
      BY <1>1, <1>2, <2>1, <3>1 DEF Coalesced
    <3> QED
      BY <1>1, <3>1, <3>2
  <2> QED
    BY <2>2, <2>3
<1>5. f.nextIndex[n] # NONE => f.flags[f.nextIndex[n]] # FREE
  <2>1. SUFFICES ASSUME p.nextIndex[i] # NONE
                 PROVE  f.flags[p.nextIndex[i]] # FREE
    BY <1>1
  <2>2. p.flags[p.nextIndex[i]] # FREE /\ p.nextIndex[i] \in Linked(p) \ {i}
    BY <1>2, <1>3, <2>1 DEF Coalesced
  <2> QED
    BY <1>1, <2>2
<1>6. UsedSlots(f) = UsedSlots(p) \union {n}
  BY <1>0, <1>1 DEF UsedSlots
<1>7. n \in Linked(f) /\ bytes <= f.size[n]
  BY <1>0, <1>1
<1>8. f.curNumSlots < MaxSlots
  BY <1>0, <1>1
<1>9. /\ PoolOK(q) /\ Reached(q) /\ Coalesced(q)
      /\ UsedSlots(q) = UsedSlots(f) \union {n}
      /\ q.data[n] = f.data[n] /\ q.size[n] = bytes
      /\ \A j \in UsedSlots(f) \ {n} :
           q.data[j] = f.data[j] /\ q.size[j] = f.size[j]
  BY <1>1, <1>4, <1>5, <1>7, <1>8, AllocOK DEF f
<1>10. \A j \in UsedSlots(p) : j \in UsedSlots(f) \ {n} /\ j \in Linked(p) \ {i}
  BY <1>0, <1>1, <1>6 DEF UsedSlots
<1> QED
  BY <1>1, <1>6, <1>9, <1>10 DEF UsedSlots

(* A new used slot goes with a new block.                                  *)
LEMMA MatchesGrant ==
  ASSUME NEW p, PoolOK(p), NEW B, Matches(p, B),
         NEW q, PoolOK(q), NEW i, i \notin UsedSlots(p),
         UsedSlots(q) = UsedSlots(p) \union {i},
         \A j \in UsedSlots(p) : q.data[j] = p.data[j] /\ q.size[j] = p.size[j],
         NEW b, b.addr = q.data[i], b.bytes <= q.size[i]
  PROVE  Matches(q, B \union {b}) /\ b \notin B
<1>1. \A c \in B : c.addr # b.addr
  <2>1. SUFFICES ASSUME NEW c \in B, c.addr = b.addr PROVE FALSE
    OBVIOUS
  <2>2. PICK j \in UsedSlots(p) : c.addr = p.data[j]
    BY DEF Matches
  <2>3. j \in Linked(q) /\ i \in Linked(q) /\ q.data[j] = q.data[i]
    BY <2>1, <2>2 DEF UsedSlots
  <2>4. j = i
    BY <2>3, SlotAddresses
  <2> QED
    BY <2>2, <2>4
<1>2. \A j \in UsedSlots(q) : \E c \in B \union {b} : c.addr = q.data[j]
  BY DEF Matches
<1>3. ASSUME NEW c \in B \union {b}
      PROVE  \E j \in UsedSlots(q) : c.addr = q.data[j] /\ c.bytes <= q.size[j]
  <2>1. CASE c = b
    BY <2>1
  <2>2. CASE c \in B
    <3>1. PICK j \in UsedSlots(p) : c.addr = p.data[j] /\ c.bytes <= p.size[j]
      BY <2>2 DEF Matches
    <3>2. j \in UsedSlots(q) /\ c.addr = q.data[j] /\ c.bytes <= q.size[j]
      BY <3>1
    <3> QED
      BY <3>2
  <2> QED
    BY <2>1, <2>2
<1>4. \A c, e \in B \union {b} : c.addr = e.addr => c = e
  BY <1>1 DEF Matches
<1> QED
  BY <1>1, <1>2, <1>3, <1>4 DEF Matches

(* mempool_free_addr finds the slot of a used block and clears it.         *)
LEMMA FreeAddrOK ==
  ASSUME NEW p, NEW B, PoolInv(p, B), NEW b \in B,
         NEW q, q = mempool_free_addr(p, b.addr)
  PROVE  PoolInv(q, B \ {b})
<1>0. PoolOK(p) /\ Reached(p) /\ Coalesced(p) /\ Matches(p, B)
  BY DEF PoolInv
<1>1. PICK i \in UsedSlots(p) : b.addr = p.data[i]
  BY <1>0 DEF Matches
<1>2. i \in Linked(p) /\ p.flags[i] = USED /\ i \in SlotIds
  BY <1>0, SlotAddresses DEF UsedSlots
<1>3. SlotsAt(p, b.addr) = {i}
  <2>1. Chain(p) = Linked(p)
    BY <1>0, ChainLinked DEF Reached
  <2> QED
    BY <1>0, <1>1, <1>2, <2>1, SlotAddresses DEF SlotsAt
<1>4. q = mempool_slot_clear(p, i)
  <2> DEFINE first == CHOOSE j \in SlotsAt(p, b.addr) : IsFirst(p, j, SlotsAt(p, b.addr))
  <2>1. IsFirst(p, i, {i})
    BY <1>2 DEF IsFirst, WalkFrom
  <2>2. \E j \in SlotsAt(p, b.addr) : IsFirst(p, j, SlotsAt(p, b.addr))
    BY <1>3, <2>1
  <2>3. first \in SlotsAt(p, b.addr)
    BY <2>2
  <2>4. first = i
    BY <1>3, <2>3
  <2>5. q = IF SlotsAt(p, b.addr) # {} /\ p.flags[first] = USED
            THEN mempool_slot_clear(p, first) ELSE p
    BY DEF mempool_free_addr
  <2> HIDE DEF first
  <2> QED
    BY <1>2, <1>3, <2>4, <2>5
<1>5. /\ PoolOK(q) /\ Reached(q) /\ Coalesced(q)
      /\ UsedSlots(q) = UsedSlots(p) \ {i}
      /\ \A j \in UsedSlots(q) : q.data[j] = p.data[j] /\ q.size[j] = p.size[j]
  BY <1>0, <1>1, <1>4, ClearOK
<1>6. Matches(q, B \ {b})
  <2>1. ASSUME NEW j \in UsedSlots(q)
        PROVE  \E c \in B \ {b} : c.addr = q.data[j]
    <3>1. PICK c \in B : c.addr = p.data[j]
      BY <1>0, <1>5 DEF Matches
    <3>2. j # i /\ j \in Linked(p) /\ p.data[j] # p.data[i]
      BY <1>0, <1>2, <1>5, SlotAddresses
    <3>3. c # b
      BY <1>1, <3>1, <3>2
    <3> QED
      BY <1>5, <3>1, <3>3
  <2>2. ASSUME NEW c \in B \ {b}
        PROVE  \E j \in UsedSlots(q) : c.addr = q.data[j] /\ c.bytes <= q.size[j]
    <3>1. PICK j \in UsedSlots(p) : c.addr = p.data[j] /\ c.bytes <= p.size[j]
      BY <1>0 DEF Matches
    <3>2. c.addr # b.addr
      BY <1>0 DEF Matches
    <3>3. j # i
      BY <1>1, <3>1, <3>2
    <3> QED
      BY <1>5, <3>1, <3>3
  <2> QED
    BY <1>0, <2>1, <2>2 DEF Matches
<1> QED
  BY <1>5, <1>6 DEF PoolInv

(* Blocks that match the slots of a well-formed pool do not overlap.       *)
LEMMA MatchesDisjoint ==
  ASSUME NEW p, PoolOK(p), NEW B, B \subseteq Blocks, Matches(p, B)
  PROVE  /\ \A b \in B : b.addr + b.bytes <= Base + PoolBytes
         /\ \A b, c \in B : b # c => Apart(b.addr, b.bytes, c.addr, c.bytes)
<1>0. /\ Base \in Nat /\ PoolBytes \in Nat
      /\ \A b \in B : b.addr \in Nat /\ b.bytes \in Nat
  BY PoolAssumption DEF Blocks, Ram
<1>1. ASSUME NEW b \in B
      PROVE  b.addr + b.bytes <= Base + PoolBytes
  <2>1. PICK i \in UsedSlots(p) : b.addr = p.data[i] /\ b.bytes <= p.size[i]
    BY DEF Matches
  <2>2. /\ p.data[i] + p.size[i] <= Base + PoolBytes
        /\ p.data[i] \in Nat /\ p.size[i] \in Nat
    BY <1>0, <2>1, SlotAddresses
  <2> QED
    BY <1>0, <2>1, <2>2
<1>2. ASSUME NEW b \in B, NEW c \in B, b # c
      PROVE  Apart(b.addr, b.bytes, c.addr, c.bytes)
  <2>1. PICK i \in UsedSlots(p) : b.addr = p.data[i] /\ b.bytes <= p.size[i]
    BY DEF Matches
  <2>2. PICK j \in UsedSlots(p) : c.addr = p.data[j] /\ c.bytes <= p.size[j]
    BY DEF Matches
  <2>3. i # j
    BY <1>2, <2>1, <2>2 DEF Matches
  <2>4. Apart(p.data[i], p.size[i], p.data[j], p.size[j])
    BY <2>1, <2>2, <2>3, SlotAddresses DEF PoolOK, SlotsDisjoint
  <2>5. /\ p.data[i] \in Nat /\ p.size[i] \in Nat
        /\ p.data[j] \in Nat /\ p.size[j] \in Nat
    BY <1>0, <2>1, <2>2, SlotAddresses
  <2> QED
    BY <1>0, <2>1, <2>2, <2>4, <2>5 DEF Apart
<1> QED
  BY <1>1, <1>2

-----------------------------------------------------------------------------
(* The queue of frees. *)

Queues == {s \in Seq(QueueEntries) : Len(s) <= FreeQueueSize}

BlockOf(e) == [addr |-> e.addr, bytes |-> e.bytes]

BlocksOf(s) == {BlockOf(s[k]) : k \in 1 .. Len(s)}

(* The queue part of the invariant: no address twice, none that is held.   *)
QueueInv(s, owned) ==
  /\ \A j, k \in 1 .. Len(s) : s[j].addr = s[k].addr => j = k
  /\ \A h \in owned, k \in 1 .. Len(s) : h.addr # s[k].addr

LEMMA QueueUnfold ==
  /\ QueuedBlocks = BlocksOf(gFreeQueue)
  /\ QueuedOnce <=> QueueInv(gFreeQueue, held)
BY DEF QueuedBlocks, BlocksOf, BlockOf, QueuedOnce, QueueInv, Last

LEMMA QueueTyped ==
  ASSUME NEW s \in Queues
  PROVE  /\ Len(s) \in Nat
         /\ \A k \in 1 .. Len(s) : /\ s[k] \in QueueEntries
                                   /\ BlockOf(s[k]) \in Blocks
         /\ BlocksOf(s) \subseteq Blocks
<1>1. s \in Seq(QueueEntries)
  BY DEF Queues
<1>2. \A k \in 1 .. Len(s) : s[k] \in QueueEntries
  BY <1>1, ElementOfSeq
<1>3. \A e \in QueueEntries : BlockOf(e) \in Blocks
  BY DEF QueueEntries, Blocks, BlockOf
<1> QED
  BY <1>1, <1>2, <1>3, LenProperties DEF BlocksOf

(* A block goes from its owner to the queue.                               *)
LEMMA QueueAppend ==
  ASSUME NEW s \in Queues, NEW owned, owned \subseteq Blocks, NEW h \in owned,
         QueueInv(s, owned),
         \A g \in owned : g.addr = h.addr => g = h,
         NEW e \in QueueEntries, e.addr = h.addr, BlockOf(e) = h,
         Len(s) # FreeQueueSize
  PROVE  /\ Append(s, e) \in Queues
         /\ QueueInv(Append(s, e), owned \ {h})
         /\ BlocksOf(Append(s, e)) = BlocksOf(s) \union {h}
<1> DEFINE t == Append(s, e)
<1>0. /\ s \in Seq(QueueEntries) /\ Len(s) \in Nat /\ Len(s) <= FreeQueueSize
      /\ FreeQueueSize \in Nat
  BY LenProperties, PoolAssumption DEF Queues
<1>2. /\ t \in Seq(QueueEntries) /\ Len(t) = Len(s) + 1
      /\ \A k \in 1 .. Len(s) : t[k] = s[k]
      /\ t[Len(s) + 1] = e
  BY <1>0, AppendProperties
<1> HIDE DEF t
<1>3. t \in Queues
  BY <1>0, <1>2 DEF Queues
<1>4. 1 .. Len(t) = (1 .. Len(s)) \union {Len(s) + 1}
  BY <1>0, <1>2
<1>5. QueueInv(t, owned \ {h})
  BY <1>0, <1>2, <1>4 DEF QueueInv
<1>6. BlocksOf(t) = BlocksOf(s) \union {h}
  BY <1>0, <1>2, <1>4 DEF BlocksOf
<1> QED
  BY <1>3, <1>5, <1>6 DEF t

(* An entry leaves the queue and the last entry takes its place.           *)
LEMMA QueueSwapOut ==
  ASSUME TypeOK, QueuedOnce, NEW i \in 1 .. Len(gFreeQueue),
         NEW t, t = SwapOut(i)
  PROVE  /\ t \in Queues
         /\ QueueInv(t, held)
         /\ BlocksOf(t) = QueuedBlocks \ {BlockOf(gFreeQueue[i])}
         /\ BlockOf(gFreeQueue[i]) \in QueuedBlocks \ held
<1> DEFINE s == gFreeQueue
           L == Len(s)
<1>0. /\ s \in Queues /\ L \in Nat /\ L >= 1 /\ L <= FreeQueueSize
      /\ FreeQueueSize \in Nat
      /\ \A k \in 1 .. L : s[k] \in QueueEntries
      /\ QueueInv(s, held)
      /\ QueuedBlocks = BlocksOf(s)
  BY QueueTyped, QueueUnfold, PoolAssumption DEF Queues, TypeOK
<1>1. t = [m \in 1 .. L - 1 |-> IF m = i THEN s[L] ELSE s[m]]
  BY DEF SwapOut, Last
<1> HIDE DEF s, L
<1>2. t \in [1 .. L - 1 -> QueueEntries]
  BY <1>0, <1>1
<1>3. t \in Seq(QueueEntries)
  BY <1>0, <1>2, SeqDef
<1>4. Len(t) = L - 1
  <2>1. DOMAIN t = 1 .. Len(t) /\ Len(t) \in Nat
    BY <1>3, LenProperties
  <2>2. DOMAIN t = 1 .. L - 1
    BY <1>1
  <2> QED
    BY <1>0, <2>1, <2>2
<1>5. t \in Queues
  BY <1>0, <1>3, <1>4 DEF Queues
<1>6. \A m \in 1 .. L - 1 : t[m] = IF m = i THEN s[L] ELSE s[m]
  BY <1>1
<1>7. i \in 1 .. L
  BY DEF s, L
<1>8. \A j, k \in 1 .. L : s[j].addr = s[k].addr => j = k
  BY <1>0 DEF QueueInv, L
<1>9. QueueInv(t, held)
  <2>1. \A h \in held, k \in 1 .. L : h.addr # s[k].addr
    BY <1>0 DEF QueueInv, L
  <2>2. ASSUME NEW j \in 1 .. L - 1, NEW k \in 1 .. L - 1, t[j].addr = t[k].addr
        PROVE  j = k
    BY <1>0, <1>6, <1>7, <1>8, <2>2
  <2>3. ASSUME NEW h \in held, NEW k \in 1 .. L - 1
        PROVE  h.addr # t[k].addr
    BY <1>0, <1>6, <1>7, <2>1
  <2> QED
    BY <1>4, <2>2, <2>3 DEF QueueInv
<1>10. ASSUME NEW b
       PROVE  b \in BlocksOf(t) <=> b \in BlocksOf(s) /\ b # BlockOf(s[i])
  <2>1. \A j, k \in 1 .. L : BlockOf(s[j]) = BlockOf(s[k]) => j = k
    BY <1>8 DEF BlockOf
  <2>2. b \in BlocksOf(s) <=> \E k \in 1 .. L : b = BlockOf(s[k])
    BY DEF BlocksOf, L
  <2>3. b \in BlocksOf(t) <=> \E m \in 1 .. L - 1 : b = BlockOf(t[m])
    BY <1>4 DEF BlocksOf
  <2>4. ASSUME NEW m \in 1 .. L - 1, b = BlockOf(t[m])
        PROVE  \E k \in 1 .. L : b = BlockOf(s[k]) /\ k # i
    <3>1. CASE m = i
      BY <1>0, <1>6, <1>7, <2>4, <3>1
    <3>2. CASE m # i
      BY <1>0, <1>6, <1>7, <2>4, <3>2
    <3> QED
      BY <3>1, <3>2
  <2>5. ASSUME NEW k \in 1 .. L, b = BlockOf(s[k]), k # i
        PROVE  \E m \in 1 .. L - 1 : b = BlockOf(t[m])
    <3>1. CASE k = L
      <4>1. i \in 1 .. L - 1 /\ t[i] = s[L]
        BY <1>0, <1>6, <1>7, <2>5, <3>1
      <4> QED
        BY <2>5, <3>1, <4>1
    <3>2. CASE k # L
      <4>1. k \in 1 .. L - 1 /\ t[k] = s[k]
        BY <1>0, <1>6, <2>5, <3>2
      <4> QED
        BY <2>5, <4>1
    <3> QED
      BY <3>1, <3>2
  <2> QED
    BY <1>7, <2>1, <2>2, <2>3, <2>4, <2>5
<1>11. BlockOf(s[i]) \in BlocksOf(s)
  BY <1>7 DEF BlocksOf, L
<1>12. BlockOf(s[i]) \notin held
  BY <1>0, <1>7 DEF QueueInv, BlockOf, L
<1> QED
  BY <1>0, <1>5, <1>9, <1>10, <1>11, <1>12 DEF s

(* The last entry leaves the queue.                                        *)
LEMMA QueuePop ==
  ASSUME TypeOK, QueuedOnce, gFreeQueue # <<>>,
         NEW t, t = SubSeq(gFreeQueue, 1, Last - 1)
  PROVE  /\ Last \in 1 .. Len(gFreeQueue)
         /\ t \in Queues
         /\ QueueInv(t, held)
         /\ BlocksOf(t) = QueuedBlocks \ {BlockOf(gFreeQueue[Last])}
         /\ BlockOf(gFreeQueue[Last]) \in QueuedBlocks \ held
<1>0. /\ gFreeQueue \in Seq(QueueEntries)
      /\ Len(gFreeQueue) \in Nat /\ Len(gFreeQueue) <= FreeQueueSize
      /\ FreeQueueSize \in Nat
  BY LenProperties, PoolAssumption DEF TypeOK
<1>1. Len(gFreeQueue) >= 1
  BY <1>0, EmptySeq
<1>2. Last \in 1 .. Len(gFreeQueue) /\ Last = Len(gFreeQueue)
  BY <1>0, <1>1 DEF Last
<1>3. \A k \in 1 .. Last - 1 : gFreeQueue[k] \in QueueEntries
  BY <1>0, <1>2, ElementOfSeq
<1>4. /\ t \in Seq(QueueEntries) /\ Len(t) = Last - 1
      /\ \A k \in 1 .. Last - 1 : t[k] = gFreeQueue[k]
  <2>1. 1 \in Int /\ Last - 1 \in Int
    BY <1>0, <1>2
  <2>2. /\ SubSeq(gFreeQueue, 1, Last - 1) \in Seq(QueueEntries)
        /\ Len(SubSeq(gFreeQueue, 1, Last - 1)) =
             IF 1 <= Last - 1 THEN (Last - 1) - 1 + 1 ELSE 0
        /\ \A k \in 1 .. (Last - 1) - 1 + 1 :
             SubSeq(gFreeQueue, 1, Last - 1)[k] = gFreeQueue[1 + k - 1]
    BY <1>3, <2>1, SubSeqProperties
  <2> QED
    BY <1>0, <1>1, <1>2, <2>2
<1>5. t = SwapOut(Last)
  <2>1. t \in [1 .. Last - 1 -> QueueEntries]
    BY <1>4, LenProperties
  <2>2. \A k \in 1 .. Last - 1 : k # Last
    BY <1>0, <1>2
  <2> QED
    BY <1>4, <2>1, <2>2 DEF SwapOut
<1> QED
  BY <1>2, <1>5, QueueSwapOut

(* Counting a delay down changes no address.                               *)
CountedDown(s, i) == [s EXCEPT ![i].delay = Decremented(@)]

LEMMA QueueCountdown ==
  ASSUME NEW s \in Queues, NEW owned, QueueInv(s, owned), NEW i \in 1 .. Len(s),
         NEW t, t = CountedDown(s, i)
  PROVE  /\ t \in Queues
         /\ QueueInv(t, owned)
         /\ BlocksOf(t) = BlocksOf(s)
<1> DEFINE e == [s[i] EXCEPT !.delay = Decremented(s[i].delay)]
<1>0. s \in Seq(QueueEntries) /\ s[i] \in QueueEntries
  BY QueueTyped DEF Queues
<1>1. e \in QueueEntries /\ e.addr = s[i].addr /\ BlockOf(e) = BlockOf(s[i])
  <2>1. s[i].delay \in Nat
    BY <1>0 DEF QueueEntries
  <2>2. Decremented(s[i].delay) \in 0 .. ByteRange - 1
    BY <2>1, ByteBounds
  <2> QED
    BY <1>0, <2>2 DEF QueueEntries, BlockOf
<1>2. t = [s EXCEPT ![i] = e]
  BY <1>0 DEF CountedDown
<1> HIDE DEF e
<1>3. /\ t \in Seq(QueueEntries) /\ Len(t) = Len(s)
      /\ \A j \in 1 .. Len(s) : t[j] = IF j = i THEN e ELSE s[j]
  BY <1>0, <1>1, <1>2, ExceptSeq
<1>4. t \in Queues
  BY <1>3 DEF Queues
<1>5. \A j \in 1 .. Len(s) : t[j].addr = s[j].addr /\ BlockOf(t[j]) = BlockOf(s[j])
  BY <1>1, <1>3
<1>6. QueueInv(t, owned)
  BY <1>3, <1>5 DEF QueueInv
<1>7. BlocksOf(t) = BlocksOf(s)
  BY <1>3, <1>5 DEF BlocksOf
<1> QED
  BY <1>4, <1>6, <1>7

-----------------------------------------------------------------------------
(* What a step does to the blocks.  Every step of the pool is one of these *)
(* five, and each of them keeps the invariant and is a step (or a stutter) *)
(* of the abstract heap.                                                   *)

Granted(b) ==
  /\ b \in Blocks /\ b.bytes \in Requests /\ b \notin AllBlocks
  /\ held' = held \union {b}
  /\ gFreeQueue' = gFreeQueue
  /\ PoolInv(pool', AllBlocks \union {b})

Queued(b) ==
  /\ b \in held
  /\ held' = held \ {b}
  /\ gFreeQueue' \in Queues
  /\ BlocksOf(gFreeQueue') = QueuedBlocks \union {b}
  /\ QueueInv(gFreeQueue', held \ {b})
  /\ pool' = pool

Freed(b) ==
  /\ b \in held
  /\ held' = held \ {b}
  /\ gFreeQueue' = gFreeQueue
  /\ PoolInv(pool', AllBlocks \ {b})

Reclaimed(b) ==
  /\ b \in QueuedBlocks \ held
  /\ held' = held
  /\ gFreeQueue' \in Queues
  /\ BlocksOf(gFreeQueue') = QueuedBlocks \ {b}
  /\ QueueInv(gFreeQueue', held)
  /\ PoolInv(pool', AllBlocks \ {b})

Quiet ==
  /\ held' = held
  /\ pool' = pool
  /\ gFreeQueue' \in Queues
  /\ BlocksOf(gFreeQueue') = QueuedBlocks
  /\ QueueInv(gFreeQueue', held)

Effect ==
  \/ \E b \in Blocks : Granted(b)
  \/ \E b \in held : Queued(b) \/ Freed(b)
  \/ \E b \in QueuedBlocks : Reclaimed(b)
  \/ Quiet

(* The variables that do not describe blocks. *)
ControlOK ==
  /\ gFreeQueueTimer \in Nat
  /\ phase \in {"idle", "panic", "tick", "flush"}
  /\ tickIndex \in Nat
  /\ phase \in {"panic", "tick"} => tickIndex >= 1
  /\ overrun \in {"none", "slots", "queue"}

LEMMA IInvFacts ==
  ASSUME IInv
  PROVE  /\ pool \in Pools /\ PoolOK(pool) /\ Reached(pool) /\ Coalesced(pool)
         /\ PoolInv(pool, AllBlocks) /\ Matches(pool, AllBlocks)
         /\ gFreeQueue \in Queues
         /\ QueueInv(gFreeQueue, held)
         /\ QueuedBlocks = BlocksOf(gFreeQueue)
         /\ held \subseteq Blocks /\ AllBlocks \subseteq Blocks
         /\ ControlOK
<1>1. TypeOK /\ QueuedOnce /\ PoolInv(pool, AllBlocks)
  BY DEF IInv
<1>2. gFreeQueue \in Queues /\ held \subseteq Blocks /\ pool \in Pools
  BY <1>1 DEF TypeOK, Queues
<1>3. QueuedBlocks \subseteq Blocks
  BY <1>2, QueueTyped, QueueUnfold
<1>4. ControlOK
  BY <1>1 DEF IInv, TypeOK, ControlOK
<1> QED
  BY <1>1, <1>2, <1>3, <1>4, QueueUnfold DEF PoolInv, AllBlocks

LEMMA QuietStep ==
  ASSUME IInv, UNCHANGED <<pool, gFreeQueue, held>>
  PROVE  Quiet
BY IInvFacts DEF Quiet

(* A successful allocation of a free slot.                                 *)
LEMMA GrantStep ==
  ASSUME IInv, NEW bytes \in Requests, NEW i, NEW q,
         PoolOK(q), Reached(q), Coalesced(q),
         UsedSlots(q) = UsedSlots(pool) \union {i}, i \notin UsedSlots(pool),
         \A j \in UsedSlots(pool) : q.data[j] = pool.data[j] /\ q.size[j] = pool.size[j],
         q.size[i] = AlignUp(bytes), Grant(i, q, bytes)
  PROVE  Effect
<1> DEFINE b == [addr |-> q.data[i], bytes |-> bytes]
<1>1. bytes \in Nat \ {0} /\ AlignUp(bytes) \in Nat /\ bytes <= AlignUp(bytes)
  BY PoolAssumption, AlignUpBounds
<1>2. i \in Linked(q)
  BY DEF UsedSlots
<1>3. q.data[i] \in Ram /\ AlignUp(bytes) <= PoolBytes
  BY <1>1, <1>2, SlotAddresses
<1>4. PoolBytes \in Nat
  BY PoolAssumption
<1>5. b \in Blocks /\ b.bytes \in Requests /\ b.addr = q.data[i] /\ b.bytes <= q.size[i]
  BY <1>1, <1>3, <1>4 DEF Blocks
<1>6. /\ q = pool' /\ held' = held \union {b} /\ gFreeQueue' = gFreeQueue
  BY DEF Grant
<1> HIDE DEF b
<1>7. Matches(q, AllBlocks \union {b}) /\ b \notin AllBlocks
  BY <1>5, IInvFacts, MatchesGrant
<1>8. Granted(b)
  BY <1>5, <1>6, <1>7 DEF Granted, PoolInv
<1> QED
  BY <1>5, <1>8 DEF Effect

(* A free slot that is assigned: common to mmAlloc and mmAllocAtAddr.      *)
LEMMA AssignStep ==
  ASSUME IInv, NEW bytes \in Requests, NEW i \in Chain(pool),
         pool.flags[i] = FREE, AlignUp(bytes) <= pool.size[i],
         ~(StackEmpty(pool) /\ AlignUp(bytes) < pool.size[i]),
         Grant(i, mempool_slot_assign(pool, i, AlignUp(bytes), USED, FREE), bytes)
  PROVE  Effect
<1> DEFINE q == mempool_slot_assign(pool, i, AlignUp(bytes), USED, FREE)
<1>1. AlignUp(bytes) \in Nat /\ 0 < AlignUp(bytes)
  <2>1. bytes \in Nat \ {0}
    BY PoolAssumption
  <2> QED
    BY <2>1, AlignUpBounds
<1>2. i \in Linked(pool) /\ i \notin UsedSlots(pool)
  BY IInvFacts, ChainLinked DEF UsedSlots, USED, FREE
<1>3. AlignUp(bytes) < pool.size[i] => pool.curNumSlots < MaxSlots
  BY IInvFacts, PoolFields, PoolAssumption DEF StackEmpty
<1>4. pool.nextIndex[i] # NONE => pool.flags[pool.nextIndex[i]] # FREE
  BY <1>2, IInvFacts DEF Coalesced
<1>5. /\ PoolOK(q) /\ Reached(q) /\ Coalesced(q)
      /\ UsedSlots(q) = UsedSlots(pool) \union {i}
      /\ q.size[i] = AlignUp(bytes)
      /\ \A j \in UsedSlots(pool) \ {i} :
           q.data[j] = pool.data[j] /\ q.size[j] = pool.size[j]
  BY <1>1, <1>2, <1>3, <1>4, IInvFacts, AllocOK
<1>6. Grant(i, q, bytes)
  OBVIOUS
<1> HIDE DEF q
<1>7. \A j \in UsedSlots(pool) : q.data[j] = pool.data[j] /\ q.size[j] = pool.size[j]
  BY <1>2, <1>5
<1> QED
  BY <1>2, <1>5, <1>6, <1>7, GrantStep

LEMMA AllocSteps ==
  ASSUME IInv, NEW bytes \in Requests
  PROVE  /\ mmAlloc(bytes) => Effect
         /\ \A addr \in FixedAddrs : mmAllocAtAddr(addr, bytes) => Effect
<1>0. \A a : OverrunOf(a) => Effect
  BY QuietStep DEF OverrunOf, Effect
<1>1. ASSUME mmAlloc(bytes)
      PROVE  Effect
  <2>1. PICK i \in SlotIds :
          /\ IsFirst(pool, i, SmallestFitting(pool, AlignUp(bytes)))
          /\ IF StackEmpty(pool) /\ AlignUp(bytes) < pool.size[i]
             THEN OverrunOf("slots")
             ELSE Grant(i, mempool_slot_assign(pool, i, AlignUp(bytes), USED, FREE),
                        bytes)
    BY <1>1 DEF mmAlloc
  <2>2. i \in Chain(pool) /\ pool.flags[i] = FREE /\ pool.size[i] >= AlignUp(bytes)
    BY <2>1 DEF IsFirst, SmallestFitting, Fitting
  <2>3. AlignUp(bytes) <= pool.size[i]
    <3>1. bytes \in Nat \ {0} /\ i \in Linked(pool)
      BY <2>2, PoolAssumption, IInvFacts, ChainLinked
    <3>2. AlignUp(bytes) \in Nat /\ pool.size[i] \in Nat
      BY <3>1, AlignUpBounds, IInvFacts, SlotAddresses
    <3> QED
      BY <2>2, <3>2
  <2> QED
    BY <1>0, <2>1, <2>2, <2>3, AssignStep
<1>2. ASSUME NEW addr \in FixedAddrs, mmAllocAtAddr(addr, bytes)
      PROVE  Effect
  <2>0. addr \in Nat /\ bytes \in Nat \ {0} /\ AlignUp(bytes) \in Nat /\ AlignUp(bytes) > 0
    <3>1. addr \in Nat /\ bytes \in Nat \ {0}
      BY PoolAssumption
    <3> QED
      BY <3>1, AlignUpBounds
  <2>1. ASSUME NEW i \in Around(pool, addr, AlignUp(bytes))
        PROVE  /\ i \in Chain(pool) /\ i \in Linked(pool) /\ pool.flags[i] = FREE
               /\ pool.data[i] \in Nat /\ pool.size[i] \in Nat
               /\ addr >= pool.data[i]
               /\ addr + AlignUp(bytes) <= pool.data[i] + pool.size[i]
    <3>1. i \in Chain(pool) /\ i \in Linked(pool)
      BY IInvFacts, ChainLinked DEF Around
    <3>2. pool.data[i] \in Nat /\ pool.size[i] \in Nat
      BY <3>1, IInvFacts, SlotAddresses
    <3> QED
      BY <3>1, <3>2 DEF Around
  <2>2. CASE mmAllocAtSlotStart(addr, bytes)
    <3>1. PICK i \in Around(pool, addr, AlignUp(bytes)) :
            /\ pool.data[i] = addr
            /\ IF StackEmpty(pool) /\ AlignUp(bytes) < pool.size[i]
               THEN OverrunOf("slots")
               ELSE Grant(i, mempool_slot_assign(pool, i, AlignUp(bytes), USED, FREE),
                          bytes)
      BY <2>2 DEF mmAllocAtSlotStart
    <3>2. AlignUp(bytes) <= pool.size[i]
      BY <2>0, <2>1, <3>1
    <3> QED
      BY <1>0, <2>1, <3>1, <3>2, AssignStep
  <2>3. CASE mmAllocInsideSlot(addr, bytes)
    <3> DEFINE n == pool.index[pool.curNumSlots]
    <3>1. PICK i \in Around(pool, addr, AlignUp(bytes)) :
            /\ pool.data[i] # addr
            /\ IF StackEmpty(pool)
               THEN OverrunOf("slots")
               ELSE Grant(n, mempool_slot_assign(
                               mempool_slot_assign(pool, i, addr - pool.data[i],
                                                   FREE, USED),
                               n, AlignUp(bytes), USED, FREE), bytes)
      BY <2>3 DEF mmAllocInsideSlot
    <3> HIDE DEF n
    <3>2. CASE StackEmpty(pool)
      BY <1>0, <3>1, <3>2
    <3>3. CASE ~StackEmpty(pool)
      <4>1. pool.curNumSlots + 1 < MaxSlots
        <5>1. pool.curNumSlots \in 1 .. MaxSlots /\ MaxSlots \in Nat
          BY IInvFacts, PoolFields, PoolAssumption
        <5> QED
          BY <2>3, <3>3, <5>1 DEF mmAllocInsideSlot, NoMoreSlots, StackEmpty
      <4> DEFINE d == addr - pool.data[i]
                 q == mempool_slot_assign(mempool_slot_assign(pool, i, d, FREE, USED),
                                          n, AlignUp(bytes), USED, FREE)
      <4>2. d \in Nat /\ 0 < d /\ d + AlignUp(bytes) <= pool.size[i]
        BY <2>0, <2>1, <3>1
      <4>3. Grant(n, q, bytes)
        BY <3>1, <3>3
      <4> HIDE DEF d
      <4>4. /\ PoolOK(q) /\ Reached(q) /\ Coalesced(q)
            /\ UsedSlots(q) = UsedSlots(pool) \union {n}
            /\ n \notin UsedSlots(pool)
            /\ q.size[n] = AlignUp(bytes)
            /\ \A j \in UsedSlots(pool) :
                 q.data[j] = pool.data[j] /\ q.size[j] = pool.size[j]
        BY <2>0, <2>1, <4>1, <4>2, IInvFacts, AllocInsideOK DEF n
      <4> HIDE DEF q
      <4> QED
        BY <4>3, <4>4, GrantStep
    <3> QED
      BY <3>2, <3>3
  <2> QED
    BY <1>2, <2>2, <2>3 DEF mmAllocAtAddr
<1> QED
  BY <1>1, <1>2

LEMMA ReleaseStep ==
  ASSUME IInv, NEW h \in held, ReleaseBlock(h)
  PROVE  Effect
<1>0. h \in Blocks /\ h \in AllBlocks
  BY IInvFacts DEF AllBlocks
<1>1. CASE gFreeQueueTimer = 0
  <2>1. /\ pool' = mempool_free_addr(pool, h.addr)
        /\ held' = held \ {h}
        /\ gFreeQueue' = gFreeQueue
    BY <1>1 DEF ReleaseBlock, FreeNow
  <2>2. PoolInv(pool', AllBlocks \ {h})
    BY <1>0, <2>1, IInvFacts, FreeAddrOK
  <2> QED
    BY <2>1, <2>2 DEF Freed, Effect
<1>2. CASE gFreeQueueTimer # 0
  <2>1. mempool_free_queue(h)
    BY <1>2 DEF ReleaseBlock
  <2>2. CASE Len(gFreeQueue) = FreeQueueSize
    <3>1. OverrunOf("queue")
      BY <2>1, <2>2 DEF mempool_free_queue
    <3> QED
      BY <3>1, QuietStep DEF OverrunOf, Effect
  <2>3. CASE Len(gFreeQueue) # FreeQueueSize
    <3> DEFINE delay == gFreeQueueTimer % ByteRange
               e == [addr |-> h.addr, delay |-> delay, bytes |-> h.bytes]
    <3>1. gFreeQueue' = Append(gFreeQueue, e) /\ held' = held \ {h} /\ pool' = pool
      BY <2>1, <2>3 DEF mempool_free_queue
    <3>2. e \in QueueEntries /\ e.addr = h.addr /\ BlockOf(e) = h
      <4>1. gFreeQueueTimer \in Nat
        BY IInvFacts DEF ControlOK
      <4>2. delay \in 0 .. ByteRange - 1
        BY <4>1, ByteBounds
      <4> HIDE DEF delay
      <4> QED
        BY <1>0, <4>2 DEF QueueEntries, Blocks, BlockOf
    <3> HIDE DEF e
    <3>3. \A g \in held : g.addr = h.addr => g = h
      BY IInvFacts DEF Matches, AllBlocks
    <3>4. /\ gFreeQueue \in Queues /\ held \subseteq Blocks
          /\ QueueInv(gFreeQueue, held)
          /\ QueuedBlocks = BlocksOf(gFreeQueue)
      BY IInvFacts
    <3>5. /\ gFreeQueue' \in Queues
          /\ QueueInv(gFreeQueue', held \ {h})
          /\ BlocksOf(gFreeQueue') = BlocksOf(gFreeQueue) \union {h}
      <4>1. /\ Append(gFreeQueue, e) \in Queues
            /\ QueueInv(Append(gFreeQueue, e), held \ {h})
            /\ BlocksOf(Append(gFreeQueue, e)) = BlocksOf(gFreeQueue) \union {h}
        BY <2>3, <3>2, <3>3, <3>4, QueueAppend
      <4> QED
        BY <3>1, <4>1
    <3> QED
      BY <3>1, <3>4, <3>5 DEF Queued, Effect
  <2> QED
    BY <2>2, <2>3
<1> QED
  BY <1>1, <1>2

LEMMA TickStep ==
  ASSUME IInv, TickEntry
  PROVE  Effect
<1>1. tickIndex \in 1 .. Len(gFreeQueue)
  <2>1. tickIndex \in Nat /\ tickIndex >= 1 /\ tickIndex <= Len(gFreeQueue)
    BY IInvFacts DEF TickEntry, ControlOK, Last
  <2>2. Len(gFreeQueue) \in Nat
    BY IInvFacts, QueueTyped
  <2> QED
    BY <2>1, <2>2
<1>2. TypeOK /\ QueuedOnce
  BY DEF IInv
<1> DEFINE e == gFreeQueue[tickIndex]
<1>3. CASE Decremented(e.delay) = 0
  <2>1. /\ pool' = mempool_free_addr(pool, e.addr)
        /\ gFreeQueue' = SwapOut(tickIndex)
        /\ held' = held
    BY <1>3 DEF TickEntry
  <2>2. /\ gFreeQueue' \in Queues
        /\ QueueInv(gFreeQueue', held)
        /\ BlocksOf(gFreeQueue') = QueuedBlocks \ {BlockOf(e)}
        /\ BlockOf(e) \in QueuedBlocks \ held
    BY <1>1, <1>2, <2>1, QueueSwapOut
  <2> HIDE DEF e
  <2>3. BlockOf(e) \in AllBlocks /\ BlockOf(e).addr = e.addr
    BY <2>2 DEF AllBlocks, BlockOf
  <2>4. PoolInv(pool', AllBlocks \ {BlockOf(e)})
    BY <2>1, <2>3, IInvFacts, FreeAddrOK
  <2>5. Reclaimed(BlockOf(e))
    BY <2>1, <2>2, <2>4 DEF Reclaimed
  <2> QED
    BY <2>2, <2>5 DEF Effect
<1>4. CASE Decremented(e.delay) # 0
  <2>1. /\ gFreeQueue' = CountedDown(gFreeQueue, tickIndex)
        /\ held' = held /\ pool' = pool
    BY <1>4 DEF TickEntry, CountedDown
  <2> HIDE DEF e
  <2>a. gFreeQueue \in Queues /\ QueueInv(gFreeQueue, held)
    BY IInvFacts
  <2>b. QueuedBlocks = BlocksOf(gFreeQueue)
    BY IInvFacts
  <2>2. /\ gFreeQueue' \in Queues
        /\ QueueInv(gFreeQueue', held)
        /\ BlocksOf(gFreeQueue') = QueuedBlocks
    BY <1>1, <2>1, <2>a, <2>b, QueueCountdown
  <2> QED
    BY <2>1, <2>2 DEF Quiet, Effect
<1> QED
  BY <1>3, <1>4

LEMMA FlushStep ==
  ASSUME IInv, FlushEntry
  PROVE  Effect
<1> DEFINE e == gFreeQueue[Last]
<1>1. TypeOK /\ QueuedOnce
  BY DEF IInv
<1>2. /\ gFreeQueue # <<>>
      /\ pool' = mempool_free_addr(pool, e.addr)
      /\ gFreeQueue' = SubSeq(gFreeQueue, 1, Last - 1)
      /\ held' = held
  BY DEF FlushEntry
<1>3. /\ gFreeQueue' \in Queues
      /\ QueueInv(gFreeQueue', held)
      /\ BlocksOf(gFreeQueue') = QueuedBlocks \ {BlockOf(e)}
      /\ BlockOf(e) \in QueuedBlocks \ held
  BY <1>1, <1>2, QueuePop
<1> HIDE DEF e
<1>4. BlockOf(e) \in AllBlocks /\ BlockOf(e).addr = e.addr
  BY <1>3 DEF AllBlocks, BlockOf
<1>5. PoolInv(pool', AllBlocks \ {BlockOf(e)})
  BY <1>2, <1>4, IInvFacts, FreeAddrOK
<1>6. Reclaimed(BlockOf(e))
  BY <1>2, <1>3, <1>5 DEF Reclaimed
<1> QED
  BY <1>3, <1>6 DEF Effect

(* Every step has one of the five effects and keeps the control variables  *)
(* in their ranges.                                                        *)
LEMMA NextEffect ==
  ASSUME IInv, [Next]_vars
  PROVE  Effect /\ ControlOK'
<1>0. ControlOK
  BY IInvFacts
<1>1. ASSUME NEW bytes \in Requests, mmAlloc(bytes)
      PROVE  Effect /\ ControlOK'
  <2>1. Effect
    BY <1>1, AllocSteps
  <2> QED
    BY <1>0, <1>1, <2>1 DEF mmAlloc, Grant, OverrunOf, ControlOK
<1>2. ASSUME NEW bytes \in Requests, NEW addr \in FixedAddrs,
             mmAllocAtAddr(addr, bytes)
      PROVE  Effect /\ ControlOK'
  <2>1. Effect
    BY <1>2, AllocSteps
  <2>2. \/ overrun' = "slots" /\ UNCHANGED <<gFreeQueueTimer, phase, tickIndex>>
        \/ UNCHANGED <<gFreeQueueTimer, phase, tickIndex, overrun>>
    BY <1>2 DEF mmAllocAtAddr, mmAllocAtSlotStart, mmAllocInsideSlot, Grant,
                OverrunOf
  <2> QED
    BY <1>0, <2>1, <2>2 DEF ControlOK
<1>3. ASSUME NEW h \in held, mmFree(h) \/ PanicFree(h)
      PROVE  Effect /\ ControlOK'
  <2>1. ReleaseBlock(h)
    BY <1>3 DEF mmFree, PanicFree
  <2>2. Effect
    BY <2>1, ReleaseStep
  <2> QED
    BY <1>0, <2>1, <2>2 DEF ReleaseBlock, FreeNow, mempool_free_queue, OverrunOf,
                            ControlOK
<1>4. CASE \/ \E state \in Timers : mmSetDelay(state)
           \/ mmFreeTick \/ PanicDone \/ TickDone \/ mmFlushFreeStack \/ FlushDone
           \/ Overrun \/ UNCHANGED vars
  <2>1. UNCHANGED <<pool, gFreeQueue, held>>
    BY <1>4 DEF mmSetDelay, mmFreeTick, PanicDone, TickDone, mmFlushFreeStack,
                FlushDone, Overrun, vars
  <2>2. Effect
    BY <2>1, QuietStep DEF Effect
  <2>3. ControlOK'
    BY <1>0, <1>4, PoolAssumption
       DEF mmSetDelay, mmFreeTick, PanicDone, TickDone, mmFlushFreeStack,
           FlushDone, Overrun, vars, ControlOK
  <2> QED
    BY <2>2, <2>3
<1>5. CASE TickEntry
  <2>1. Effect
    BY <1>5, TickStep
  <2> QED
    BY <1>0, <1>5, <2>1 DEF TickEntry, ControlOK
<1>6. CASE FlushEntry
  <2>1. Effect
    BY <1>6, FlushStep
  <2> QED
    BY <1>0, <1>6, <2>1 DEF FlushEntry, ControlOK
<1> QED
  BY <1>1, <1>2, <1>3, <1>4, <1>5, <1>6 DEF Next, Running

-----------------------------------------------------------------------------
(* The invariant. *)

LEMMA InitIInv == Init => IInv
<1> SUFFICES ASSUME Init PROVE IInv
  OBVIOUS
<1>1. PoolOK(pool) /\ UsedSlots(pool) = {}
  BY InitialPoolOK DEF Init
<1>2. /\ MaxSlots \in Nat /\ pool.curNumSlots = 1
      /\ pool.index = [i \in SlotIds |-> i]
      /\ pool.nextIndex = [i \in SlotIds |-> NONE]
  BY PoolAssumption DEF Init, InitialPool
<1>3. Linked(pool) \subseteq {0}
  BY <1>2 DEF Linked, Unlinked, SlotIds
<1>4. Reached(pool)
  BY <1>3, SlotIdsFinite DEF Reached, Chain, WalkFrom
<1>5. Coalesced(pool)
  BY <1>2, <1>3, SlotIdsFinite DEF Coalesced
<1>6. gFreeQueue = <<>> /\ Len(gFreeQueue) = 0 /\ gFreeQueue \in Seq(QueueEntries)
  BY EmptySeq DEF Init
<1>7. QueuedBlocks = {}
  BY <1>6 DEF QueuedBlocks, Last
<1>8. PoolInv(pool, AllBlocks)
  BY <1>1, <1>4, <1>5, <1>7 DEF PoolInv, Matches, AllBlocks, Init
<1>9. QueuedOnce
  BY <1>6 DEF QueuedOnce, Last
<1>10. TypeOK
  BY <1>1, <1>6, PoolAssumption DEF TypeOK, PoolOK, Init
<1> QED
  BY <1>8, <1>9, <1>10 DEF IInv, Init

LEMMA EffectIInv ==
  ASSUME IInv, Effect, ControlOK'
  PROVE  IInv'
<1>0. /\ PoolInv(pool, AllBlocks) /\ gFreeQueue \in Queues
      /\ QueueInv(gFreeQueue, held) /\ QueuedBlocks = BlocksOf(gFreeQueue)
      /\ held \subseteq Blocks
  BY IInvFacts
<1>1. QueuedBlocks' = BlocksOf(gFreeQueue') /\ (QueuedOnce' <=> QueueInv(gFreeQueue', held'))
  BY DEF QueuedBlocks, BlocksOf, BlockOf, QueuedOnce, QueueInv, Last
<1>2. AllBlocks' = held' \union BlocksOf(gFreeQueue')
  BY <1>1 DEF AllBlocks
<1>3. SUFFICES /\ PoolInv(pool', AllBlocks') /\ gFreeQueue' \in Queues
               /\ QueueInv(gFreeQueue', held') /\ held' \subseteq Blocks
  <2>1. PoolOK(pool') => pool' \in Pools
    BY DEF PoolOK
  <2> QED
    BY <1>1, <1>3, <2>1 DEF IInv, TypeOK, ControlOK, Queues, PoolInv
<1>4. ASSUME NEW b \in Blocks, Granted(b)
      PROVE  /\ PoolInv(pool', AllBlocks') /\ gFreeQueue' \in Queues
             /\ QueueInv(gFreeQueue', held') /\ held' \subseteq Blocks
  <2>1. AllBlocks' = AllBlocks \union {b}
    BY <1>0, <1>2, <1>4 DEF Granted, AllBlocks
  <2>2. PoolInv(pool', AllBlocks \union {b}) /\ gFreeQueue' = gFreeQueue
        /\ held' = held \union {b}
    BY <1>4 DEF Granted
  <2>3. \A k \in 1 .. Len(gFreeQueue) : gFreeQueue[k].addr # b.addr
    <3>1. ASSUME NEW k \in 1 .. Len(gFreeQueue), gFreeQueue[k].addr = b.addr
          PROVE  FALSE
      <4>1. BlockOf(gFreeQueue[k]) \in AllBlocks /\ BlockOf(gFreeQueue[k]).addr = b.addr
        BY <1>0, <3>1 DEF BlocksOf, BlockOf, AllBlocks
      <4>2. BlockOf(gFreeQueue[k]) = b
        BY <2>2, <4>1 DEF PoolInv, Matches
      <4> QED
        BY <1>4, <4>1, <4>2 DEF Granted
    <3> QED
      BY <3>1
  <2>4. QueueInv(gFreeQueue', held')
    BY <1>0, <2>2, <2>3 DEF QueueInv
  <2> QED
    BY <1>0, <2>1, <2>2, <2>4
<1>5. ASSUME NEW b \in held, Queued(b)
      PROVE  /\ PoolInv(pool', AllBlocks') /\ gFreeQueue' \in Queues
             /\ QueueInv(gFreeQueue', held') /\ held' \subseteq Blocks
  <2>1. AllBlocks' = AllBlocks
    BY <1>0, <1>2, <1>5 DEF Queued, AllBlocks
  <2> QED
    BY <1>0, <1>5, <2>1 DEF Queued
<1>6. ASSUME NEW b \in held, Freed(b)
      PROVE  /\ PoolInv(pool', AllBlocks') /\ gFreeQueue' \in Queues
             /\ QueueInv(gFreeQueue', held') /\ held' \subseteq Blocks
  <2>1. b \notin QueuedBlocks
    BY <1>0, <1>6 DEF QueueInv, BlocksOf, BlockOf
  <2>2. AllBlocks' = AllBlocks \ {b}
    BY <1>0, <1>2, <1>6, <2>1 DEF Freed, AllBlocks
  <2>3. QueueInv(gFreeQueue', held')
    BY <1>0, <1>6 DEF Freed, QueueInv
  <2> QED
    BY <1>0, <1>6, <2>2, <2>3 DEF Freed
<1>7. ASSUME NEW b \in QueuedBlocks, Reclaimed(b)
      PROVE  /\ PoolInv(pool', AllBlocks') /\ gFreeQueue' \in Queues
             /\ QueueInv(gFreeQueue', held') /\ held' \subseteq Blocks
  <2>1. AllBlocks' = AllBlocks \ {b}
    BY <1>0, <1>2, <1>7 DEF Reclaimed, AllBlocks
  <2> QED
    BY <1>0, <1>7, <2>1 DEF Reclaimed
<1>8. ASSUME Quiet
      PROVE  /\ PoolInv(pool', AllBlocks') /\ gFreeQueue' \in Queues
             /\ QueueInv(gFreeQueue', held') /\ held' \subseteq Blocks
  <2>1. AllBlocks' = AllBlocks
    BY <1>0, <1>2, <1>8 DEF Quiet, AllBlocks
  <2> QED
    BY <1>0, <1>8, <2>1 DEF Quiet
<1> QED
  BY <1>4, <1>5, <1>6, <1>7, <1>8 DEF Effect

LEMMA Invariance == Spec => []IInv
<1>1. Init => IInv
  BY InitIInv
<1>2. IInv /\ [Next]_vars => IInv'
  BY NextEffect, EffectIInv
<1> QED
  BY <1>1, <1>2, PTL DEF Spec

-----------------------------------------------------------------------------
(* The theorems.                                                           *)

(* Every variable keeps its type; in particular the queue of frees never   *)
(* grows past its array while nothing has been overrun.                    *)
THEOREM TypeCorrect == Spec => []TypeOK
<1>1. IInv => TypeOK
  BY DEF IInv
<1> QED
  BY <1>1, Invariance, PTL

(* mmAlloc and mmAllocAtAddr never hand out memory that a caller owns or   *)
(* that waits in the queue, for any pool, slot table and granule.          *)
THEOREM NeverOverlap == Spec => []BlocksDisjoint
<1>1. IInv => BlocksDisjoint
  <2> SUFFICES ASSUME IInv PROVE BlocksDisjoint
    OBVIOUS
  <2>1. PoolOK(pool) /\ AllBlocks \subseteq Blocks /\ Matches(pool, AllBlocks)
    BY IInvFacts
  <2> QED
    BY <2>1, MatchesDisjoint DEF BlocksDisjoint, AllBlocks
<1> QED
  BY <1>1, Invariance, PTL

(* A block waits in the queue at most once and then has no owner.          *)
THEOREM NeverQueuedTwice == Spec => []QueuedOnce
<1>1. IInv => QueuedOnce
  BY DEF IInv
<1> QED
  BY <1>1, Invariance, PTL

(* Used slots are the blocks owned or queued: nothing leaks, and no free   *)
(* is lost or hits another block.                                          *)
THEOREM NoLeak == Spec => []UsedIsOwned
<1>1. IInv => UsedIsOwned
  BY DEF IInv, PoolInv, Matches, UsedIsOwned, AllBlocks
<1> QED
  BY <1>1, Invariance, PTL

(* Cutting and merging keep the list of slots whole.                       *)
THEOREM ListStaysIntact == Spec => []ListIntact
<1>1. IInv => ListIntact
  <2> SUFFICES ASSUME IInv PROVE ListIntact
    OBVIOUS
  <2>1. PoolOK(pool) /\ Reached(pool)
    BY IInvFacts
  <2>2. Chain(pool) = Linked(pool)
    BY <2>1, ChainLinked DEF Reached
  <2> QED
    BY <2>1, <2>2 DEF ListIntact, PoolOK
<1> QED
  BY <1>1, Invariance, PTL

(* Free neighbours are always merged.                                      *)
THEOREM AlwaysCoalesced == Spec => []NoAdjacentFree
<1>1. IInv => NoAdjacentFree
  BY DEF IInv, PoolInv, NoAdjacentFree
<1> QED
  BY <1>1, Invariance, PTL

(* The pool implements the abstract heap: a block is taken disjoint from   *)
(* all others, and its memory is reusable only after it was released and   *)
(* reclaimed.                                                              *)
THEOREM ImplementsHeap == Spec => HeapSpec
<1>1. Init => Heap!Init
  BY EmptySeq DEF Init, Heap!Init, QueuedBlocks, Last
<1>2. IInv /\ IInv' /\ [Next]_vars => [Heap!Next]_<<held, QueuedBlocks>>
  <2> SUFFICES ASSUME IInv, IInv', [Next]_vars
               PROVE  [Heap!Next]_<<held, QueuedBlocks>>
    OBVIOUS
  <2>1. Effect
    BY NextEffect
  <2>2. QueuedBlocks' = BlocksOf(gFreeQueue') /\ QueuedBlocks = BlocksOf(gFreeQueue)
    BY DEF QueuedBlocks, BlocksOf, BlockOf, Last
  <2>3. ASSUME NEW b \in Blocks, Granted(b)
        PROVE  Heap!Next
    <3>1. b \in Heap!Block
      BY <2>3 DEF Granted, Blocks, Heap!Block, Ram
    <3>2. held' = held \union {b} /\ QueuedBlocks' = QueuedBlocks
      BY <2>2, <2>3 DEF Granted
    <3>3. /\ PoolOK(pool') /\ AllBlocks \union {b} \subseteq Blocks
          /\ Matches(pool', AllBlocks \union {b})
      BY <2>3, IInvFacts DEF Granted, PoolInv
    <3>4. /\ b.addr + b.bytes <= Base + PoolBytes
          /\ \A c \in AllBlocks \union {b} :
               b # c => Apart(b.addr, b.bytes, c.addr, c.bytes)
      BY <3>3, MatchesDisjoint
    <3>5. \A c \in held \union QueuedBlocks : Heap!Disjoint(b, c)
      BY <2>3, <3>4 DEF Granted, AllBlocks, Apart, Heap!Disjoint
    <3>6. Heap!Take(b)
      BY <3>2, <3>4, <3>5 DEF Heap!Take
    <3> QED
      BY <3>1, <3>6 DEF Heap!Next
  <2>4. ASSUME NEW b \in held, Queued(b)
        PROVE  Heap!Next
    BY <2>2, <2>4 DEF Queued, Heap!Next, Heap!Release
  <2>5. ASSUME NEW b \in held, Freed(b)
        PROVE  Heap!Next
    BY <2>2, <2>5 DEF Freed, Heap!Next, Heap!ReleaseNow
  <2>6. ASSUME NEW b \in QueuedBlocks, Reclaimed(b)
        PROVE  Heap!Next
    BY <2>2, <2>6 DEF Reclaimed, Heap!Next, Heap!Reclaim
  <2>7. ASSUME Quiet
        PROVE  UNCHANGED <<held, QueuedBlocks>>
    BY <2>2, <2>7 DEF Quiet
  <2> QED
    BY <2>1, <2>3, <2>4, <2>5, <2>6, <2>7 DEF Effect
<1> QED
  BY <1>1, <1>2, Invariance, PTL DEF Spec, HeapSpec, Heap!Spec, Heap!heapVars

-----------------------------------------------------------------------------
(* The loop of mmFreeTick. *)

(* The entries that the loop has still to look at, and those behind it.    *)
Ahead == {gFreeQueue[k] : k \in tickIndex .. Last}
Behind == {gFreeQueue[k] : k \in 1 .. tickIndex - 1}

(* What is left of entries that are counted down once.                     *)
CountedOnce(E) ==
  {[e EXCEPT !.delay = Decremented(e.delay)] :
     e \in {x \in E : Decremented(x.delay) # 0}}

(* The loop starts at the first entry, and keeps apart what it has counted *)
(* down and what it has not, whichever entries it moves.                   *)
TickInv ==
  /\ phase = "panic" => tickIndex = 1
  /\ phase = "tick" =>
       /\ tickIndex \in 1 .. Last + 1
       /\ Ahead \subseteq Entries(atLoopStart)
       /\ Behind = CountedOnce(Entries(atLoopStart) \ Ahead)

(* An entry is in the queue once: it is told from the others by its        *)
(* address.                                                                *)
LEMMA EntriesDiffer ==
  ASSUME IInv
  PROVE  /\ gFreeQueue \in Seq(QueueEntries) /\ Last \in Nat
         /\ DOMAIN gFreeQueue = 1 .. Last
         /\ \A j, k \in 1 .. Last : gFreeQueue[j] = gFreeQueue[k] => j = k
<1>1. gFreeQueue \in Seq(QueueEntries)
  BY DEF IInv, TypeOK
<1>2. \A j, k \in 1 .. Last : gFreeQueue[j].addr = gFreeQueue[k].addr => j = k
  BY DEF IInv, QueuedOnce
<1> QED
  BY <1>1, <1>2, LenProperties DEF Last

(* A turn that frees an entry takes it from what is ahead, and leaves what *)
(* is behind.                                                              *)
LEMMA TickFrees ==
  ASSUME IInv, tickIndex \in 1 .. Last, gFreeQueue' = SwapOut(tickIndex),
         tickIndex' = tickIndex
  PROVE  /\ Last' = Last - 1
         /\ Ahead' = Ahead \ {gFreeQueue[tickIndex]}
         /\ Behind' = Behind
<1> DEFINE q == gFreeQueue
           i == tickIndex
           L == Last
           t == SwapOut(i)
<1>1. /\ L \in Nat /\ i \in 1 .. L /\ \A j, k \in 1 .. L : q[j] = q[k] => j = k
      /\ q \in Seq(QueueEntries) /\ L = Len(q)
  BY EntriesDiffer DEF Last
<1>2. t = [m \in 1 .. L - 1 |-> IF m = i THEN q[L] ELSE q[m]]
  BY DEF SwapOut
<1>3. Last' = Len(t) /\ Ahead' = {t[k] : k \in i .. Last'} /\ Behind' = {t[k] : k \in 1 .. i - 1}
  BY DEF Ahead, Behind, Last
<1>4. Ahead = {q[k] : k \in i .. L} /\ Behind = {q[k] : k \in 1 .. i - 1}
  BY DEF Ahead, Behind
<1> HIDE DEF q, i, L, t
<1>5. \A k \in 1 .. L : q[k] \in QueueEntries
  BY <1>1, ElementOfSeq
<1>6. Len(t) = L - 1 /\ \A k \in 1 .. L - 1 : t[k] = IF k = i THEN q[L] ELSE q[k]
  <2>1. t \in [1 .. L - 1 -> QueueEntries]
    BY <1>1, <1>2, <1>5
  <2>2. t \in Seq(QueueEntries)
    BY <1>1, <2>1, SeqDef
  <2>3. DOMAIN t = 1 .. Len(t) /\ Len(t) \in Nat /\ DOMAIN t = 1 .. L - 1
    BY <2>1, <2>2, LenProperties
  <2> QED
    BY <1>1, <1>2, <2>3
<1>7. {t[k] : k \in 1 .. i - 1} = {q[k] : k \in 1 .. i - 1}
  <2>1. \A k \in 1 .. i - 1 : t[k] = q[k]
    BY <1>1, <1>6
  <2> QED
    BY <2>1
<1>8. {t[k] : k \in i .. L - 1} = {q[k] : k \in i .. L} \ {q[i]}
  <2>1. ASSUME NEW k \in i .. L - 1
        PROVE  t[k] \in {q[m] : m \in i .. L} /\ t[k] # q[i]
    BY <1>1, <1>6
  <2>2. ASSUME NEW k \in i .. L, k # i
        PROVE  \E m \in i .. L - 1 : t[m] = q[k]
    <3>1. CASE k = L
      BY <1>1, <1>6, <2>2, <3>1
    <3>2. CASE k # L
      BY <1>1, <1>6, <2>2, <3>2
    <3> QED
      BY <3>1, <3>2
  <2>3. ASSUME NEW x \in {t[k] : k \in i .. L - 1}
        PROVE  x \in {q[k] : k \in i .. L} \ {q[i]}
    BY <2>1
  <2>4. ASSUME NEW x \in {q[k] : k \in i .. L} \ {q[i]}
        PROVE  x \in {t[k] : k \in i .. L - 1}
    <3>1. PICK k \in i .. L : x = q[k] /\ k # i
      BY <2>4
    <3>2. PICK m \in i .. L - 1 : t[m] = q[k]
      BY <2>2, <3>1
    <3> QED
      BY <3>1, <3>2
  <2> QED
    BY <2>3, <2>4
<1> QED
  BY <1>3, <1>4, <1>6, <1>7, <1>8 DEF q, i, L

(* A turn that keeps an entry moves it, counted down, from what is ahead   *)
(* to what is behind.                                                      *)
LEMMA TickKeeps ==
  ASSUME IInv, tickIndex \in 1 .. Last,
         gFreeQueue' = [gFreeQueue EXCEPT ![tickIndex].delay = Decremented(@)],
         tickIndex' = tickIndex + 1
  PROVE  /\ Last' = Last
         /\ Ahead' = Ahead \ {gFreeQueue[tickIndex]}
         /\ Behind' = Behind \union
              {[gFreeQueue[tickIndex] EXCEPT !.delay = Decremented(gFreeQueue[tickIndex].delay)]}
<1> DEFINE q == gFreeQueue
           i == tickIndex
           L == Last
           t == [q EXCEPT ![i].delay = Decremented(@)]
           e == [q[i] EXCEPT !.delay = Decremented(q[i].delay)]
<1>1. /\ L \in Nat /\ i \in 1 .. L /\ \A j, k \in 1 .. L : q[j] = q[k] => j = k
      /\ q \in Seq(QueueEntries) /\ L = Len(q)
  BY EntriesDiffer DEF Last
<1>2. Last' = Len(t) /\ Ahead' = {t[k] : k \in i + 1 .. Last'} /\ Behind' = {t[k] : k \in 1 .. i}
  <2>1. i + 1 - 1 = i
    BY <1>1
  <2> QED
    BY <2>1 DEF Ahead, Behind, Last
<1>3. Ahead = {q[k] : k \in i .. L} /\ Behind = {q[k] : k \in 1 .. i - 1}
  BY DEF Ahead, Behind
<1>4. q[i] \in QueueEntries /\ e \in QueueEntries
  <2>1. q[i] \in QueueEntries
    BY <1>1, ElementOfSeq
  <2>2. Decremented(q[i].delay) \in 0 .. ByteRange - 1
    BY <2>1, ByteBounds DEF QueueEntries
  <2> QED
    BY <2>1, <2>2 DEF QueueEntries
<1>5. t = [q EXCEPT ![i] = e]
  BY <1>1, <1>4
<1> HIDE DEF q, i, L, t, e
<1>6. Len(t) = L /\ \A k \in 1 .. L : t[k] = IF k = i THEN e ELSE q[k]
  BY <1>1, <1>4, <1>5, ExceptSeq
<1>7. {t[k] : k \in i + 1 .. L} = {q[k] : k \in i .. L} \ {q[i]}
  <2>1. \A k \in i + 1 .. L : t[k] = q[k] /\ q[k] # q[i] /\ k \in i .. L
    BY <1>1, <1>6
  <2>2. \A k \in i .. L : k # i => k \in i + 1 .. L
    BY <1>1
  <2> QED
    BY <2>1, <2>2
<1>8. {t[k] : k \in 1 .. i} = {q[k] : k \in 1 .. i - 1} \union {e}
  <2>1. \A k \in 1 .. i - 1 : t[k] = q[k] /\ k \in 1 .. i
    BY <1>1, <1>6
  <2>2. t[i] = e /\ i \in 1 .. i
    BY <1>1, <1>6
  <2>3. \A k \in 1 .. i : k = i \/ k \in 1 .. i - 1
    BY <1>1
  <2> QED
    BY <2>1, <2>2, <2>3
<1> QED
  BY <1>2, <1>3, <1>6, <1>7, <1>8 DEF q, i, L, e

LEMMA InitTickInv == MCInit => TickInv
BY DEF MCInit, Init, TickInv

(* A turn of the loop.                                                     *)
LEMMA TickEntryTickInv ==
  ASSUME IInv, TickInv, TickEntry, atLoopStart' = atLoopStart
  PROVE  TickInv'
<1> DEFINE e == gFreeQueue[tickIndex]
           S == Entries(atLoopStart)
<1>1. /\ phase = "tick" /\ phase' = "tick" /\ tickIndex \in 1 .. Last
      /\ Ahead \subseteq S /\ Behind = CountedOnce(S \ Ahead) /\ Last \in Nat
  BY EntriesDiffer DEF TickEntry, TickInv
<1>2. e \in Ahead /\ e \in S
  BY <1>1 DEF Ahead
<1>3. S' = S
  BY DEF Entries
<1> HIDE DEF S
<1>4. CASE Decremented(e.delay) = 0
  <2>1. gFreeQueue' = SwapOut(tickIndex) /\ tickIndex' = tickIndex
    BY <1>4 DEF TickEntry
  <2>2. /\ Last' = Last - 1 /\ Ahead' = Ahead \ {e} /\ Behind' = Behind
    BY <1>1, <2>1, TickFrees
  <2>3. CountedOnce(S \ (Ahead \ {e})) = CountedOnce(S \ Ahead)
    BY <1>4 DEF CountedOnce
  <2>4. tickIndex' \in 1 .. Last' + 1
    BY <1>1, <2>1, <2>2
  <2> QED
    BY <1>1, <1>3, <2>2, <2>3, <2>4 DEF TickInv, S
<1>5. CASE Decremented(e.delay) # 0
  <2>1. /\ gFreeQueue' = [gFreeQueue EXCEPT ![tickIndex].delay = Decremented(@)]
        /\ tickIndex' = tickIndex + 1
    BY <1>5 DEF TickEntry
  <2>2. /\ Last' = Last /\ Ahead' = Ahead \ {e}
        /\ Behind' = Behind \union {[e EXCEPT !.delay = Decremented(e.delay)]}
    BY <1>1, <2>1, TickKeeps
  <2>3. CountedOnce(S \ (Ahead \ {e})) =
          CountedOnce(S \ Ahead) \union {[e EXCEPT !.delay = Decremented(e.delay)]}
    BY <1>2, <1>5 DEF CountedOnce
  <2>4. tickIndex' \in 1 .. Last' + 1
    BY <1>1, <2>1, <2>2
  <2> QED
    BY <1>1, <1>3, <2>2, <2>3, <2>4 DEF TickInv, S
<1> QED
  BY <1>4, <1>5

(* The loop begins with everything ahead.                                  *)
LEMMA LoopBegins ==
  ASSUME Last' \in Nat, DOMAIN gFreeQueue' = 1 .. Last', phase' = "tick", tickIndex' = 1,
         atLoopStart' = gFreeQueue'
  PROVE  TickInv'
<1>1. Entries(atLoopStart)' = {gFreeQueue'[k] : k \in 1 .. Last'}
  BY DEF Entries
<1>2. Ahead' = {gFreeQueue'[k] : k \in 1 .. Last'} /\ Behind' = {}
  BY DEF Ahead, Behind
<1>3. CountedOnce({}) = {}
  BY DEF CountedOnce
<1>4. CountedOnce(Entries(atLoopStart) \ Ahead)' = {}
  <2>1. (Entries(atLoopStart) \ Ahead)' = {}
    BY <1>1, <1>2
  <2> QED
    BY <1>3, <2>1
<1>5. Ahead' \subseteq Entries(atLoopStart)'
  BY <1>1, <1>2
<1>6. Behind' = CountedOnce(Entries(atLoopStart) \ Ahead)'
  BY <1>2, <1>4
<1>7. tickIndex' \in 1 .. Last' + 1
  BY DEF Last
<1> QED
  BY <1>5, <1>6, <1>7, Zenon DEF TickInv

(* Every step keeps the loop's invariant.                                  *)
LEMMA NextTickInv ==
  ASSUME IInv, IInv', TickInv, [MCNext]_MCVars
  PROVE  TickInv'
<1>1. CASE UNCHANGED MCVars
  BY <1>1 DEF MCVars, vars, TickInv, Ahead, Behind, Entries, Last
<1>2. CASE MCNext
  <2>0. Last' \in Nat /\ DOMAIN gFreeQueue' = 1 .. Last'
    <3>1. gFreeQueue' \in Seq(QueueEntries)
      BY DEF IInv, TypeOK
    <3> QED
      BY <3>1, LenProperties DEF Last
  <2>1. CASE TickEntry
    BY <1>2, <2>1, TickEntryTickInv DEF MCNext, TickEntry
  <2>2. CASE mmFreeTick
    <3>1. CASE phase' = "panic"
      BY <2>2, <3>1 DEF mmFreeTick, TickInv
    <3>2. CASE phase' # "panic"
      BY <1>2, <2>0, <2>2, <3>2, LoopBegins DEF mmFreeTick, MCNext
    <3> QED
      BY <3>1, <3>2
  <2>3. CASE PanicDone
    BY <1>2, <2>0, <2>3, LoopBegins DEF PanicDone, MCNext, TickInv
  <2>4. CASE Overrun
    <3>1. UNCHANGED vars
      BY <2>4 DEF Overrun
    <3>2. UNCHANGED <<phase, tickIndex, gFreeQueue>>
      BY <3>1 DEF vars
    <3>3. phase = "tick" => atLoopStart' = atLoopStart
      BY <1>2, <3>2 DEF MCNext
    <3> QED
      BY <3>2, <3>3 DEF TickInv, Ahead, Behind, Entries, Last
  <2>5. CASE phase' \notin {"panic", "tick"}
    BY <2>5 DEF TickInv
  <2>6. CASE phase = "panic" /\ phase' = "panic" /\ tickIndex' = tickIndex
    BY <2>6 DEF TickInv
  <2>7. ASSUME Running
        PROVE  \/ TickEntry \/ mmFreeTick \/ PanicDone
               \/ phase' \notin {"panic", "tick"}
               \/ phase = "panic" /\ phase' = "panic" /\ tickIndex' = tickIndex
    <3>1. ASSUME NEW h \in held, PanicFree(h)
          PROVE  phase = "panic" /\ phase' = "panic" /\ tickIndex' = tickIndex
      BY <3>1 DEF PanicFree, ReleaseBlock, FreeNow, mempool_free_queue, OverrunOf
    <3>2. ASSUME NEW h \in held, mmFree(h) PROVE phase' = "idle"
      BY <3>2 DEF mmFree, ReleaseBlock, FreeNow, mempool_free_queue, OverrunOf
    <3>3. ASSUME NEW bytes \in Requests, mmAlloc(bytes) PROVE phase' = "idle"
      BY <3>3 DEF mmAlloc, Grant, OverrunOf
    <3>4. ASSUME NEW bytes \in Requests, NEW addr \in FixedAddrs, mmAllocAtAddr(addr, bytes)
          PROVE  phase' = "idle"
      BY <3>4 DEF mmAllocAtAddr, mmAllocAtSlotStart, mmAllocInsideSlot, Grant, OverrunOf
    <3>5. ASSUME NEW state \in Timers, mmSetDelay(state) PROVE phase' = "idle"
      BY <3>5 DEF mmSetDelay
    <3>6. TickDone \/ FlushDone \/ mmFlushFreeStack \/ FlushEntry => phase' \in {"idle", "flush"}
      BY DEF TickDone, FlushDone, mmFlushFreeStack, FlushEntry
    <3> QED
      BY <2>7, <3>1, <3>2, <3>3, <3>4, <3>5, <3>6 DEF Running
  <2> QED
    BY <1>2, <2>1, <2>2, <2>3, <2>4, <2>5, <2>6, <2>7 DEF MCNext, Next
<1> QED
  BY <1>1, <1>2

(* The loop ends with nothing ahead.                                       *)
LEMMA LoopEnds ==
  ASSUME IInv, TickInv, [MCNext]_MCVars, phase = "tick", phase' = "idle"
  PROVE  Entries(gFreeQueue) = CountedOnce(Entries(atLoopStart))
<1>1. Next
  BY DEF MCNext, MCVars, vars
<1>2. TickDone
  <2>1. ~Overrun
    BY DEF Overrun, vars
  <2> QED
    BY <1>1, <2>1
       DEF Next, Running, mmAlloc, mmAllocAtAddr, mmAllocAtSlotStart, mmAllocInsideSlot, mmFree,
           mmSetDelay, mmFreeTick, PanicFree, PanicDone, TickEntry, mmFlushFreeStack, FlushEntry,
           FlushDone
<1>3. Last \in Nat /\ DOMAIN gFreeQueue = 1 .. Last
  BY EntriesDiffer
<1>4. tickIndex = Last + 1
  BY <1>2, <1>3 DEF TickDone, TickInv
<1>5. Ahead = {} /\ Behind = Entries(gFreeQueue)
  BY <1>3, <1>4 DEF Ahead, Behind, Entries
<1>6. Entries(atLoopStart) \ {} = Entries(atLoopStart)
  OBVIOUS
<1> QED
  BY <1>5, <1>6 DEF TickInv

(* memory.c:373: one run of mmFreeTick's loop counts every queued delay    *)
(* down once, frees exactly the blocks whose delay ran out and keeps the   *)
(* others with their own delays, for any length of the queue.              *)
THEOREM EachDelayOnce == MCSpec => TickCountsOnce
<1>1. MCInit => IInv /\ TickInv
  BY InitIInv, InitTickInv DEF MCInit
<1>2. IInv /\ TickInv /\ [MCNext]_MCVars => IInv' /\ TickInv'
  <2> SUFFICES ASSUME IInv, TickInv, [MCNext]_MCVars PROVE IInv' /\ TickInv'
    OBVIOUS
  <2>1. [Next]_vars
    BY DEF MCNext, MCVars
  <2>2. IInv'
    BY <2>1, NextEffect, EffectIInv
  <2> QED
    BY <2>2, NextTickInv
<1>3. IInv /\ TickInv /\ [MCNext]_MCVars =>
        [phase = "tick" /\ phase' = "idle" =>
           Entries(gFreeQueue) =
             {[e EXCEPT !.delay = Decremented(e.delay)] :
                e \in {x \in Entries(atLoopStart) : Decremented(x.delay) # 0}}]_MCVars
  BY LoopEnds DEF CountedOnce
<1> QED
  BY <1>1, <1>2, <1>3, PTL DEF MCSpec, TickCountsOnce

-----------------------------------------------------------------------------
(* Sums over finite sets. *)

(* The sum of f over a set, as FreeRamExact has it. *)
Total(f, S) == MapThenSumSet(LAMBDA i : f[i], S)

Pick(s) == CHOOSE x \in s : TRUE

(* g adds up f over every set of the domain, one picked element after      *)
(* another.                                                                *)
AddsUp(f, D, g) ==
  g = [s \in D |-> IF s = {} THEN 0 ELSE f[Pick(s)] + g[s \ {Pick(s)}]]

(* The parts of S with n elements at most. *)
Small(S, n) == {s \in SUBSET S : Cardinality(s) <= n}

(* The sum is the value at the whole set of a function that adds up f.     *)
LEMMA Unfold ==
  ASSUME NEW f, NEW S
  PROVE  Total(f, S) = (CHOOSE g : AddsUp(f, SUBSET S, g))[S]
 BY DEF Total, MapThenSumSet, MapThenFoldSet, AddsUp, Pick

(* A set of numbers that has 0 and all successors has every number.        *)
LEMMA Up ==
  ASSUME NEW I \in SUBSET Nat, 0 \in I, \A n \in I : n + 1 \in I
  PROVE  I = Nat
<1> DEFINE Less == {ij \in Nat \X Nat : ij[1] < ij[2]}
           J == Nat \ I
<1>1. Less = OpToRel(<, Nat)
  BY Zenon DEF OpToRel
<1>2. SUFFICES ASSUME J # {} PROVE FALSE
  OBVIOUS
<1>3. PICK i \in J : \A j \in J : ~(<<j, i>> \in Less)
  BY <1>1, <1>2, NatLessThanWellFounded, WFMin, Zenon
<1>4. i \in Nat /\ i # 0 /\ i - 1 \in Nat /\ i - 1 \notin I
  BY <1>3
<1>5. <<i - 1, i>> \in Less
  BY <1>4
<1> QED BY <1>3, <1>4, <1>5

(* Parts of a finite set and their sizes.                                  *)
LEMMA SubsetSizes ==
  ASSUME NEW S, IsFiniteSet(S)
  PROVE  /\ Cardinality(S) \in Nat
         /\ SUBSET S = Small(S, Cardinality(S))
         /\ \A s \in SUBSET S :
              /\ IsFiniteSet(s) /\ Cardinality(s) \in Nat
              /\ Cardinality(s) = 0 <=> s = {}
              /\ \A x \in s : /\ s \ {x} \in SUBSET S
                              /\ Cardinality(s \ {x}) = Cardinality(s) - 1
<1>1. Cardinality(S) \in Nat
  BY FS_CardinalityType
<1>2. ASSUME NEW s \in SUBSET S
      PROVE  /\ IsFiniteSet(s) /\ Cardinality(s) \in Nat
             /\ Cardinality(s) <= Cardinality(S)
             /\ Cardinality(s) = 0 <=> s = {}
  <2>1. IsFiniteSet(s) /\ Cardinality(s) <= Cardinality(S)
    BY FS_Subset
  <2> QED BY <2>1, FS_CardinalityType, FS_EmptySet
<1>3. ASSUME NEW s \in SUBSET S, NEW x \in s
      PROVE  s \ {x} \in SUBSET S /\ Cardinality(s \ {x}) = Cardinality(s) - 1
  BY <1>2, FS_RemoveElement
<1>4. SUBSET S = Small(S, Cardinality(S))
  BY <1>2 DEF Small
<1> QED BY <1>1, <1>2, <1>3, <1>4

(* Such a sum exists.                                                      *)
LEMMA AddsUpExists ==
  ASSUME NEW f, NEW S, IsFiniteSet(S), \A x \in S : f[x] \in Int
  PROVE  \E g : AddsUp(f, SUBSET S, g) /\ \A s \in SUBSET S : g[s] \in Int
<1> DEFINE Good(n, g) == /\ AddsUp(f, Small(S, n), g)
                         /\ \A s \in Small(S, n) : g[s] \in Int
           I == {n \in Nat : \E g : Good(n, g)}
<1>1. 0 \in I
  <2> DEFINE g == [s \in Small(S, 0) |-> 0]
  <2>1. \A s \in Small(S, 0) : s = {}
    BY SubsetSizes DEF Small
  <2>2. g = [s \in Small(S, 0) |-> IF s = {} THEN 0 ELSE f[Pick(s)] + g[s \ {Pick(s)}]]
    BY <2>1
  <2>3. \A s \in Small(S, 0) : g[s] \in Int
    OBVIOUS
  <2> HIDE DEF g
  <2>4. Good(0, g)
    BY <2>2, <2>3 DEF AddsUp
  <2> QED BY <2>4
<1>2. ASSUME NEW n \in I PROVE n + 1 \in I
  <2>1. PICK g : Good(n, g)
    OBVIOUS
  <2> DEFINE h == [s \in Small(S, n + 1) |->
                     IF s = {} THEN 0 ELSE f[Pick(s)] + g[s \ {Pick(s)}]]
  <2>2. ASSUME NEW s \in Small(S, n + 1), s # {}
        PROVE  Pick(s) \in s /\ s \ {Pick(s)} \in Small(S, n)
    <3>1. Pick(s) \in s
      BY <2>2 DEF Pick
    <3> QED BY <3>1, SubsetSizes DEF Small
  <2>3. \A s \in Small(S, n) : s \in Small(S, n + 1) /\ h[s] = g[s]
    <3>1. SUFFICES ASSUME NEW s \in Small(S, n) PROVE s \in Small(S, n + 1) /\ h[s] = g[s]
      OBVIOUS
    <3>2. s \in Small(S, n + 1)
      BY SubsetSizes DEF Small
    <3>3. g[s] = IF s = {} THEN 0 ELSE f[Pick(s)] + g[s \ {Pick(s)}]
      BY <2>1 DEF AddsUp
    <3> QED BY <3>2, <3>3
  <2>4. \A s \in Small(S, n + 1) :
          h[s] = IF s = {} THEN 0 ELSE f[Pick(s)] + g[s \ {Pick(s)}]
    OBVIOUS
  <2>5. \A s \in Small(S, n + 1) : h[s] \in Int
    BY <2>1, <2>2, <2>4 DEF Small
  <2>6. h = [s \in Small(S, n + 1) |->
               IF s = {} THEN 0 ELSE f[Pick(s)] + h[s \ {Pick(s)}]]
    BY <2>2, <2>3
  <2> HIDE DEF h
  <2>7. Good(n + 1, h)
    BY <2>5, <2>6 DEF AddsUp
  <2> QED BY <2>7
<1>3. Cardinality(S) \in I
  <2> HIDE DEF I
  <2>1. I \in SUBSET Nat
    BY DEF I
  <2> QED BY <1>1, <1>2, <2>1, Up, SubsetSizes
<1>4. PICK g : Good(Cardinality(S), g)
  BY <1>3
<1>5. SUBSET S = Small(S, Cardinality(S))
  BY SubsetSizes
<1> QED BY <1>4, <1>5

(* The order does not matter.                                              *)
LEMMA AnyOrder ==
  ASSUME NEW f, NEW S, IsFiniteSet(S), \A x \in S : f[x] \in Int,
         NEW g, AddsUp(f, SUBSET S, g), \A s \in SUBSET S : g[s] \in Int,
         NEW t \in SUBSET S, NEW e \in t
  PROVE  g[t] = f[e] + g[t \ {e}]
<1> DEFINE I == {n \in Nat : \A s \in SUBSET S : Cardinality(s) = n =>
                               \A x \in s : g[s] = f[x] + g[s \ {x}]}
<1>0. \A s \in SUBSET S : s # {} =>
        Pick(s) \in s /\ g[s] = f[Pick(s)] + g[s \ {Pick(s)}]
  <2>1. SUFFICES ASSUME NEW s \in SUBSET S, s # {}
                 PROVE  Pick(s) \in s /\ g[s] = f[Pick(s)] + g[s \ {Pick(s)}]
    OBVIOUS
  <2>2. Pick(s) \in s
    BY <2>1 DEF Pick
  <2> QED BY <2>1, <2>2 DEF AddsUp
<1>1. 0 \in I
  BY SubsetSizes
<1>2. ASSUME NEW n \in I PROVE n + 1 \in I
  <2>1. SUFFICES ASSUME NEW s \in SUBSET S, Cardinality(s) = n + 1, NEW x \in s
                 PROVE  g[s] = f[x] + g[s \ {x}]
    OBVIOUS
  <2> DEFINE y == Pick(s)
  <2>2. y \in s /\ g[s] = f[y] + g[s \ {y}]
    BY <1>0, <2>1
  <2> HIDE DEF y
  <2>3. CASE x = y
    BY <2>2, <2>3
  <2>4. CASE x # y
    <3>1. /\ s \ {y} \in SUBSET S /\ s \ {x} \in SUBSET S
          /\ Cardinality(s \ {y}) = n /\ Cardinality(s \ {x}) = n
          /\ x \in s \ {y} /\ y \in s \ {x}
      BY <2>1, <2>2, <2>4, SubsetSizes
    <3>2. g[s \ {y}] = f[x] + g[(s \ {y}) \ {x}]
      BY <3>1
    <3>3. g[s \ {x}] = f[y] + g[(s \ {x}) \ {y}]
      BY <3>1
    <3>4. (s \ {x}) \ {y} = (s \ {y}) \ {x} /\ (s \ {x}) \ {y} \in SUBSET S
      OBVIOUS
    <3> DEFINE m == g[(s \ {x}) \ {y}]
    <3>5. f[x] \in Int /\ f[y] \in Int /\ m \in Int
      BY <2>1, <2>2, <3>4
    <3>6. g[(s \ {y}) \ {x}] = m
      BY <3>4
    <3> HIDE DEF m
    <3>7. g[s \ {y}] = f[x] + m /\ g[s \ {x}] = f[y] + m
      BY <3>2, <3>3, <3>6 DEF m
    <3> QED BY <2>2, <3>5, <3>7
  <2> QED BY <2>3, <2>4
<1>3. I = Nat
  <2> HIDE DEF I
  <2>1. I \in SUBSET Nat
    BY DEF I
  <2> QED BY <1>1, <1>2, <2>1, Up
<1>4. Cardinality(t) \in Nat
  BY SubsetSizes
<1> QED BY <1>3, <1>4

(* Two sums of the same values over a set and over a part of it agree.     *)
LEMMA SameSums ==
  ASSUME NEW S, IsFiniteSet(S), NEW T \in SUBSET S,
         NEW f, NEW g, AddsUp(f, SUBSET S, g),
         NEW h, NEW k, AddsUp(h, SUBSET T, k), \A x \in T : f[x] = h[x]
  PROVE  g[T] = k[T]
<1> DEFINE I == {n \in Nat : \A s \in SUBSET T : Cardinality(s) = n => g[s] = k[s]}
<1>0. /\ \A s \in SUBSET T : s # {} => Pick(s) \in s
      /\ \A s \in SUBSET S : g[s] = IF s = {} THEN 0 ELSE f[Pick(s)] + g[s \ {Pick(s)}]
      /\ \A s \in SUBSET T : k[s] = IF s = {} THEN 0 ELSE h[Pick(s)] + k[s \ {Pick(s)}]
  <2>1. \A s : s # {} => Pick(s) \in s
    BY DEF Pick
  <2>2. \A s \in SUBSET S : g[s] = IF s = {} THEN 0 ELSE f[Pick(s)] + g[s \ {Pick(s)}]
    BY DEF AddsUp
  <2>3. \A s \in SUBSET T : k[s] = IF s = {} THEN 0 ELSE h[Pick(s)] + k[s \ {Pick(s)}]
    BY DEF AddsUp
  <2> QED BY <2>1, <2>2, <2>3
<1>1. 0 \in I
  <2>1. \A s \in SUBSET T : Cardinality(s) = 0 => s = {}
    BY SubsetSizes
  <2>2. g[{}] = 0 /\ k[{}] = 0
    BY <1>0
  <2> QED BY <2>1, <2>2
<1>2. ASSUME NEW n \in I PROVE n + 1 \in I
  <2>1. SUFFICES ASSUME NEW s \in SUBSET T, Cardinality(s) = n + 1 PROVE g[s] = k[s]
    OBVIOUS
  <2>2. s # {} /\ s \in SUBSET S
    BY <2>1, SubsetSizes
  <2>3. /\ Pick(s) \in s /\ s \ {Pick(s)} \in SUBSET T
        /\ Cardinality(s \ {Pick(s)}) = n
    BY <1>0, <2>1, <2>2, SubsetSizes
  <2>4. g[s \ {Pick(s)}] = k[s \ {Pick(s)}] /\ f[Pick(s)] = h[Pick(s)]
    BY <2>3
  <2> QED BY <1>0, <2>1, <2>2, <2>4
<1>3. I = Nat
  <2> HIDE DEF I
  <2>1. I \in SUBSET Nat
    BY DEF I
  <2> QED BY <1>1, <1>2, <2>1, Up
<1>4. Cardinality(T) \in Nat
  BY SubsetSizes
<1> QED BY <1>3, <1>4

(* What the proofs use of the sum.                                         *)
LEMMA TotalIs ==
  ASSUME NEW f, NEW S, IsFiniteSet(S), \A x \in S : f[x] \in Int
  PROVE  \E g : /\ AddsUp(f, SUBSET S, g) /\ \A s \in SUBSET S : g[s] \in Int
                /\ Total(f, S) = g[S]
<1> DEFINE g == CHOOSE g : AddsUp(f, SUBSET S, g)
<1>1. PICK k : AddsUp(f, SUBSET S, k) /\ \A s \in SUBSET S : k[s] \in Int
  BY AddsUpExists
<1>2. AddsUp(f, SUBSET S, g)
  BY <1>1
<1>3. Total(f, S) = g[S]
  BY Unfold
<1> HIDE DEF g
<1>4. ASSUME NEW s \in SUBSET S PROVE g[s] \in Int
  <2>1. IsFiniteSet(s)
    BY SubsetSizes
  <2>2. PICK m : AddsUp(f, SUBSET s, m) /\ \A r \in SUBSET s : m[r] \in Int
    <3>1. \A x \in s : f[x] \in Int
      OBVIOUS
    <3> QED BY <2>1, <3>1, AddsUpExists
  <2>3. g[s] = m[s]
    <3>1. \A x \in s : f[x] = f[x]
      OBVIOUS
    <3> QED BY <1>2, <2>2, <3>1, SameSums
  <2> QED BY <2>2, <2>3
<1> QED BY <1>2, <1>3, <1>4

LEMMA TotalInt ==
  ASSUME NEW f, NEW S, IsFiniteSet(S), \A x \in S : f[x] \in Int
  PROVE  Total(f, S) \in Int
BY TotalIs

LEMMA TotalSame ==
  ASSUME NEW f, NEW h, NEW S, IsFiniteSet(S), \A x \in S : f[x] \in Int,
         \A x \in S : f[x] = h[x]
  PROVE  Total(h, S) = Total(f, S)
<1>1. PICK g : AddsUp(f, SUBSET S, g) /\ Total(f, S) = g[S]
  BY TotalIs
<1>2. \A x \in S : h[x] \in Int
  OBVIOUS
<1>3. PICK k : AddsUp(h, SUBSET S, k) /\ Total(h, S) = k[S]
  BY <1>2, TotalIs
<1>4. g[S] = k[S]
  BY <1>1, <1>3, SameSums
<1> QED BY <1>1, <1>3, <1>4

LEMMA TotalMore ==
  ASSUME NEW f, NEW S, IsFiniteSet(S), NEW e, e \notin S, f[e] \in Int,
         \A x \in S : f[x] \in Int
  PROVE  Total(f, S \union {e}) = Total(f, S) + f[e]
<1> DEFINE T == S \union {e}
<1>1. IsFiniteSet(T) /\ \A x \in T : f[x] \in Int
  BY FS_AddElement
<1>2. e \in T /\ T \ {e} = S /\ S \in SUBSET T
  OBVIOUS
<1> HIDE DEF T
<1>3. PICK g : /\ AddsUp(f, SUBSET T, g) /\ \A s \in SUBSET T : g[s] \in Int
               /\ Total(f, T) = g[T]
  BY <1>1, TotalIs
<1>4. g[T] = f[e] + g[S]
  <2>1. g[T] = f[e] + g[T \ {e}]
    BY <1>1, <1>2, <1>3, AnyOrder
  <2> QED BY <1>2, <2>1
<1>5. PICK k : AddsUp(f, SUBSET S, k) /\ Total(f, S) = k[S]
  BY TotalIs
<1>6. g[S] = k[S]
  BY <1>1, <1>2, <1>3, <1>5, SameSums
<1>7. g[S] \in Int
  BY <1>2, <1>3
<1> QED BY <1>3, <1>4, <1>5, <1>6, <1>7 DEF T

LEMMA TotalNone == ASSUME NEW f PROVE Total(f, {}) = 0
<1>1. IsFiniteSet({})
  BY FS_EmptySet
<1>2. \A x \in {} : f[x] \in Int
  OBVIOUS
<1>3. PICK g : AddsUp(f, SUBSET {}, g) /\ Total(f, {}) = g[{}]
  BY <1>1, <1>2, TotalIs
<1>4. {} \in SUBSET {}
  OBVIOUS
<1> QED BY <1>3, <1>4 DEF AddsUp

-----------------------------------------------------------------------------
(* The free bytes. *)

(* The free slots, their bytes, and what is to be shown of FreeRAM. *)
FreeOf(p) == {i \in Linked(p) : p.flags[i] = FREE}
FreeBytes(p) == Total(p.size, FreeOf(p))
Exact(p) == p.FreeRAM = FreeBytes(p)

(* Sums over linked slots.                                                 *)
LEMMA FreeParts ==
  ASSUME NEW p, PoolOK(p), NEW S \in SUBSET Linked(p)
  PROVE  /\ IsFiniteSet(S)
         /\ \A x \in S : p.size[x] \in Int
         /\ Total(p.size, S) \in Int
         /\ FreeOf(p) \in SUBSET Linked(p)
         /\ \A e \in Linked(p) \ S :
              Total(p.size, S \union {e}) = Total(p.size, S) + p.size[e]
<1>1. IsFiniteSet(S) /\ \A x \in Linked(p) : p.size[x] \in Int
  <2>1. IsFiniteSet(S)
    BY LinkedFinite, FS_Subset
  <2>2. p.size \in [SlotIds -> Nat] /\ Linked(p) \subseteq SlotIds
    BY PoolFields, LinkedFinite DEF PoolOK
  <2> QED BY <2>1, <2>2
<1>2. \A x \in S : p.size[x] \in Int
  BY <1>1
<1>3. Total(p.size, S) \in Int
  BY <1>1, <1>2, TotalInt
<1>4. ASSUME NEW e \in Linked(p) \ S
      PROVE  Total(p.size, S \union {e}) = Total(p.size, S) + p.size[e]
  <2>1. p.size[e] \in Int /\ e \notin S
    BY <1>1
  <2> QED BY <1>1, <1>2, <2>1, TotalMore
<1> QED BY <1>1, <1>2, <1>3, <1>4 DEF FreeOf

(* An assigned slot takes its bytes from the free ones, and leaves the     *)
(* rest to them, as far as the flags say so.                               *)
LEMMA AssignBytes ==
  ASSUME NEW p, PoolOK(p), Reached(p), NEW i \in Linked(p), NEW bytes \in Nat,
         0 < bytes, bytes <= p.size[i],
         bytes < p.size[i] => p.curNumSlots < MaxSlots,
         NEW taken \in {FREE, USED}, NEW restTaken \in {FREE, USED},
         NEW q, q = mempool_slot_assign(p, i, bytes, taken, restTaken)
  PROVE  /\ FreeBytes(q) = FreeBytes(p)
                           - (IF p.flags[i] = FREE THEN p.size[i] ELSE 0)
                           + (IF taken = FREE THEN bytes ELSE 0)
                           + (IF restTaken = FREE THEN p.size[i] - bytes ELSE 0)
         /\ q.FreeRAM = (IF taken = USED THEN p.FreeRAM - bytes ELSE p.FreeRAM)
<1> DEFINE n == p.index[p.curNumSlots]
           C == FreeOf(p) \ {i}
           D == IF taken = FREE THEN C \union {i} ELSE C
<1>0. /\ PoolOK(q)
      /\ i \in Linked(q) /\ q.flags[i] = taken /\ q.size[i] = bytes
      /\ \A j \in Linked(p) \ {i} : q.size[j] = p.size[j] /\ q.flags[j] = p.flags[j]
      /\ bytes = p.size[i] => Linked(q) = Linked(p)
      /\ bytes < p.size[i] => /\ n \in SlotIds \ Linked(p)
                              /\ Linked(q) = Linked(p) \union {n}
                              /\ q.flags[n] = restTaken
                              /\ q.size[n] = p.size[i] - bytes
  BY AssignOK
<1> HIDE DEF n
<1>1. p.size[i] \in Nat /\ USED # FREE
  BY SlotAddresses DEF USED, FREE
<1>2. C \in SUBSET Linked(p) /\ C \in SUBSET Linked(q) /\ i \notin C /\ D \in SUBSET Linked(q)
      /\ D \in SUBSET Linked(p)
  BY <1>0, <1>1 DEF FreeOf
<1>3. FreeBytes(p) = Total(p.size, C) + (IF p.flags[i] = FREE THEN p.size[i] ELSE 0)
  <2>1. CASE p.flags[i] = FREE
    <3>1. FreeOf(p) = C \union {i}
      BY <2>1 DEF FreeOf
    <3>2. Total(p.size, C \union {i}) = Total(p.size, C) + p.size[i]
      BY <1>2, FreeParts
    <3> QED BY <2>1, <3>1, <3>2 DEF FreeBytes
  <2>2. CASE p.flags[i] # FREE
    <3>1. FreeOf(p) = C /\ Total(p.size, C) \in Int
      BY <1>2, <2>2, FreeParts DEF FreeOf
    <3> QED BY <2>2, <3>1 DEF FreeBytes
  <2> QED BY <2>1, <2>2
<1>4. Total(q.size, C) = Total(p.size, C)
  <2>1. IsFiniteSet(C) /\ \A x \in C : p.size[x] \in Int
    BY <1>2, FreeParts
  <2>2. \A x \in C : p.size[x] = q.size[x]
    BY <1>0, <1>2
  <2> QED BY <2>1, <2>2, TotalSame
<1>5. Total(q.size, D) = Total(q.size, C) + (IF taken = FREE THEN bytes ELSE 0)
  <2>a. PoolOK(q) /\ C \in SUBSET Linked(q) /\ i \in Linked(q) \ C /\ q.size[i] = bytes
    BY <1>0, <1>2
  <2>1. Total(q.size, C \union {i}) = Total(q.size, C) + bytes
    <3> HIDE DEF C
    <3>1. Total(q.size, C \union {i}) = Total(q.size, C) + q.size[i]
      BY <2>a, FreeParts
    <3> QED BY <2>a, <3>1
  <2>2. Total(q.size, C) \in Int
    BY <1>0, <1>2, FreeParts
  <2> QED BY <2>1, <2>2
<1>6. FreeBytes(q) = Total(q.size, D)
                     + (IF restTaken = FREE THEN p.size[i] - bytes ELSE 0)
  <2>0. Total(q.size, D) \in Int
    BY <1>0, <1>2, FreeParts
  <2>1. CASE bytes < p.size[i] /\ restTaken = FREE
    <3>1. FreeOf(q) = D \union {n} /\ n \in Linked(q) \ D
      BY <1>0, <1>1, <1>2, <2>1 DEF FreeOf
    <3>2. Total(q.size, D \union {n}) = Total(q.size, D) + q.size[n]
      <4>1. PoolOK(q) /\ D \in SUBSET Linked(q)
        BY <1>0, <1>2
      <4> HIDE DEF D
      <4> QED BY <3>1, <4>1, FreeParts
    <3> QED BY <1>0, <2>1, <3>1, <3>2 DEF FreeBytes
  <2>2. CASE ~(bytes < p.size[i] /\ restTaken = FREE)
    <3>1. FreeOf(q) = D
      BY <1>0, <1>1, <1>2, <2>2 DEF FreeOf
    <3>2. restTaken = FREE => p.size[i] - bytes = 0
      BY <1>1, <2>2
    <3> QED BY <2>0, <3>1, <3>2 DEF FreeBytes
  <2> QED BY <2>1, <2>2
<1>7. q.FreeRAM = (IF taken = USED THEN p.FreeRAM - bytes ELSE p.FreeRAM)
  <2> DEFINE r == IF bytes < p.size[i]
                  THEN Split(p, i, bytes, taken, restTaken)
                  ELSE TakeWhole(p, i, taken)
  <2>1. r.FreeRAM = p.FreeRAM
    <3>1. CASE bytes < p.size[i]
      BY <3>1 DEF Split
    <3>2. CASE ~(bytes < p.size[i])
      <4>1. p \in Pools /\ r = [p EXCEPT !.flags = [@ EXCEPT ![i] = taken]]
        BY <3>2 DEF TakeWhole, PoolOK
      <4> HIDE DEF r
      <4> QED BY <4>1 DEF Pools
    <3> QED BY <3>1, <3>2
  <2>2. "FreeRAM" \in DOMAIN r
    <3>1. CASE bytes < p.size[i]
      BY <3>1 DEF Split
    <3>2. CASE ~(bytes < p.size[i])
      <4>1. p \in Pools /\ r = [p EXCEPT !.flags = [@ EXCEPT ![i] = taken]]
        BY <3>2 DEF TakeWhole, PoolOK
      <4> HIDE DEF r
      <4> QED BY <4>1 DEF Pools
    <3> QED BY <3>1, <3>2
  <2>3. q = [r EXCEPT !.FreeRAM = IF taken = USED THEN @ - bytes ELSE @]
    BY DEF mempool_slot_assign
  <2> HIDE DEF r
  <2> QED BY <2>1, <2>2, <2>3
<1>8. FreeBytes(p) \in Int /\ Total(p.size, C) \in Int
  BY <1>2, FreeParts DEF FreeBytes
<1> HIDE DEF C, D
<1> QED BY <1>1, <1>3, <1>4, <1>5, <1>6, <1>7, <1>8

(* Merging two free slots loses no byte.                                   *)
LEMMA AbsorbBytes ==
  ASSUME NEW p, PoolOK(p), NEW a \in Linked(p), p.flags[a] = FREE,
         NEW b, b = p.nextIndex[a], b # NONE, p.flags[b] = FREE,
         NEW q, q = Absorb(p, a, b)
  PROVE  FreeBytes(q) = FreeBytes(p) /\ q.FreeRAM = p.FreeRAM
<1> DEFINE C == FreeOf(p) \ {a, b}
<1>0. /\ PoolOK(q) /\ b \in Linked(p) /\ b # a
      /\ Linked(q) = Linked(p) \ {b} /\ q.flags = p.flags
      /\ q.size[a] = p.size[a] + p.size[b]
      /\ \A j \in SlotIds \ {a} : q.size[j] = p.size[j]
  BY AbsorbOK
<1>1. q.FreeRAM = p.FreeRAM
  BY DEF Absorb
<1>2. /\ C \in SUBSET Linked(p) /\ C \in SUBSET Linked(q) /\ C \union {a} \in SUBSET Linked(p)
      /\ FreeOf(p) = (C \union {a}) \union {b} /\ FreeOf(q) = C \union {a}
      /\ C \subseteq SlotIds \ {a}
  BY <1>0, LinkedFinite DEF FreeOf
<1>3. a \in Linked(p) \ C /\ a \in Linked(q) \ C /\ b \in Linked(p) \ (C \union {a})
  BY <1>0
<1> HIDE DEF C
<1>4. FreeBytes(p) = (Total(p.size, C) + p.size[a]) + p.size[b]
  <2>1. Total(p.size, C \union {a}) = Total(p.size, C) + p.size[a]
    BY <1>2, <1>3, FreeParts
  <2>2. Total(p.size, (C \union {a}) \union {b}) = Total(p.size, C \union {a}) + p.size[b]
    <3> DEFINE S == C \union {a}
    <3>1. S \in SUBSET Linked(p) /\ b \in Linked(p) \ S
      BY <1>2, <1>3
    <3> HIDE DEF S
    <3>2. Total(p.size, S \union {b}) = Total(p.size, S) + p.size[b]
      BY <3>1, FreeParts
    <3> QED BY <3>2 DEF S
  <2> QED BY <1>2, <2>1, <2>2 DEF FreeBytes
<1>5. FreeBytes(q) = Total(q.size, C) + q.size[a]
  <2>1. PoolOK(q) /\ C \in SUBSET Linked(q) /\ a \in Linked(q) \ C
    BY <1>0, <1>2, <1>3
  <2>2. Total(q.size, C \union {a}) = Total(q.size, C) + q.size[a]
    BY <2>1, FreeParts
  <2> QED BY <1>2, <2>2 DEF FreeBytes
<1>6. Total(q.size, C) = Total(p.size, C)
  <2>1. IsFiniteSet(C) /\ \A x \in C : p.size[x] \in Int
    BY <1>2, FreeParts
  <2>2. \A x \in C : p.size[x] = q.size[x]
    BY <1>0, <1>2
  <2> QED BY <2>1, <2>2, TotalSame
<1>7. Total(p.size, C) \in Int /\ p.size[a] \in Int /\ p.size[b] \in Int
  BY <1>0, <1>2, FreeParts, SlotAddresses
<1> QED BY <1>0, <1>1, <1>4, <1>5, <1>6, <1>7

(* A slot marked free adds its bytes, to FreeRAM and to the free slots.    *)
LEMMA MarkFreeBytes ==
  ASSUME NEW p, PoolOK(p), Reached(p), NEW i \in UsedSlots(p),
         NEW q, q = MarkFree(p, i)
  PROVE  /\ PoolOK(q) /\ Reached(q) /\ i \in Linked(q) /\ q.flags[i] = FREE
         /\ FreeBytes(q) = FreeBytes(p) + p.size[i]
         /\ q.FreeRAM = p.FreeRAM + p.size[i]
<1>0. /\ i \in Linked(p) /\ i \in SlotIds /\ p \in Pools /\ p.flags[i] = USED
      /\ USED # FREE /\ Linked(p) \subseteq SlotIds
  BY LinkedFinite DEF UsedSlots, PoolOK, USED, FREE
<1>1. /\ q \in Pools
      /\ q.data = p.data /\ q.size = p.size /\ q.nextIndex = p.nextIndex
      /\ q.prevIndex = p.prevIndex /\ q.index = p.index
      /\ q.curNumSlots = p.curNumSlots
      /\ q.flags = [p.flags EXCEPT ![i] = FREE]
      /\ q.FreeRAM = p.FreeRAM + p.size[i]
  <2>1. p.FreeRAM + p.size[i] \in Int
    BY <1>0, PoolFields
  <2>2. [p.flags EXCEPT ![i] = FREE] \in [SlotIds -> {FREE, USED}]
    BY <1>0, PoolFields
  <2>3. q = [p EXCEPT !.flags = [p.flags EXCEPT ![i] = FREE],
                      !.FreeRAM = p.FreeRAM + p.size[i]]
    BY DEF MarkFree
  <2> QED
    BY <1>0, <2>1, <2>2, <2>3 DEF Pools
<1>2. PoolOK(q) /\ Reached(q) /\ Linked(q) = Linked(p)
  BY <1>1, SameShape
<1>3. q.flags[i] = FREE /\ \A j \in SlotIds \ {i} : q.flags[j] = p.flags[j]
  BY <1>0, <1>1, PoolFields
<1>4. FreeOf(q) = FreeOf(p) \union {i} /\ i \in Linked(p) \ FreeOf(p)
  BY <1>0, <1>2, <1>3 DEF FreeOf
<1>5. FreeBytes(q) = FreeBytes(p) + p.size[i]
  <2>1. FreeOf(p) \in SUBSET Linked(p)
    BY DEF FreeOf
  <2>2. Total(p.size, FreeOf(p) \union {i}) = Total(p.size, FreeOf(p)) + p.size[i]
    BY <1>4, <2>1, FreeParts
  <2> QED BY <1>1, <1>4, <2>2 DEF FreeBytes
<1> QED BY <1>0, <1>1, <1>2, <1>3, <1>5

(* Clearing a used slot keeps the count exact.                             *)
LEMMA ClearExact ==
  ASSUME NEW p, PoolOK(p), Reached(p), Exact(p), NEW i \in UsedSlots(p),
         NEW q, q = mempool_slot_clear(p, i)
  PROVE  Exact(q)
<1> DEFINE f == MarkFree(p, i)
           g == AbsorbNext(f, i)
<1>1. /\ PoolOK(f) /\ Reached(f) /\ i \in Linked(f) /\ f.flags[i] = FREE /\ Exact(f)
  BY MarkFreeBytes DEF Exact
<1> HIDE DEF f
<1>2. PoolOK(g) /\ i \in Linked(g) /\ g.flags[i] = FREE /\ Exact(g)
  <2> DEFINE b == f.nextIndex[i]
  <2>1. CASE b # NONE /\ f.flags[b] = FREE
    <3>1. g = Absorb(f, i, b)
      BY <2>1 DEF AbsorbNext
    <3> HIDE DEF g
    <3>2. FreeBytes(g) = FreeBytes(f) /\ g.FreeRAM = f.FreeRAM
      BY <1>1, <2>1, <3>1, AbsorbBytes
    <3>3. PoolOK(g) /\ Linked(g) = Linked(f) \ {b} /\ b # i /\ g.flags = f.flags
      BY <1>1, <2>1, <3>1, AbsorbOK
    <3> QED BY <1>1, <3>2, <3>3 DEF Exact
  <2>2. CASE ~(b # NONE /\ f.flags[b] = FREE)
    BY <1>1, <2>2 DEF AbsorbNext
  <2> QED BY <2>1, <2>2
<1>3. q = AbsorbIntoPrev(g, i)
  BY DEF mempool_slot_clear, f
<1> HIDE DEF g
<1> DEFINE a == g.prevIndex[i]
<1>4. CASE a # NONE /\ g.flags[a] = FREE
  <2>1. q = Absorb(g, a, i)
    BY <1>3, <1>4 DEF AbsorbIntoPrev
  <2>2. a \in Linked(g) /\ g.nextIndex[a] = i /\ i # NONE
    BY <1>2, <1>4, SlotIdsFinite, LinkedFinite DEF PoolOK, Links
  <2>3. FreeBytes(q) = FreeBytes(g) /\ q.FreeRAM = g.FreeRAM
    BY <1>2, <1>4, <2>1, <2>2, AbsorbBytes
  <2> QED BY <1>2, <2>3 DEF Exact
<1>5. CASE ~(a # NONE /\ g.flags[a] = FREE)
  BY <1>2, <1>3, <1>5 DEF AbsorbIntoPrev
<1> QED BY <1>4, <1>5

(* So does freeing an address, whichever it is.                            *)
LEMMA FreeAddrExact ==
  ASSUME NEW p, PoolOK(p), Reached(p), Exact(p), NEW addr,
         NEW q, q = mempool_free_addr(p, addr)
  PROVE  Exact(q)
<1> DEFINE first == CHOOSE j \in SlotsAt(p, addr) : IsFirst(p, j, SlotsAt(p, addr))
<1>1. q = IF SlotsAt(p, addr) # {} /\ p.flags[first] = USED
          THEN mempool_slot_clear(p, first) ELSE p
  BY DEF mempool_free_addr
<1>2. CASE SlotsAt(p, addr) # {} /\ p.flags[first] = USED
  <2>1. PICK i : i \in SlotsAt(p, addr)
    BY <1>2
  <2>2. i \in Linked(p) /\ i \in SlotIds
    BY <2>1, ChainLinked, LinkedFinite DEF SlotsAt
  <2>3. SlotsAt(p, addr) = {i}
    BY <2>1, <2>2, ChainLinked, SlotAddresses DEF SlotsAt
  <2>4. IsFirst(p, i, {i})
    BY <2>2 DEF IsFirst, WalkFrom
  <2>5. \E j \in SlotsAt(p, addr) : IsFirst(p, j, SlotsAt(p, addr))
    BY <2>3, <2>4
  <2>6. first = i
    BY <2>3, <2>5
  <2> HIDE DEF first
  <2>7. i \in UsedSlots(p)
    BY <1>2, <2>2, <2>6 DEF UsedSlots
  <2> QED BY <1>1, <1>2, <2>6, <2>7, ClearExact
<1>3. CASE ~(SlotsAt(p, addr) # {} /\ p.flags[first] = USED)
  BY <1>1, <1>3
<1> QED BY <1>2, <1>3

(* Allocating a free slot keeps the count exact, in whole or in part, and  *)
(* so does allocating the middle of one.                                   *)
LEMMA AllocExact ==
  ASSUME NEW p, PoolOK(p), Reached(p), Exact(p), NEW i \in Linked(p),
         p.flags[i] = FREE, NEW bytes \in Nat, 0 < bytes, bytes <= p.size[i],
         bytes < p.size[i] => p.curNumSlots < MaxSlots,
         NEW q, q = mempool_slot_assign(p, i, bytes, USED, FREE)
  PROVE  Exact(q)
<1>1. USED # FREE /\ USED \in {FREE, USED} /\ FREE \in {FREE, USED}
  BY DEF USED, FREE
<1>2. /\ FreeBytes(q) = FreeBytes(p)
                        - (IF p.flags[i] = FREE THEN p.size[i] ELSE 0)
                        + (IF USED = FREE THEN bytes ELSE 0)
                        + (IF FREE = FREE THEN p.size[i] - bytes ELSE 0)
      /\ q.FreeRAM = (IF USED = USED THEN p.FreeRAM - bytes ELSE p.FreeRAM)
  BY <1>1, AssignBytes
<1>3. p.size[i] \in Nat /\ p.FreeRAM \in Int
  BY SlotAddresses, PoolFields DEF PoolOK
<1> QED BY <1>1, <1>2, <1>3 DEF Exact

LEMMA AllocInsideExact ==
  ASSUME NEW p, PoolOK(p), Reached(p), Exact(p), NEW i \in Linked(p),
         p.flags[i] = FREE, p.curNumSlots + 1 < MaxSlots,
         NEW d \in Nat, 0 < d, NEW bytes \in Nat, 0 < bytes,
         d + bytes <= p.size[i],
         NEW n, n = p.index[p.curNumSlots],
         NEW q, q = mempool_slot_assign(mempool_slot_assign(p, i, d, FREE, USED),
                                        n, bytes, USED, FREE)
  PROVE  Exact(q)
<1> DEFINE f == mempool_slot_assign(p, i, d, FREE, USED)
<1>0. /\ USED # FREE /\ USED \in {FREE, USED} /\ FREE \in {FREE, USED}
      /\ p.size[i] \in Nat /\ p.FreeRAM \in Int
      /\ p.curNumSlots \in Nat /\ MaxSlots \in Nat
      /\ d < p.size[i] /\ p.curNumSlots < MaxSlots
  BY SlotAddresses, PoolFields, PoolAssumption DEF USED, FREE, PoolOK
<1>1. /\ PoolOK(f) /\ Reached(f)
      /\ n \in Linked(f) /\ f.flags[n] = USED /\ f.size[n] = p.size[i] - d
      /\ f.curNumSlots = p.curNumSlots + 1
  <2>1. /\ PoolOK(f) /\ Reached(f)
        /\ d < p.size[i] =>
             /\ Linked(f) = Linked(p) \union {n}
             /\ f.flags[n] = USED
             /\ f.size[n] = p.size[i] - d
             /\ f.curNumSlots = p.curNumSlots + 1
    BY <1>0, AssignOK
  <2> QED BY <1>0, <2>1
<1>2. /\ FreeBytes(f) = FreeBytes(p)
                        - (IF p.flags[i] = FREE THEN p.size[i] ELSE 0)
                        + (IF FREE = FREE THEN d ELSE 0)
                        + (IF USED = FREE THEN p.size[i] - d ELSE 0)
      /\ f.FreeRAM = (IF FREE = USED THEN p.FreeRAM - d ELSE p.FreeRAM)
  BY <1>0, AssignBytes
<1> HIDE DEF f
<1>3. q = mempool_slot_assign(f, n, bytes, USED, FREE)
  BY DEF f
<1>4. bytes <= f.size[n] /\ f.curNumSlots < MaxSlots
  BY <1>0, <1>1
<1>5. /\ FreeBytes(q) = FreeBytes(f)
                        - (IF f.flags[n] = FREE THEN f.size[n] ELSE 0)
                        + (IF USED = FREE THEN bytes ELSE 0)
                        + (IF FREE = FREE THEN f.size[n] - bytes ELSE 0)
      /\ q.FreeRAM = (IF USED = USED THEN f.FreeRAM - bytes ELSE f.FreeRAM)
  BY <1>0, <1>1, <1>3, <1>4, AssignBytes
<1> QED BY <1>0, <1>1, <1>2, <1>5 DEF Exact

(* Every step either leaves the pool alone, or makes one of these changes. *)
LEMMA NextExact ==
  ASSUME IInv, Exact(pool), [Next]_vars
  PROVE  Exact(pool')
<1>0. PoolOK(pool) /\ Reached(pool)
  BY IInvFacts
<1>1. ASSUME pool' = pool PROVE Exact(pool')
  BY <1>1
<1>2. ASSUME NEW addr, pool' = mempool_free_addr(pool, addr) PROVE Exact(pool')
  BY <1>0, <1>2, FreeAddrExact
<1>3. \A bytes \in Requests : AlignUp(bytes) \in Nat /\ 0 < AlignUp(bytes)
  <2>1. ASSUME NEW bytes \in Requests PROVE AlignUp(bytes) \in Nat /\ 0 < AlignUp(bytes)
    <3>1. bytes \in Nat \ {0}
      BY PoolAssumption
    <3> QED BY <3>1, AlignUpBounds
  <2> QED BY <2>1
<1>4. ASSUME NEW bytes \in Requests, NEW i \in Chain(pool), pool.flags[i] = FREE,
             AlignUp(bytes) <= pool.size[i],
             ~(StackEmpty(pool) /\ AlignUp(bytes) < pool.size[i]),
             pool' = mempool_slot_assign(pool, i, AlignUp(bytes), USED, FREE)
      PROVE  Exact(pool')
  <2>1. i \in Linked(pool)
    BY <1>0, ChainLinked
  <2>2. AlignUp(bytes) < pool.size[i] => pool.curNumSlots < MaxSlots
    BY <1>0, <1>4, PoolFields, PoolAssumption DEF StackEmpty, PoolOK
  <2>3. AlignUp(bytes) \in Nat /\ 0 < AlignUp(bytes)
    BY <1>3
  <2> QED BY <1>0, <1>4, <2>1, <2>2, <2>3, AllocExact
<1>5. ASSUME NEW bytes \in Requests, mmAlloc(bytes)
      PROVE  Exact(pool')
  <2>1. PICK i \in SlotIds :
          /\ IsFirst(pool, i, SmallestFitting(pool, AlignUp(bytes)))
          /\ IF StackEmpty(pool) /\ AlignUp(bytes) < pool.size[i]
             THEN OverrunOf("slots")
             ELSE Grant(i, mempool_slot_assign(pool, i, AlignUp(bytes), USED, FREE),
                        bytes)
    BY <1>5 DEF mmAlloc
  <2>2. i \in Chain(pool) /\ pool.flags[i] = FREE /\ pool.size[i] >= AlignUp(bytes)
    BY <2>1 DEF IsFirst, SmallestFitting, Fitting
  <2>3. pool.size[i] \in Nat /\ AlignUp(bytes) \in Nat
    BY <1>0, <1>3, <2>2, ChainLinked, SlotAddresses
  <2>4. AlignUp(bytes) <= pool.size[i]
    BY <2>2, <2>3
  <2> QED BY <1>1, <1>4, <2>1, <2>2, <2>4 DEF OverrunOf, Grant
<1>6. ASSUME NEW bytes \in Requests, NEW addr \in FixedAddrs,
             NEW i \in Around(pool, addr, AlignUp(bytes))
      PROVE  /\ i \in Chain(pool) /\ i \in Linked(pool) /\ pool.flags[i] = FREE
             /\ pool.data[i] \in Nat /\ pool.size[i] \in Nat /\ addr \in Nat
             /\ addr >= pool.data[i]
             /\ addr + AlignUp(bytes) <= pool.data[i] + pool.size[i]
  <2>1. i \in Chain(pool) /\ i \in Linked(pool)
    BY <1>0, ChainLinked DEF Around
  <2>2. pool.data[i] \in Nat /\ pool.size[i] \in Nat /\ addr \in Nat
    BY <1>0, <2>1, SlotAddresses, PoolAssumption
  <2> QED BY <2>1, <2>2 DEF Around
<1>7. ASSUME NEW bytes \in Requests, NEW addr \in FixedAddrs,
             mmAllocAtSlotStart(addr, bytes)
      PROVE  Exact(pool')
  <2>1. PICK i \in Around(pool, addr, AlignUp(bytes)) :
          /\ pool.data[i] = addr
          /\ IF StackEmpty(pool) /\ AlignUp(bytes) < pool.size[i]
             THEN OverrunOf("slots")
             ELSE Grant(i, mempool_slot_assign(pool, i, AlignUp(bytes), USED, FREE),
                        bytes)
    BY <1>7 DEF mmAllocAtSlotStart
  <2>2. AlignUp(bytes) <= pool.size[i]
    BY <1>3, <1>6, <2>1
  <2> QED BY <1>1, <1>4, <1>6, <2>1, <2>2 DEF OverrunOf, Grant
<1>8. ASSUME NEW bytes \in Requests, NEW addr \in FixedAddrs,
             mmAllocInsideSlot(addr, bytes)
      PROVE  Exact(pool')
  <2> DEFINE n == pool.index[pool.curNumSlots]
  <2>1. PICK i \in Around(pool, addr, AlignUp(bytes)) :
          /\ pool.data[i] # addr
          /\ IF StackEmpty(pool)
             THEN OverrunOf("slots")
             ELSE Grant(n, mempool_slot_assign(
                             mempool_slot_assign(pool, i, addr - pool.data[i],
                                                 FREE, USED),
                             n, AlignUp(bytes), USED, FREE), bytes)
    BY <1>8 DEF mmAllocInsideSlot
  <2> HIDE DEF n
  <2>2. CASE StackEmpty(pool)
    BY <1>1, <2>1, <2>2 DEF OverrunOf
  <2>3. CASE ~StackEmpty(pool)
    <3>1. pool.curNumSlots + 1 < MaxSlots
      <4>1. pool.curNumSlots \in 1 .. MaxSlots /\ MaxSlots \in Nat
        BY <1>0, PoolFields, PoolAssumption DEF PoolOK
      <4> QED
        BY <1>8, <2>3, <4>1 DEF mmAllocInsideSlot, NoMoreSlots, StackEmpty
    <3> DEFINE d == addr - pool.data[i]
    <3>2. /\ d \in Nat /\ 0 < d /\ d + AlignUp(bytes) <= pool.size[i]
          /\ AlignUp(bytes) \in Nat /\ 0 < AlignUp(bytes)
      BY <1>3, <1>6, <2>1
    <3>3. pool' = mempool_slot_assign(mempool_slot_assign(pool, i, d, FREE, USED),
                                      n, AlignUp(bytes), USED, FREE)
      BY <2>1, <2>3 DEF Grant
    <3>4. i \in Linked(pool) /\ pool.flags[i] = FREE
      BY <1>6
    <3> HIDE DEF d
    <3> QED BY <1>0, <3>1, <3>2, <3>3, <3>4, AllocInsideExact DEF n
  <2> QED BY <2>2, <2>3
<1>9. ASSUME NEW h \in held, ReleaseBlock(h)
      PROVE  Exact(pool')
  BY <1>1, <1>2, <1>9 DEF ReleaseBlock, FreeNow, mempool_free_queue, OverrunOf
<1>10. ASSUME TickEntry \/ FlushEntry
       PROVE  Exact(pool')
  BY <1>1, <1>2, <1>10 DEF TickEntry, FlushEntry
<1>11. CASE \/ \E state \in Timers : mmSetDelay(state)
            \/ mmFreeTick \/ PanicDone \/ TickDone \/ mmFlushFreeStack \/ FlushDone
            \/ Overrun \/ UNCHANGED vars
  BY <1>1, <1>11 DEF mmSetDelay, mmFreeTick, PanicDone, TickDone, mmFlushFreeStack,
                     FlushDone, Overrun, vars
<1> QED
  BY <1>5, <1>7, <1>8, <1>9, <1>10, <1>11
     DEF Next, Running, mmAllocAtAddr, mmFree, PanicFree

(* memory.c: FreeRAM, by which mmFreeTick decides that memory is short, is *)
(* the sum of the sizes of the free slots, however slots were cut and      *)
(* merged, for every pool and slot table.                                  *)
THEOREM FreeRamCounts == Spec => []FreeRamExact
<1>1. Init => Exact(pool)
  <2> SUFFICES ASSUME Init PROVE Exact(pool)
    OBVIOUS
  <2>1. PoolOK(pool) /\ pool = InitialPool /\ UsedSlots(pool) = {}
    BY InitialPoolOK DEF Init
  <2>2. /\ pool.curNumSlots = 1 /\ pool.FreeRAM = PoolBytes
        /\ pool.index = [i \in SlotIds |-> i]
        /\ pool.size = [i \in SlotIds |-> IF i = 0 THEN PoolBytes ELSE 0]
        /\ pool.flags = [i \in SlotIds |-> FREE]
    BY <2>1 DEF InitialPool
  <2>3. FreeOf(pool) = {} \union {0} /\ 0 \in Linked(pool) \ {}
    <3>1. MaxSlots \in Nat /\ MaxSlots >= 2
      BY PoolAssumption
    <3>2. \A k \in 1 .. MaxSlots - 1 : pool.index[k] = k
      BY <2>2, <3>1 DEF SlotIds
    <3>3. Unlinked(pool) = 1 .. MaxSlots - 1
      <4>1. Unlinked(pool) = {pool.index[k] : k \in 1 .. MaxSlots - 1}
        BY <2>2 DEF Unlinked
      <4> QED BY <3>2, <4>1
    <3>4. Linked(pool) = {0}
      BY <3>1, <3>3 DEF Linked, SlotIds
    <3> QED BY <2>2, <3>1, <3>4 DEF FreeOf, SlotIds
  <2>4. Total(pool.size, {} \union {0}) = Total(pool.size, {}) + pool.size[0]
    <3>1. {} \in SUBSET Linked(pool)
      OBVIOUS
    <3> QED BY <2>1, <2>3, <3>1, FreeParts
  <2>5. pool.size[0] = PoolBytes /\ PoolBytes \in Nat
    BY <2>2, SlotIdsFinite, PoolAssumption
  <2> QED BY <2>2, <2>3, <2>4, <2>5, TotalNone DEF Exact, FreeBytes
<1>2. IInv /\ Exact(pool) /\ [Next]_vars => Exact(pool)'
  BY NextExact
<1>3. Exact(pool) => FreeRamExact
  BY DEF Exact, FreeBytes, FreeOf, Total, FreeRamExact, FreeSlots
<1> QED
  BY <1>1, <1>2, <1>3, Invariance, PTL DEF Spec
=============================================================================
