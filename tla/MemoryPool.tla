----------------------------- MODULE MemoryPool -----------------------------
(***************************************************************************)
(* The main memory pool of the game (src/memory.c).                        *)
(*                                                                         *)
(* A pool is a block of RAM cut into contiguous pieces.  Each piece is     *)
(* described by a slot; the slots in use form a doubly linked list in      *)
(* address order that starts at slot 0, and slots[curNumSlots ..].index is *)
(* a stack of the slot numbers not on the list.  mmFree does not free at   *)
(* once: it queues the address with a delay, and mmFreeTick, called once   *)
(* per game frame, really frees it when the delay has run down.            *)
(*                                                                         *)
(* Addresses are offsets in a RAM whose data area starts at Base.  Colour  *)
(* tags (debug data) are left out.  The slots are kept as one function per *)
(* field: p.data[i] is slots[i].data of the source.                        *)
(***************************************************************************)
EXTENDS Integers, Sequences, FiniteSets

CONSTANTS MaxSlots,      \* maxNumSlots (1600 in the game)
          Base,          \* address of the first byte of the data area
          PoolBytes,     \* size of the first, all-embracing slot
          Align,         \* allocation granule (16)
          Requests,      \* sizes in bytes that callers ask for
          FixedAddrs,    \* addresses mmAllocAtAddr is called with
          FreeQueueSize, \* FREE_QUEUE_SIZE (256)
          ByteRange,     \* number of values of a u8 (256)
          Timers,        \* arguments of mmSetDelay
          LowRam         \* the low-memory threshold of mmFreeTick (0x14000)

ASSUME PoolAssumption ==
  /\ MaxSlots \in Nat \ {0, 1}
  /\ Base \in Nat \ {0}
  /\ PoolBytes \in Nat \ {0}
  /\ Align \in Nat \ {0}
  /\ Requests \subseteq Nat \ {0}
  /\ FixedAddrs \subseteq Nat
  /\ FreeQueueSize \in Nat \ {0}
  /\ ByteRange \in Nat \ {0}
  /\ Timers \subseteq Nat
  /\ LowRam \in Int

NONE == -1                      \* MEMSLOT_NONE
FREE == 0                       \* SLOT_FREE
USED == 1                       \* SLOT_USED
SlotIds == 0 .. MaxSlots - 1
Ram == Base .. Base + PoolBytes \* addresses of the data area, end included

VARIABLES
  pool,            \* the slots, curNumSlots and FreeRAM
  gFreeQueue,      \* queued frees: address, delay (and, as history, the size)
  gFreeQueueTimer, \* delay given to a block handed to mmFree, 0: free at once
  held,            \* blocks the callers own: got from mmAlloc, not yet mmFree'd
  phase,           \* which loop of the main thread is running
  tickIndex,       \* i of the loop in mmFreeTick
  overrun          \* which array was written past its end, if any

vars == <<pool, gFreeQueue, gFreeQueueTimer, held, phase, tickIndex, overrun>>

-----------------------------------------------------------------------------
(* The slot list.                                                          *)

(* S contains the successor of each of its members. *)
ClosedUnderNext(p, S) ==
  \A i \in S : p.nextIndex[i] # NONE => p.nextIndex[i] \in S

(* The slots a walk along nextIndex visits when it starts at slot i: the   *)
(* members of every closed set that contains i.                            *)
WalkFrom(p, i) ==
  {j \in SlotIds : \A S \in SUBSET SlotIds :
                     i \in S /\ ClosedUnderNext(p, S) => j \in S}

Chain(p) == WalkFrom(p, 0)

(* The slot numbers on the stack of unlinked slots, and the others. *)
Unlinked(p) == {p.index[k] : k \in p.curNumSlots .. MaxSlots - 1}
Linked(p) == SlotIds \ Unlinked(p)

(* Sizes are rounded up to a multiple of the granule. *)
AlignUp(bytes) ==
  IF bytes % Align = 0 THEN bytes ELSE (bytes - (bytes % Align)) + Align

(* The slots mempool_slot_find chooses from: the free slots that are large *)
(* enough and not larger than another such slot.                           *)
Fitting(p, bytes) ==
  {i \in Chain(p) : p.flags[i] = FREE /\ p.size[i] >= bytes}

SmallestFitting(p, bytes) ==
  {i \in Fitting(p, bytes) :
     \A j \in Fitting(p, bytes) : p.size[i] <= p.size[j]}

(* i is the member of S that a walk of the list meets first. *)
IsFirst(p, i, S) == i \in S /\ S \subseteq WalkFrom(p, i)

-----------------------------------------------------------------------------
(* mempool_slot_assign and mempool_slot_clear as functions of the pool.    *)

(* The slot is exactly as large as the request. *)
TakeWhole(p, i, taken) == [p EXCEPT !.flags = [@ EXCEPT ![i] = taken]]

(* Mutant of Split: the flags of the two parts are swapped. *)
SplitFlagsSwapped(p, i, bytes, taken, restTaken) ==
  LET n == p.index[p.curNumSlots]
      k == p.nextIndex[i]
  IN [data        |-> [p.data EXCEPT ![n] = p.data[i] + bytes],
      size        |-> [p.size EXCEPT ![n] = p.size[i] - bytes, ![i] = bytes],
      flags       |-> [p.flags EXCEPT ![n] = taken, ![i] = restTaken],
      prevIndex   |-> [j \in SlotIds |-> IF j = n THEN i
                                         ELSE IF j = k THEN n
                                         ELSE p.prevIndex[j]],
      nextIndex   |-> [p.nextIndex EXCEPT ![n] = k, ![i] = n],
      index       |-> p.index,
      curNumSlots |-> p.curNumSlots + 1,
      FreeRAM     |-> p.FreeRAM]

(* The slot is larger: the unlinked slot on top of the stack gets the rest *)
(* and is linked behind slot i.                                            *)
Split(p, i, bytes, taken, restTaken) ==
  LET n == p.index[p.curNumSlots]
      k == p.nextIndex[i]
  IN [data        |-> [p.data EXCEPT ![n] = p.data[i] + bytes],
      size        |-> [p.size EXCEPT ![n] = p.size[i] - bytes, ![i] = bytes],
      flags       |-> [p.flags EXCEPT ![n] = restTaken, ![i] = taken],
      prevIndex   |-> [j \in SlotIds |-> IF j = n THEN i
                                         ELSE IF j = k THEN n
                                         ELSE p.prevIndex[j]],
      nextIndex   |-> [p.nextIndex EXCEPT ![n] = k, ![i] = n],
      index       |-> p.index,
      curNumSlots |-> p.curNumSlots + 1,
      FreeRAM     |-> p.FreeRAM]

(* Mutant of mempool_slot_assign: a slot that is only cut counts as taken. *)
AssignAlwaysCounts(p, i, bytes, taken, restTaken) ==
  LET q == IF bytes < p.size[i]
           THEN Split(p, i, bytes, taken, restTaken)
           ELSE TakeWhole(p, i, taken)
  IN [q EXCEPT !.FreeRAM = @ - bytes]

(* FreeRAM goes down only for a slot that is taken, not for a slot that is *)
(* merely cut (slotIsTaken = 0).                                           *)
mempool_slot_assign(p, i, bytes, taken, restTaken) ==
  LET q == IF bytes < p.size[i]
           THEN Split(p, i, bytes, taken, restTaken)
           ELSE TakeWhole(p, i, taken)
  IN [q EXCEPT !.FreeRAM = IF taken = USED THEN @ - bytes ELSE @]

(* Mutant of Absorb: the back link of the slot behind is not corrected. *)
AbsorbKeepsBackLink(p, a, b) ==
  LET k == p.nextIndex[b]
  IN [p EXCEPT !.size = [@ EXCEPT ![a] = @ + p.size[b]],
               !.nextIndex = [@ EXCEPT ![a] = k],
               !.index = [@ EXCEPT ![p.curNumSlots - 1] = b],
               !.curNumSlots = @ - 1]

(* Slot a swallows its successor b, and b's number goes on the stack. *)
Absorb(p, a, b) ==
  LET k == p.nextIndex[b]
  IN [data        |-> p.data,
      size        |-> [p.size EXCEPT ![a] = @ + p.size[b]],
      flags       |-> p.flags,
      prevIndex   |-> [j \in SlotIds |-> IF j = k THEN a ELSE p.prevIndex[j]],
      nextIndex   |-> [p.nextIndex EXCEPT ![a] = k],
      index       |-> [p.index EXCEPT ![p.curNumSlots - 1] = b],
      curNumSlots |-> p.curNumSlots - 1,
      FreeRAM     |-> p.FreeRAM]

MarkFree(p, i) ==
  [p EXCEPT !.flags = [@ EXCEPT ![i] = FREE], !.FreeRAM = @ + p.size[i]]

AbsorbNext(p, i) ==
  LET k == p.nextIndex[i]
  IN IF k # NONE /\ p.flags[k] = FREE THEN Absorb(p, i, k) ELSE p

(* Mutant of AbsorbIntoPrev: no merge with the slot in front. *)
NoMergeWithPrev(p, i) == p

AbsorbIntoPrev(p, i) ==
  LET k == p.prevIndex[i]
  IN IF k # NONE /\ p.flags[k] = FREE THEN Absorb(p, k, i) ELSE p

mempool_slot_clear(p, i) == AbsorbIntoPrev(AbsorbNext(MarkFree(p, i), i), i)

(* The first slot of the list with this address is freed if it is used; an *)
(* address that no slot has, or that is free already, is ignored.          *)
SlotsAt(p, addr) == {i \in Chain(p) : p.data[i] = addr}

mempool_free_addr(p, addr) ==
  LET first == CHOOSE i \in SlotsAt(p, addr) : IsFirst(p, i, SlotsAt(p, addr))
  IN IF SlotsAt(p, addr) # {} /\ p.flags[first] = USED
     THEN mempool_slot_clear(p, first)
     ELSE p

-----------------------------------------------------------------------------
(* mempool_init with mmInit. *)
InitialPool ==
  [data        |-> [i \in SlotIds |-> IF i = 0 THEN Base ELSE 0],
   size        |-> [i \in SlotIds |-> IF i = 0 THEN PoolBytes ELSE 0],
   flags       |-> [i \in SlotIds |-> FREE],
   prevIndex   |-> [i \in SlotIds |-> NONE],
   nextIndex   |-> [i \in SlotIds |-> NONE],
   index       |-> [i \in SlotIds |-> i],
   curNumSlots |-> 1,
   FreeRAM     |-> PoolBytes]

Init ==
  /\ pool = InitialPool
  /\ gFreeQueue = <<>>
  /\ gFreeQueueTimer = 2
  /\ held = {}
  /\ phase = "idle"
  /\ tickIndex = 0
  /\ overrun = "none"

(* The guard of both allocators is an equality: it stops an allocation     *)
(* when one unlinked slot is left, and nothing when none is left.          *)
NoMoreSlots(p) == MaxSlots = p.curNumSlots + 1

(* Taking a slot number from the empty stack reads slots[maxNumSlots], the *)
(* first bytes of a caller's data: what follows is outside the model.      *)
StackEmpty(p) == p.curNumSlots = MaxSlots

Grant(i, p, bytes) ==
  /\ pool' = p
  /\ held' = held \union {[addr |-> p.data[i], bytes |-> bytes]}
  /\ UNCHANGED <<gFreeQueue, gFreeQueueTimer, phase, tickIndex, overrun>>

OverrunOf(array) ==
  /\ overrun' = array
  /\ UNCHANGED <<pool, gFreeQueue, gFreeQueueTimer, held, phase, tickIndex>>

(* mmAlloc (mempool_slot_find on the main pool): best fit, lowest first.   *)
(* A request that finds no room or no slot number returns NULL and changes *)
(* nothing.                                                                *)
mmAlloc(bytes) ==
  /\ phase = "idle"
  /\ ~NoMoreSlots(pool)
  /\ \E i \in SlotIds :
       /\ IsFirst(pool, i, SmallestFitting(pool, AlignUp(bytes)))
       /\ IF StackEmpty(pool) /\ AlignUp(bytes) < pool.size[i]
          THEN OverrunOf("slots")
          ELSE Grant(i, mempool_slot_assign(pool, i, AlignUp(bytes), USED, FREE),
                     bytes)

(* Mutant of Around: the end of the wanted range is not compared. *)
AroundStartOnly(p, addr, bytes) ==
  {i \in Chain(p) : /\ p.flags[i] = FREE
                    /\ addr >= p.data[i]
                    /\ addr < p.data[i] + p.size[i]}

(* The free slots that hold the whole of the wanted range. *)
Around(p, addr, bytes) ==
  {i \in Chain(p) : /\ p.flags[i] = FREE
                    /\ addr >= p.data[i]
                    /\ addr + bytes <= p.data[i] + p.size[i]}

(* mmAllocAtAddr where the range starts a free slot. *)
mmAllocAtSlotStart(addr, bytes) ==
  /\ phase = "idle"
  /\ ~NoMoreSlots(pool)
  /\ \E i \in Around(pool, addr, AlignUp(bytes)) :
       /\ pool.data[i] = addr
       /\ IF StackEmpty(pool) /\ AlignUp(bytes) < pool.size[i]
          THEN OverrunOf("slots")
          ELSE Grant(i, mempool_slot_assign(pool, i, AlignUp(bytes), USED, FREE),
                     bytes)

(* mmAllocAtAddr inside a free slot: the front is cut off first and stays  *)
(* free, then the rest is assigned, so that two slot numbers can be used.  *)
mmAllocInsideSlot(addr, bytes) ==
  /\ phase = "idle"
  /\ ~NoMoreSlots(pool)
  /\ \E i \in Around(pool, addr, AlignUp(bytes)) :
       /\ pool.data[i] # addr
       /\ IF StackEmpty(pool)
          THEN OverrunOf("slots")
          ELSE LET n == pool.index[pool.curNumSlots]
                   front == mempool_slot_assign(pool, i, addr - pool.data[i],
                                                FREE, USED)
               IN Grant(n, mempool_slot_assign(front, n, AlignUp(bytes), USED, FREE),
                        bytes)

mmAllocAtAddr(addr, bytes) ==
  mmAllocAtSlotStart(addr, bytes) \/ mmAllocInsideSlot(addr, bytes)

-----------------------------------------------------------------------------
(* Freeing. *)

(* Mutants of mempool_free_queue: room for one entry too many is assumed;  *)
(* the caller may use the block again.                                     *)
QueueOffByOne(h) ==
  IF Len(gFreeQueue) > FreeQueueSize
  THEN OverrunOf("queue")
  ELSE /\ gFreeQueue' = Append(gFreeQueue,
                               [addr  |-> h.addr,
                                delay |-> gFreeQueueTimer % ByteRange,
                                bytes |-> h.bytes])
       /\ held' = held \ {h}
       /\ UNCHANGED <<pool, gFreeQueueTimer, phase, tickIndex, overrun>>

QueueAndKeep(h) ==
  IF Len(gFreeQueue) = FreeQueueSize
  THEN OverrunOf("queue")
  ELSE /\ gFreeQueue' = Append(gFreeQueue,
                               [addr  |-> h.addr,
                                delay |-> gFreeQueueTimer % ByteRange,
                                bytes |-> h.bytes])
       /\ UNCHANGED <<pool, gFreeQueueTimer, held, phase, tickIndex, overrun>>

(* mempool_free_queue stores before it looks at the count, and the look    *)
(* only prints: the entry after the last is written past the array.  The   *)
(* delay is a u8.                                                          *)
mempool_free_queue(h) ==
  IF Len(gFreeQueue) = FreeQueueSize
  THEN OverrunOf("queue")
  ELSE /\ gFreeQueue' = Append(gFreeQueue,
                               [addr  |-> h.addr,
                                delay |-> gFreeQueueTimer % ByteRange,
                                bytes |-> h.bytes])
       /\ held' = held \ {h}
       /\ UNCHANGED <<pool, gFreeQueueTimer, phase, tickIndex, overrun>>

FreeNow(h) ==
  /\ pool' = mempool_free_addr(pool, h.addr)
  /\ held' = held \ {h}
  /\ UNCHANGED <<gFreeQueue, gFreeQueueTimer, phase, tickIndex, overrun>>

ReleaseBlock(h) ==
  IF gFreeQueueTimer = 0 THEN FreeNow(h) ELSE mempool_free_queue(h)

(* A caller gives a block it owns to mmFree. *)
mmFree(h) == phase = "idle" /\ ReleaseBlock(h)

mmSetDelay(state) ==
  /\ phase = "idle"
  /\ gFreeQueueTimer' = state
  /\ UNCHANGED <<pool, gFreeQueue, held, phase, tickIndex, overrun>>

(* mmFreeTick: when RAM is short, idle overlays are freed first (through   *)
(* mmFree; which ones is up to the overlay manager).                       *)
mmFreeTick ==
  /\ phase = "idle"
  /\ phase' = IF pool.FreeRAM < LowRam THEN "panic" ELSE "tick"
  /\ tickIndex' = 1
  /\ UNCHANGED <<pool, gFreeQueue, gFreeQueueTimer, held, overrun>>

PanicFree(h) == phase = "panic" /\ ReleaseBlock(h)

PanicDone ==
  /\ phase = "panic"
  /\ phase' = "tick"
  /\ UNCHANGED <<pool, gFreeQueue, gFreeQueueTimer, held, tickIndex, overrun>>

(* Mutant of Decremented: the delay is not counted down. *)
NotDecremented(delay) == delay

(* gFreeQueueDelay[i]-- on a u8. *)
Decremented(delay) == (delay + ByteRange - 1) % ByteRange

Last == Len(gFreeQueue)

(* Mutant of SwapOut: gFreeQueueCount is not decremented. *)
SwapKeepsCount(k) ==
  [m \in 1 .. Last |-> IF m = k THEN gFreeQueue[Last] ELSE gFreeQueue[m]]

(* The queue without entry k, whose place the last entry takes. *)
SwapOut(k) ==
  [m \in 1 .. Last - 1 |-> IF m = k THEN gFreeQueue[Last] ELSE gFreeQueue[m]]

(* Mutant of TickEntry: i goes on although another entry took place i. *)
TickSkipsSwapped ==
  /\ phase = "tick"
  /\ tickIndex <= Last
  /\ IF Decremented(gFreeQueue[tickIndex].delay) = 0
     THEN /\ pool' = mempool_free_addr(pool, gFreeQueue[tickIndex].addr)
          /\ gFreeQueue' = SwapOut(tickIndex)
     ELSE /\ gFreeQueue' =
                 [gFreeQueue EXCEPT ![tickIndex].delay = Decremented(@)]
          /\ UNCHANGED pool
  /\ tickIndex' = tickIndex + 1
  /\ UNCHANGED <<gFreeQueueTimer, held, phase, overrun>>

(* One turn of the loop of mmFreeTick.  The entry moved into place i is    *)
(* looked at in the next turn.                                             *)
TickEntry ==
  /\ phase = "tick"
  /\ tickIndex <= Last
  /\ IF Decremented(gFreeQueue[tickIndex].delay) = 0
     THEN /\ pool' = mempool_free_addr(pool, gFreeQueue[tickIndex].addr)
          /\ gFreeQueue' = SwapOut(tickIndex)
          /\ UNCHANGED tickIndex
     ELSE /\ gFreeQueue' =
                 [gFreeQueue EXCEPT ![tickIndex].delay = Decremented(@)]
          /\ tickIndex' = tickIndex + 1
          /\ UNCHANGED pool
  /\ UNCHANGED <<gFreeQueueTimer, held, phase, overrun>>

TickDone ==
  /\ phase = "tick"
  /\ tickIndex > Last
  /\ phase' = "idle"
  /\ tickIndex' = 0
  /\ UNCHANGED <<pool, gFreeQueue, gFreeQueueTimer, held, overrun>>

(* mmFlushFreeStack frees the queue from its end, whatever the delays. *)
mmFlushFreeStack ==
  /\ phase = "idle"
  /\ phase' = "flush"
  /\ UNCHANGED <<pool, gFreeQueue, gFreeQueueTimer, held, tickIndex, overrun>>

FlushEntry ==
  /\ phase = "flush"
  /\ gFreeQueue # <<>>
  /\ pool' = mempool_free_addr(pool, gFreeQueue[Last].addr)
  /\ gFreeQueue' = SubSeq(gFreeQueue, 1, Last - 1)
  /\ UNCHANGED <<gFreeQueueTimer, held, phase, tickIndex, overrun>>

FlushDone ==
  /\ phase = "flush"
  /\ gFreeQueue = <<>>
  /\ phase' = "idle"
  /\ UNCHANGED <<pool, gFreeQueue, gFreeQueueTimer, held, tickIndex, overrun>>

-----------------------------------------------------------------------------
Running ==
  \/ \E bytes \in Requests : mmAlloc(bytes)
  \/ \E bytes \in Requests, addr \in FixedAddrs : mmAllocAtAddr(addr, bytes)
  \/ \E h \in held : mmFree(h)
  \/ \E state \in Timers : mmSetDelay(state)
  \/ mmFreeTick
  \/ \E h \in held : PanicFree(h)
  \/ PanicDone
  \/ TickEntry
  \/ TickDone
  \/ mmFlushFreeStack
  \/ FlushEntry
  \/ FlushDone

(* After an array has been overrun nothing is known of the memory. *)
Overrun == overrun # "none" /\ UNCHANGED vars

Next == (overrun = "none" /\ Running) \/ Overrun

(* The main thread calls mmFreeTick once per frame and runs each loop it   *)
(* starts to its end; nothing obliges a caller to allocate, free or flush. *)
(* (What a turn does to the pool is left out of LoopTurns: each turn is    *)
(* one of these steps.)                                                    *)
LoopStartsOrEnds ==
  \/ phase = "idle" /\ phase' \in {"panic", "tick"}
  \/ phase = "panic" /\ phase' = "tick"
  \/ phase = "tick" /\ tickIndex > Last /\ phase' = "idle"
  \/ phase = "flush" /\ gFreeQueue = <<>> /\ phase' = "idle"

LoopTurns ==
  \/ /\ phase = "tick"
     /\ tickIndex <= Last
     /\ \/ gFreeQueue' = SwapOut(tickIndex) /\ tickIndex' = tickIndex
        \/ /\ gFreeQueue' =
                 [gFreeQueue EXCEPT ![tickIndex].delay = Decremented(@)]
           /\ tickIndex' = tickIndex + 1
  \/ /\ phase = "flush"
     /\ gFreeQueue # <<>>
     /\ gFreeQueue' = SubSeq(gFreeQueue, 1, Last - 1)
     /\ tickIndex' = tickIndex

Fairness ==
  /\ WF_phase(overrun = "none" /\ LoopStartsOrEnds)
  /\ WF_<<gFreeQueue, tickIndex>>(overrun = "none" /\ LoopTurns)

Spec == Init /\ [][Next]_vars
FairSpec == Spec /\ Fairness
-----------------------------------------------------------------------------
(* Properties.                                                             *)

Blocks == [addr : Ram, bytes : 1 .. PoolBytes]
QueueEntries == [addr : Ram, delay : 0 .. ByteRange - 1, bytes : 1 .. PoolBytes]
Pools == [data        : [SlotIds -> Nat],
          size        : [SlotIds -> Nat],
          flags       : [SlotIds -> {FREE, USED}],
          prevIndex   : [SlotIds -> SlotIds \union {NONE}],
          nextIndex   : [SlotIds -> SlotIds \union {NONE}],
          index       : [SlotIds -> SlotIds],
          curNumSlots : 1 .. MaxSlots,
          FreeRAM     : Int]

(* Every variable has its type; the queue never exceeds its array.         *)
TypeOK ==
  /\ pool \in Pools
  /\ gFreeQueue \in Seq(QueueEntries)
  /\ Len(gFreeQueue) <= FreeQueueSize
  /\ gFreeQueueTimer \in Nat
  /\ held \subseteq Blocks
  /\ phase \in {"idle", "panic", "tick", "flush"}
  /\ tickIndex \in Nat
  /\ overrun \in {"none", "slots", "queue"}

QueuedBlocks ==
  {[addr |-> gFreeQueue[k].addr, bytes |-> gFreeQueue[k].bytes] :
     k \in 1 .. Last}

Apart(a, m, b, n) == a + m <= b \/ b + n <= a

(* No two blocks that callers own or have queued for freeing share a byte, *)
(* and every block lies in the pool: mmAlloc and mmAllocAtAddr never hand  *)
(* out memory somebody may still be using.                                 *)
BlocksDisjoint ==
  /\ \A b \in held \union QueuedBlocks : b.addr + b.bytes <= Base + PoolBytes
  /\ \A b, c \in held \union QueuedBlocks :
       b # c => Apart(b.addr, b.bytes, c.addr, c.bytes)

(* A block is queued at most once and is not owned any more, so that the   *)
(* delayed free can never free the next owner's memory.                    *)
QueuedOnce ==
  /\ \A j, k \in 1 .. Last :
       gFreeQueue[j].addr = gFreeQueue[k].addr => j = k
  /\ \A h \in held, k \in 1 .. Last : h.addr # gFreeQueue[k].addr

(* The used slots are exactly the blocks owned or queued, each slot at     *)
(* least as large as what was asked for: no free goes astray, no block     *)
(* leaks.                                                                  *)
UsedSlots(p) == {i \in Linked(p) : p.flags[i] = USED}

UsedIsOwned ==
  /\ \A i \in UsedSlots(pool) :
       \E b \in held \union QueuedBlocks : b.addr = pool.data[i]
  /\ \A b \in held \union QueuedBlocks :
       \E i \in UsedSlots(pool) :
         b.addr = pool.data[i] /\ b.bytes <= pool.size[i]

(* The list from slot 0 visits every slot that is not on the stack, no     *)
(* slot is on both or on neither, and the pieces tile the pool: cutting    *)
(* and merging lose no slot and no byte.                                   *)
Links(p) ==
  \A i \in Linked(p) :
    /\ p.nextIndex[i] # NONE =>
         /\ p.nextIndex[i] \in Linked(p)
         /\ p.prevIndex[p.nextIndex[i]] = i
         /\ p.data[p.nextIndex[i]] = p.data[i] + p.size[i]
    /\ p.nextIndex[i] = NONE => p.data[i] + p.size[i] = Base + PoolBytes
    /\ p.prevIndex[i] # NONE =>
         /\ p.prevIndex[i] \in Linked(p)
         /\ p.nextIndex[p.prevIndex[i]] = i
    /\ p.prevIndex[i] = NONE <=> i = 0

ListIntact ==
  /\ pool.data[0] = Base
  /\ Links(pool)
  /\ Chain(pool) = Linked(pool)
  /\ Cardinality(Linked(pool)) = pool.curNumSlots

(* Freed neighbours are always merged: no two adjacent slots are free.     *)
Coalesced(p) ==
  \A i \in Linked(p) :
    p.flags[i] = FREE /\ p.nextIndex[i] # NONE =>
      p.flags[p.nextIndex[i]] # FREE

NoAdjacentFree == Coalesced(pool)

(* A block handed to mmFree is really freed in the end.                    *)
ReleasedIsReclaimed ==
  \A a \in Ram :
    (\E k \in 1 .. Last : gFreeQueue[k].addr = a)
      ~> (overrun # "none" \/ ~ \E k \in 1 .. Last : gFreeQueue[k].addr = a)

(* No allocation takes a slot number from the empty stack. *)
SlotTableNeverOverrun == overrun # "slots"

(* No entry is stored past the end of gFreeQueue. *)
FreeQueueNeverOverrun == overrun # "queue"

(* Setting the delay to 0 clears the queue. *)
DelayZeroClearsQueue ==
  [][gFreeQueueTimer' = 0 /\ gFreeQueueTimer # 0 => gFreeQueue' = <<>>]_vars

(* The pool keeps the promises of a heap: see AbstractHeap. *)
Heap == INSTANCE AbstractHeap WITH pending <- QueuedBlocks

HeapSpec == Heap!Spec
=============================================================================
