---------------------------- MODULE AbstractHeap ----------------------------
(***************************************************************************)
(* What src/memory.c promises to its callers, without slots, lists or      *)
(* queues.  A block of memory is first held by a caller, then pending (it  *)
(* has been given to mmFree, but hardware may still be reading it), then   *)
(* gone, and only then may its bytes be part of another block.             *)
(***************************************************************************)
EXTENDS Integers

CONSTANTS Base,      \* first byte of the pool
          PoolBytes, \* size of the pool
          Requests   \* sizes callers ask for

VARIABLES held,    \* blocks that callers own
          pending  \* blocks released, not yet reusable

heapVars == <<held, pending>>

Block == [addr : Base .. Base + PoolBytes, bytes : Requests]

Disjoint(b, c) ==
  b.addr + b.bytes <= c.addr \/ c.addr + c.bytes <= b.addr

Init ==
  /\ held = {}
  /\ pending = {}

(* A caller gets a block inside the pool that overlaps no other. *)
Take(b) ==
  /\ b.addr + b.bytes <= Base + PoolBytes
  /\ \A c \in held \union pending : Disjoint(b, c)
  /\ held' = held \union {b}
  /\ UNCHANGED pending

(* A caller gives a block up; its memory stays untouched for a while. *)
Release(b) ==
  /\ b \in held
  /\ held' = held \ {b}
  /\ pending' = pending \union {b}

(* The memory of a released block becomes reusable. *)
Reclaim(b) ==
  /\ b \in pending
  /\ pending' = pending \ {b}
  /\ UNCHANGED held

(* Release and reclaim at once, when no delay is set. *)
ReleaseNow(b) ==
  /\ b \in held
  /\ held' = held \ {b}
  /\ UNCHANGED pending

Next ==
  \/ \E b \in Block : Take(b)
  \/ \E b \in held : Release(b)
  \/ \E b \in pending : Reclaim(b)
  \/ \E b \in held : ReleaseNow(b)

Spec == Init /\ [][Next]_heapVars
=============================================================================
