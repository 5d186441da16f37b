---------------------------- MODULE MCMemoryPool ----------------------------
(***************************************************************************)
(* Model-checking instances of MemoryPool, with a history variable: the    *)
(* free queue as it was when the loop of mmFreeTick began.                 *)
(***************************************************************************)
EXTENDS MemoryPool, FiniteSetsExt

VARIABLE atLoopStart

MCVars == <<vars, atLoopStart>>

MCInit == Init /\ atLoopStart = <<>>

MCNext ==
  /\ Next
  /\ atLoopStart' = IF phase' # "tick" THEN <<>>
                    ELSE IF phase # "tick" THEN gFreeQueue'
                    ELSE atLoopStart

MCSpec == MCInit /\ [][MCNext]_MCVars

(* FreeRAM, which decides when mmFreeTick panics, is the number of free    *)
(* bytes.                                                                  *)
FreeSlots == {i \in Linked(pool) : pool.flags[i] = FREE}

FreeRamExact ==
  pool.FreeRAM = MapThenSumSet(LAMBDA i : pool.size[i], FreeSlots)

(* One run of the loop of mmFreeTick counts every queued delay down once,  *)
(* frees exactly the blocks whose delay ran out, and keeps each of the     *)
(* others with its own delay, although it moves entries as it goes.        *)
Entries(queue) == {queue[k] : k \in DOMAIN queue}

TickCountsOnce ==
  [][phase = "tick" /\ phase' = "idle" =>
       Entries(gFreeQueue) =
         {[e EXCEPT !.delay = Decremented(e.delay)] :
            e \in {x \in Entries(atLoopStart) : Decremented(x.delay) # 0}}]_MCVars
=============================================================================
