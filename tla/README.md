# Verification of Jet Force Gemini's core

TLA+ modules that model the concurrent and resource-managing core of the game
(the decompiled C under `src/`), TLC configurations that model-check them, and
TLAPS proofs. The game runs on one CPU with fixed-priority threads that share
message queues, beside two coprocessors (RSP, RDP), the video and the cartridge
interface. Most of what can go wrong and that a play test would hardly reach is
in that layer, not in the game logic, and it is this layer that is modelled.

Many C files of the repository only include assembly (`#pragma GLOBAL_ASM`)
that is not in it; such functions can be modelled only as far as C code shows
what they do. Where a function has C under `#ifdef NON_MATCHING`, that C is the
reference. The build modelled is the default one: `VERSION_us`, `JFGDIFFS`,
`_FINALROM`, `NDEBUG`.

## 1. Inventory

| Part | State | Operations | What makes it correct |
|---|---|---|---|
| Memory pool, `src/memory.c` | slots (doubly linked, address order), stack of unused slot numbers, `FreeRAM`, free queue with delays | `mmAlloc`, `mmAllocAtAddr`, `mmFree`, `mmFreeTick`, `mmFlushFreeStack`, `mmSetDelay` | blocks never overlap, a released block is reused only after its delay, the list tiles the pool, nothing leaks, tables are not overrun |
| RCP scheduler, `src/sched.c` | task lists, current RSP and RDP task, `doAudio`, `frameCount`, put-off done message, watchdog counters | one handler per message: retrace, RSP done, RDP done, audio wanted, task | beliefs about RSP/RDP match the hardware, one graphics task at a time, clients are told once, not too early, and in the end |
| Overlay linker, `src/runLink.c` | per overlay: base address, reference count, self-destruct timer; relocation tables | load, free, tick, low-memory panic, trap on first call | code is called only while loaded and relocated; every reference is undone on unload |
| Message queues and threads, `libultra/src/os` | ring buffers, wait queues by priority, run queue, thread states | send, jam, receive, start, stop, set priority, yield | bounded FIFO; no sleeper beside a usable queue; a thread is in one queue |
| Timers, `settimer.c`, `timerintr.c` | delta list, last counter value | set, interrupt | fires not too early, and in order |
| PI manager, `devmgr.c`, `pimgr.c`, `src/pi.c` | command queue, access token, event queue; `romCopy`'s own queue | DMA request, device interrupt | one transfer at a time, each reply to its requester |
| SI and controllers, `siacs.c`, `controller.c`, `src/controller.c` | access token, pad data now and before, save flags | start read, `joyRead` | edges reported once, saves done between reads |
| Controller pak, `pfs*.c` | inode pages, directory | allocate, delete, check, read/write | page chains disjoint and terminated; repaired after failures |
| Saves and rumble, `src/saves.c` | rumble state per pad | tick, start, stop | motors stop |
| VI manager, `vi*.c` | two contexts, event counter | swap buffer, retrace | the buffer shown changes at a retrace only |
| Sounds, `audio_manager_1050.c` | queue of delayed sounds, fades | play later, tick | each sound plays once |
| Textures and sprites, `textures.c` | cache with reference counts; frames of animated textures, colours of lights | load, free, animate | freed with the last reference; the frame or colour due is shown, however unevenly time passes |
| Dialogue windows, `font.c` | string slots shared by all windows, a list per window | add, flush | no slot in two lists, none lost |
| Decompression, `rzip.c` | decoding tables | build, inflate | every code leads to its symbol and uses up its bits |
| Fault handler, `diCpu.c` | event queue | stop all other threads | only the display runs on |
| Graphics submission, `rcpFast3d.c`, `gameVi.c`; audio manager, `audiomgr.c` | what they wait for | submit, wait for done, swap | (clients of the scheduler) |
| Boot, main loop, math, game world, overlays | | | sequential or assembly: not modelled, see section 10 |

How they interact. The main loop calls `mmFreeTick`, `joyRead` and the tasks of
the frame in turn. Freed memory may still be read by the RSP or the RDP, which
is why `mmFree` is delayed by two frames. `mmFreeTick` calls the overlay linker
when RAM is short, and the linker frees memory through `mmFree`. The game and
the audio manager send tasks to the scheduler's queue; the scheduler starts the
RSP, hears of its and of the RDP's end, and of each retrace, through the same
queue, and answers on the clients' queues. The PI, SI and VI managers are
threads fed the same way.

The hard behaviours, with their lines, are the `hazards` of `PROJECT.json`.

## 2. Modules and plan

Done:

1. `MemoryPool` with `AbstractHeap`, `MCMemoryPool`, and the proofs in
   `MemoryPoolProofs`.
2. `Sched` with `AbstractRcp` and `MCSched`.
3. `Kernel` with `AbstractMailbox` and `MCKernel`: the thread calls and message
   queues of libultra.

4. `Pak` with `AbstractPak` and `MCPak`: the controller pak's file system.
5. `RunLink`, `Joypad`, `PiManager`, `ViManager`, `Dialogue`, `Crc`, `Huft` and
   `Cycles`: smaller parts that share no state, composed in `MCDevices`.

6. The proofs of three of these parts: `ManagerProofs` (the VI and the PI
   manager) and `RunLinkProofs`.
7. `KernelProofs`: every property of the run `kernel`, the refinement of the
   mailbox included.
8. `SchedProofs`: the safety properties of the scheduler and the refinement of
   `AbstractRcp`.

9. `SiProofs` (the serial interface: `AnswersFit` and `CrcIsRemainder`) and
   `ScreenProofs` (what is drawn: `StringsApart` and `CyclesKeepTime`); and, in
   `MemoryPoolProofs`, that the loop of `mmFreeTick` counts each delay once and
   that `FreeRAM` is exact.
10. `PakProofs`: the types of the file system and its three safety properties.

## 3. MemoryPool

State. `pool` is the slot table, one function per field (`pool.data[i]` is
`slots[i].data`), `curNumSlots` and `FreeRAM`. `gFreeQueue` is the array with
its count, each entry with its delay. `held` is what the code cannot see: the
blocks callers own. `phase` and `tickIndex` are the position in the loops of
`mmFreeTick` and `mmFlushFreeStack`, which are split into one action per turn so
that the properties see every state between. `overrun` says that an array was
left; nothing is claimed after that.

Actions. `mmAlloc` is best fit as `mempool_slot_find` does it: `SmallestFitting`
is what the walk selects, the first of equals. `mmAllocAtAddr` is split by its
`if` into `mmAllocAtSlotStart` and `mmAllocInsideSlot`. `mempool_slot_assign`,
`mempool_slot_clear` and `mempool_free_addr` are functions of the pool. The list
is walked without recursion: `WalkFrom(p, i)` is the least set that contains i
and is closed under `nextIndex`. Callers free only what they own (`\E h \in
held`); that is the C contract of `mmFree`, and no property is claimed without
it. A low-memory panic frees any of the blocks held, since which overlays are
idle is another module's business.

`AbstractHeap` is the promise: a block is taken where it overlaps nothing held
or pending, then released, then reclaimed, and only then reusable.

| Run | Bounds | Shows |
|---|---|---|
| `memory_pool` | 5 slots, 8 bytes, granule 2, requests 1 and 4, one fixed address, queue of 2, delays 0 and 2 | type, disjointness, one place per block, list and tiling, merging, exact `FreeRAM`, the tick counts every entry once, refinement of `AbstractHeap` |
| `memory_pool_live` | 5 slots, 6 bytes, delays 0, 2 and 4, where a u8 has 4 values | a released block is freed in the end, also when the delay wraps |
| `memory_slots` (violation) | 4 slots, two fixed addresses | the equality guard lets an allocation inside a slot run the slot table over |
| `memory_queue` (violation) | queue of 1 | the free queue is overrun before its length is looked at |
| `memory_delay` (violation) | | `mmSetDelay(0)` leaves the queue, against its comment |

Five slots are enough for a used slot between two free ones with a free slot
beyond, so that each merge case (next, previous, both, none) and each split
meets each other, and for the table to fill up (guard and all). A queue of two
entries has the swap of the last entry into another's place. The live run has
fairness on the main loop only: it ticks, and ends each loop it began.

## 4. Sched

State. `sc` is the `OSSched` with the tasks' `state` words, the counters, the
done messages not yet taken, and the registers the scheduler and the hardware
share: the task on the RSP, the task on the RDP, the yield request and its
answer. `dpLocal` is the local `dp` of `__scMain`, which lives across messages.
`interruptQ` and `cmdQ` are the queues, `progress` is how far the hardware is
with a task, `game` where the game thread is in its frame.

Each handler is a function of `sc`, in the order of the code, and ends with
`Dispatch` (`__scSchedule`, then `__scExec` if anything was chosen). The
scheduler has a higher priority than its clients, so clients act only while
`interruptQ` is empty; hardware posts at any time. A retrace is not posted while
one is waiting: the handlers take far less than a frame. Bounds and assumptions:

- A task ends within `WatchdogLimit` retraces (`InTime`), but for two kinds. One
  of `MayHang` may catch the RSP for ever (`RspHangs`), until the watchdog halts
  it. One of `MayBeLate` may end at any time, so that its interrupt may be
  queued behind the retrace that takes it for hung: the interrupt then finds the
  next task, or a null pointer (`sc.crashed` is `"null"`). That is run
  `sched_late`; the other runs have no such task.
- The watchdog (`HaltExpired`, `ShowsScreen`). An expired unit's task is
  forgotten and the RSP halted. If it was graphics and `func_80050AA4` finds the
  command it was at, the crash screen is shown for ever (`"screen"`). That
  function is assembly; whether it finds one is free, and if it does not the
  scheduler goes on (`sched.c:562`).
- When the RDP's task expires with `unk68` 0, its client is sent a message before
  anything else (`sched.c:465`). The message is counted among the done messages;
  unless the screen follows, the model stops there (`"told"`): the client takes
  it for the end of a task that is still listed or runs, and what it would do
  next is in assembly.
- `SyncEarly`: the RDP may finish before the RSP ends the task. The comment at
  `sched.c:811` says it can.
- `frameCount` is capped at 2 and the audio queue at `AudioQSize`, the values
  beyond which the code makes no difference.

`AbstractRcp` is the promise: submit, the units do their parts, answer once,
and two graphics tasks are never half done together.

| Run | Bounds | Shows |
|---|---|---|
| `sched_safety` | 2 audio tasks, a frame of a graphics task and a last task, watchdog 2, RDP may finish first | the tasks believed to be on the RSP and the RDP are, also while yielded (`UnitsAsBelieved`); nothing is started from a stale `dp` or `doAudio`, or from a null task (`NoStaleStart`); refinement of `AbstractRcp` |
| `sched_live` | 2 audio tasks, of which one may hang, same frame, whose first task may hang, full sync last, watchdog 1, audio asked for at every retrace | no task is lost or doubled (`OnePlace`), a client is told only when both units have ended its task (`ReportedIsDone`), and every task is answered in the end, those after a hung one included, unless it hangs itself or the scheduler stops on account of hung graphics (`EveryTaskAnswered`) |
| `sched_late` (violation) | 2 audio tasks, one of which may be late, watchdog 1 | the RSP interrupt of a task the watchdog has forgotten is taken for the end of the audio task started after it, which is reported as done while it runs |
| `sched_lost` (violation) | as `sched_safety` | if the RDP finishes first and the RSP then ends the task instead of yielding, the done message is lost |

Two audio tasks let one wait while one runs; two graphics tasks give the frame a
task that must wait for the RDP and a last task with its put-off message. In
`sched_live` the task that hangs meets each of the others: audio before audio,
audio while graphics has yielded, graphics while audio waits.

Fairness. Weak: the scheduler thread takes messages (it has the highest
priority of the threads modelled), the RDP and the RSP on audio tasks finish
(unless they hang), retraces come. Strong: the RSP finishes graphics tasks
although they are interrupted, because a yielded task goes on where it stopped,
so that its work shrinks with each turn. Nothing is asked of the clients.
`AudioPauses` is an assumption on the load: again and again the RSP is on no
audio task. With two audio tasks submitted again as soon as they are done, the
scheduler would serve audio for ever and graphics starve, as TLC shows without
the assumption; the audio manager works for a part of each frame.

## 5. Kernel

State. `k` holds the threads' fields (`pri`, `state`, and `at`, which is
`t->queue`), the linked thread queues as sequences, and `__osRunningThread`.
`mq` holds the ring buffers. `call` is the call a sleeping thread will go on
with when it is dispatched: in the code, its program counter inside the `while`
loop. `mode` says whether the exception handler runs.

Actions. A thread call runs with interrupts masked, so each is one action up to
the point where another thread is dispatched, and the helpers are functions of
`k` in the order of the code: `__osEnqueueThread` inserts before the first
thread of lower priority, `__osEnqueueAndYield` enqueues and dispatches. A
preempted thread's call is complete when it yields; a sleeping thread's is not,
and `Resume` is its next turn of the loop. `__osException`, any number of
`send_mesg`, and `redispatch` are an interrupt; `panic` is a fault. The idle
thread of `boot.c` never sleeps, stops or changes priority, so that the run
queue is empty only while it runs.

Assumed of the callers: only stopped threads are started (in the game every
thread is started once, after it is created), and a destroyed thread is not
used again. A destroyed thread's call is kept to say what it waited for.

`AbstractMailbox` is the promise: boxes of bounded length; each call, at once or
after a wait, takes effect exactly once when there is room or a message. It is
mapped by `box` = the ring read from `first`, `pending` = `call`.

| Run | Bounds | Shows |
|---|---|---|
| `kernel` | idle and 3 threads, 2 priorities, one queue of 2 places, 2 messages, at most one thread destroyed | every thread is in its one queue, and that one sorted (`InOneSortedQueue`), the highest runs, no wakeup is lost, equals are served in order, refinement of `AbstractMailbox` |

Three threads are two sleepers and one that takes what they were woken for, or
two of equal priority and one above or below. Two places make the ring wrap
and let a sender sleep while another is woken. A second message queue would
share nothing with the first but the run queue. `NoLostWakeup` counts threads
stopped or destroyed after they were woken as on their way: a thread destroyed
then does take its wakeup with it, while the next in line sleeps on; nothing in
the game destroys another thread. There is no liveness claim: with fixed
priorities a busy thread starves all below it.

## 6. Pak

State. `disk` holds the two copies of the page table, `dir` the directory,
`content` which file last wrote each page; `cache` is `__osPfsInodeCache` and
`mounted` the flag `PFS_INITIALIZED`. A request (`op`) decides on its writes
when it begins, as the code does once it has read what it needs, and `todo` is
what it has still to write, block by block, in the code's order: both copies of
a table block alternate, the table comes before the entry of a new file and the
data after it, the entries go before the table in a format or a check. `saved`
and `clean` are histories: what the player was told was saved, and whether the
pak was checked and has had no failed write since.

Actions. One per request of `saves.c` with the libultra calls below it
(`osPfsInit`, `packRepair`, `packFreeSpace`, `packWriteFile`, `packDeleteFile`,
`packFormat`); one write (`__osContRamWrite`); a write that fails and is noticed
(`WriteFails`) or is not, because the first copy's result is overwritten by the
mirror's (`InodeWriteLost`); `PowerLoss` between any two.

Which writes may fail is the constant `FailsAt`. It leaves those out after which
the code does lose something, so that the rest can be claimed (for each of them
TLC finds the loss when it is put into `FailsAt` alone): the writes of a
deletion, of the mirror or of the entry at its end (the pages are free, the
entry still leads to them, and a later file gets them: the checker then drops
both as cross linked); the checker's own write of an entry it drops when the pak
is initialised; and a write of the first copy in an operation other than
`osPfsReFormat`, whose result the code drops (`contpfs.c:303`), so that the
cache is ahead of the pak. Power loss at these points is covered, since the
checker runs at the next start; a failed write is worse, because the machine
runs on with it.

A set is put in order by `Ascending`, and `Walk` takes a chain as far as it
leads to pages not yet passed; both are said without the sequence operators that
the provers cannot expand. That an unused entry is no entry (`NoFile`) is part
of `PakAssumption`.

`CacheIsTable` says what the cached table may be. It is always a whole one, never
the torn table of the pak. On a checked pak without a failed write since
(`clean`) it is the one on the pak whenever a request begins. After a failed
write of the mirror the pak stays mounted while its cache is older than the
table on it, and `packRepair` writes the next table from the cache; that is why
every file reported as saved must be whole in the cache too, failed writes or
not.

`AbstractPak` is the promise: names come and go in one step, only if asked for.
It is mapped by `files` = the names a check would find and keep if power failed
now, `asked` = what the request under way may still change.

| Run | Bounds | Shows |
|---|---|---|
| `pak` | 2 names, 2 entries, 3 pages in a table of 2 blocks, files of 1 or 2 pages | `SavedStays`, `CacheIsTable`, `NothingLost`, refinement of `AbstractPak` |

Three pages and files of two make chains that do not fit beside each other, are
interleaved after a deletion, and leave a file overwritten by a longer or a
shorter one. Two blocks make a table torn in the middle; the checksum covers
both. Values above a real table's are not needed: a page number is one byte and
the sum of three stays below 256, as the checksum's wrap only makes two torn
tables look alike that differ by a multiple of 256, a coincidence the code does
not rule out either.

## 7. The parts in MCDevices

Eight parts that share no state. A behaviour is one of one part (`focus`), the
others rest: one run (`devices`) explores the sum of their states, not the
product. Each property is about its own part and has its own mutant.

| Module | Code | State and actions | Bounds | Property |
|---|---|---|---|---|
| `RunLink` | `runLink.c` | bases, places of the pool, where every reference of every module leads; load with both relocation passes, failed second block, unload, panic | 3 overlays, 2 places, one overlay with two tables | `MainIsLinked`: the main module never calls into memory that is not its overlay's |
| `Joypad` | `controller.c`, `saves.c`, `cont*.c`, `pfsisplug.c` | the transfer under way, the one message, both PIF buffers, the last command; `joyRead`, `packOpen` and its fallbacks, each half of an exchange, `osContStartReadData`; each wait for a message and each start of a transfer is a step of its own | 3 exchanges a visit, 2 visits a frame, 4 tries | `AnswersFit`, `PadsKeepComing` |
| `PiManager` | `pi.c`, `devmgr.c`, `piacs.c` | command queue, token, event, answers; `romCopy` chunk by chunk, others' reads, raw accesses, the manager's three waits, the interrupt | 3 chunks, 2 other readers | `CopyIsWhole` |
| `ViManager` | `vi*.c` | two contexts, registers, count down; each setter, the retrace, the manager's turn | 2 buffers, 2 modes, 2 clients, 2 retraces pending | `ContextsAgree` |
| `Dialogue` | `font.c` | numbers, links, heads; add, flush | 2 windows, 4 slots, 3 numbers | `StringsApart` |
| `Crc` | `crc.c` | the register of each loop, bit by bit | addresses of 11 bits (all); data of 3 bytes, at most 2 bits set | `CrcIsRemainder` |
| `Huft` | `rzip.c` | lengths, tables on the way to a code, entries made; new table, entry, next code | 6 symbols, lengths up to 5, first tables of 2 or 3 bits | `TablesDecode` |
| `Cycles` | `textures.c` | frame and direction, colour and time; loop, bounce, blink, light | 3 frames, times up to 2, steps 0, 1, 4 | `CyclesKeepTime` |

What is assumed, part by part:

- `RunLink`. A place is reused at once, where `mmFree` may delay it: more
  behaviours, not fewer. Counts and timers are assembly; what the panic asks of
  them is free. `MainIsLinked` is claimed until a load fails halfway, because
  that leaves a base that is not owned (a hazard of the list). References of one
  overlay to another that was unloaded are left dangling by the code, and
  nothing is claimed of them.
- `Joypad`. One thread uses the interface, so that the access queue is never
  waited for. Fairness: a transfer ends, the thread goes on when it can, and
  the main loop calls `joyRead` frame after frame; all weak. Packs are visited
  or not. Interrupts are on between a message taken and the start of the
  transfer it stands for (`contramread.c:51`, `contreaddata.c:20`). When the
  message was a stale one, the transfer that was overtaken may end in that gap
  (`slipped`): its message is then taken for the end of the next transfer, a
  status may be read from an old answer, and a format write may be refused,
  after which no answer of the pads comes again. Both properties are claimed
  until that has happened; the gap is a few instructions long. A transfer that ends at any other point, before the
  message is looked for or after the next was refused, is covered.
- `PiManager`. Each reader has one message under way, as in the code: the
  command queue of 16 is never full (`PiAssumption`).
- `ViManager`. Retraces are not lost: `viEventQueue` holds 5, the bound is 2.
- `Dialogue`. No caller passes the number 255, which marks a free slot.
- `Crc`. The run takes blocks (`DataBlocks`) of three bytes with at most two
  bits set, which exercise every step of the loop: a shift with and without the
  polynomial, the extra byte of zeros. The proof is for any blocks of any size.
- `Huft`. The data is what the inflater can pass on: complete sets of lengths,
  or a single length. With more symbols than 2^l + l, the search for a table's
  size may stop at a table larger than l bits (`rzip.c:174`), and lookups then
  fail; 288 symbols with 9 bits, 30 with 6 and 19 with 7 stay below
  (`HuftAssumption`).
- `Cycles`. Textures have frames, and a light's times fit 16 bits
  (`CyclesAssumption`): the code does not look.

## 8. Proofs

`MemoryPoolProofs` proves, for every number of slots, pool size, granule,
request set, queue length, byte range, timer set and threshold that
`PoolAssumption` allows:

| Theorem | Property |
|---|---|
| `TypeCorrect` | `TypeOK` |
| `NeverOverlap` | `BlocksDisjoint` |
| `NeverQueuedTwice` | `QueuedOnce` |
| `NoLeak` | `UsedIsOwned` |
| `ListStaysIntact` | `ListIntact` |
| `AlwaysCoalesced` | `NoAdjacentFree` |
| `ImplementsHeap` | `HeapSpec` |
| `EachDelayOnce` | `TickCountsOnce` |
| `FreeRamCounts` | `FreeRamExact` |

The argument. None of these is inductive alone: disjointness of blocks needs
that blocks are whole slots, which needs the list to tile the pool, which needs
the links to be mutual and the stack to hold exactly the unlinked slots. The
inductive invariant is `IInv`: the types; `PoolInv(pool, AllBlocks)`, which says
that the list is well linked and tiles the pool (`PoolOK`), is all reachable
from slot 0 (`Reached`), is merged (`Coalesced`) and its used slots match the
blocks owned or queued (`Matches`); `QueuedOnce`; and the range of the loop
index. The actions are first reduced (`NextEffect`) to five effects: a block
is granted, queued, freed, reclaimed, or nothing changes that matters. The
effects preserve `IInv` (`EffectIInv`) by the lemmas of the first part,
which say what splitting, absorbing and clearing do to a well-formed pool. The
refinement maps the same five effects to `Take`, `Release`, `ReleaseNow`,
`Reclaim` and a stutter. `EachDelayOnce` is about `MCSpec`, the specification
with the queue as it was when the loop began as a history variable. Beside
`IInv` it needs `TickInv`: what is ahead of the index is part of that queue, and
what is behind it is the rest, counted down, without those whose delay ran out.
That entries are told apart by their addresses (`QueuedOnce`) makes each turn
move one entry and no other. `FreeRamCounts` is about a sum over the free slots:
that the sum depends on neither the order nor the numbers of the slots is proved
by induction on how many there are, and each cut, merge and release then moves
the sum and `FreeRAM` by the same bytes.

`KernelProofs` proves every property of the run `kernel`, for any threads,
priorities, message queues, ring sizes and messages (`KernelAssumption`):

| Theorem | Property | The argument |
|---|---|---|
| `KernelTypeCorrect` | `TypeOK` | The index arithmetic of the ring (`first`, `validCount`, modulo the size) stays in range. |
| `QueuesInOrder` | `InOneSortedQueue` | `Arranged`: every thread in the queue its field names, once, and in no other, sorted. Inserting, removing and taking the head each keep it; what is between two of them (a thread taken off its queue and not yet put elsewhere) is stated for all threads but that one. |
| `HighestPriorityRuns` | `HighestRuns` | The head of a sorted run queue is its highest, so that each call has to compare with the head alone. |
| `SleepersHaveCalls` | `SleepsForItsCall` | A thread that sleeps or was woken has an unfinished call, whose queue is the only one it may sleep in; a stopped thread keeps it. |
| `WakeupsSuffice` | `NoLostWakeup` | Two facts for each queue of sleepers. That of the receivers: while it is not empty, as many receivers as there are messages are on their way (stopped or destroyed ones counted). That a thread woken finds it so, whoever came between, needs the sets counted to change by one thread in each step. |
| `ServedInTurn` | `FirstComeFirstServed` | Insertion goes behind equals, removal changes no order; a thread that moves leaves its queue first. |
| `QueuesAreMailboxes` | `MailboxSpec` | The ring read from `first` gains the message at its end (`osSendMesg`), at its front (`osJamMesg`) or loses its first, by lemmas on indices modulo the ring's size; every other step leaves ring and calls alone. |

`KernelInvariant` is the inductive invariant behind the first five.

`SchedProofs` is about the scheduler with any audio tasks, any frame of graphics
tasks, any of them with `OS_SC_LAST_TASK`, and any watchdog (`SchedAssumption`),
under the hypothesis `Punctual`, that `MayBeLate` and `MayHang` are empty: no task
runs into the watchdog. The runs `sched_safety` and `sched_lost` make it too.

| Theorem | Property | The argument |
|---|---|---|
| `SchedTypes` | `TypeOK` | With the invariant below; `crashed` stays `"no"`. |
| `SchedUnits` | `UnitsAsBelieved` | `RspSide` and `RdpSide`: an interrupt is on its way exactly when the unit is believed busy and is not; the RDP's task keeps its `DP` flag until then. |
| `SchedNoStaleStart` | `NoStaleStart` | `doAudio` is set only with audio waiting. A stale `dp` meets a dispatch only when a task arrives, and then either nothing is started or a fresh task, which overwrites it: no task waits as yielded while the RSP is free (`Ok`). |
| `SchedOnePlace` | `OnePlace` | `OncePlaced`: what a handler takes from one place it puts into another. |
| `SchedReportedIsDone` | `ReportedIsDone` | A task that was answered has finished and is in no other place (`OncePlaced`), so that it is on neither unit; the RDP works on no task but the one the scheduler believes (`RdpSide`). |
| `SchedReports` | `CompleteIsReported` | A finished task with nothing left to do can be in no other place. The run `sched_lost` shows that this fails if the RDP may finish first. |
| `SchedRefinesRcp` | `RcpSpec` | A message answers at most one client, whose task is finished and off both units; an end of the RSP or the RDP takes that unit's part from the only graphics task that has begun (`OthersWhole`); all else stutters. |

The handlers are functions of the scheduler's state `s`, so the invariant is
stated of `s` and of the environment `h` it meets: how many messages of each
kind are queued, how far the hardware is with each task, whether a swap is
pending. `Mid(s, h)` holds between two steps of a handler, `Ok(s, h)` between
two messages. At its heart is `Begun`: a graphics task the RSP has begun is the
only one, no swap is pending, and it holds the RDP until that has done its part;
a yielded task is the head of the list (`YieldedSide`). That a swap is never
asked for while a graphics task is under way comes from the game's frame
(`GameSide`), that the RDP's interrupt never overtakes the RSP's when the full
sync is last from the order of the queue (`InSequence`), that no counter reaches
the watchdog from `Punctual` (`OnTime`). Each helper (append, choose, start,
complete, yield) keeps `Mid`, each handler leads from `Ok` to `Ok`, and
`SchedInvariant` puts them together. `SchedOnePlace` and `SchedReports` have the
further hypothesis `Exact`: the full sync is the RSP's last act, and at most one
task is marked as last (`unkTask` holds one; a second would overwrite it).

`PakProofs` is about paks of any size: any names, number of entries, pages and
blocks of the table, and any sizes of files (`PakAssumption`). Which writes may
fail is a hypothesis where it matters:

- `FirstCopyWritten`: no write of the first copy is lost unseen, but in a format.
  Without it the cache of a checked pak may be ahead of the pak.
- `Dependable`: writes fail only in a format, and when a good mirror is copied
  back. Power may fail between any two writes, as often as it likes.

| Theorem | Property | Hypothesis | The argument |
|---|---|---|---|
| `PakTypes` | `TypeOK` | | Any blocks of two tables whose entries are pages or marks are such a table again; the checksum, a sum by recursion, is a byte. |
| `CacheStaysTable` | `CacheIsTable` | `Dependable` | The next two, and `Held` of `SavedFilesStay`, which speaks of the cache as of every other table a check could read. |
| `CacheNeverTorn` | | | The cache is a table that was read whole and checked, or the one of a write whose last block has been written (`SealInv`). |
| `CheckedCacheAgrees` | | `FirstCopyWritten` | `Heads`: there is a table S such that every block of either copy is that of S or still to be written, all writes to come are of S, and the cache is S once the last block of the mirror is written. A mirror copied back disturbs this only where a write of S follows. |
| `CopiesAgree` | | `FirstCopyWritten` | The same; with nothing left to write both copies are S, and S checks. |
| `CheckedPakIsWhole` | `NothingLost` | `Dependable` | `FileInv`: the writes under way lead to a table and a directory that fit (`Consistent`), and no two entries, of now or to come, start at the same page. That the checker's counts make a file whole says that its pages form a chain no other page leads into (`WholeIs`); two such chains that start apart never meet (`StartApart`), by induction along them; so what the checker keeps, a new file on free pages and a deletion each leave the rest as it was. |
| `SavedFilesStay` | `SavedStays` | `Dependable` | `Held`: a saved file has the same chain in both copies and in every table still to be written, so that it has it in any blocks of them (`GuardsBlend`): whichever torn table a checker reads, whether or not it checks, the file is whole in it. Writes to come spare its entry and its pages (`Sparing`). While it is saved, `Fills` says which of its pages still wait for their data. |

Seven of the parts in `MCDevices` have their proofs, each about the part's own
specification (`ViSpec`, `PiSpec`, `LinkSpec`, `JoySpec`, `CrcSpec`, `DialogueSpec`,
`CyclesSpec`: its `Init` and `Next`), of which the run explores an instance. Each module proves
the part's types as well (`ViTypes`, `PiTypes`, `LinkTypes`, `JoyTypes`,
`CrcTypes`, `DialogueTypes`, `CyclesTypes`).

| Theorem | Property | The argument |
|---|---|---|
| `ManagerProofs`: `ContextsAlwaysAgree` | `ContextsAgree` | Inductive with the types: a call changes the next context and what was asked for alike; after the exchange the copy makes the new next context equal to the one shown. Holds for any number of pending retraces. |
| `ManagerProofs`: `CopiesAreWhole` | `CopyIsWhole` | Needs to know where a message is: in the command queue, with the manager, or answered, and in one of them only (`Apart`, `Asking`); who has the token (`Token`); what the manager waits for (`Manager`); and that the chunks that arrived are those received, and the next one once its transfer has ended (`Copy`). Then the answer `romCopy` takes is that of its own chunk. |
| `RunLinkProofs`: `MainStaysLinked` | `MainIsLinked` | Inductive with the types: every loaded overlay's place was allocated for it, so that a place free for a load, or freed with another overlay, is not the place of one that stays. |
| `SiProofs`: `AnswersFitInStep` | `AnswersFit` | Until a transfer has slipped (`InStep`), the invariant says, for each point of the game's thread, which transfer is under way or ended and whose message is in the queue (`PointsInv`). A read of the pads that `packOpen` overtakes can only get ahead of an exchange that asks the pak, whose data is checked; after that exchange the interface is quiet again. That the PIF holds the format of the pads whenever `__osContLastCmd` says so (`FormatInv`) makes the read of the pads theirs. |
| `SiProofs`: `ChecksumsAreRemainders` | `CrcIsRemainder` | Bit by bit: bit e of the register is set exactly when an odd number of the message's bits that were shifted in have, by now, a power of x whose remainder has bit e (`RegisterInv`). A turn makes of the set of these bits the symmetric difference of two such sets and the bit shifted in (`EnteredNext`), and a symmetric difference is odd when one of its two sets is (`OddDifference`). What an address' register holds above its fifth bit never comes back. |
| `SiProofs`: `OneBitIsSeen` | | No power of x is a multiple of the generator, since its last term is 1; so a bit turned over changes some bit of the remainder. |
| `ScreenProofs`: `CyclesAlwaysKeepTime` | `CyclesKeepTime` | Turning a frame round at an end keeps the part of the cycle it stands for (`Phase`, modulo 2n - 1) and brings it nearer, so that the loop ends (`OneTurn`, `SettledIs`). For a light: the second round takes as long as the first (`ElapsedGrows`), so that there is a colour due (`ColourDue`) and its beginning is known modulo a round; the 16 bits never overflow, by `CyclesAssumption`. |
| `ScreenProofs`: `StringsStayApart` | `StringsApart` | With `Owned` and `List` in place of the counts. What a window shows is the least set of slots that holds its first and is closed under the links; closing one such set under the links of another shows what an insertion does to it (`WalkGrows`) and that it does nothing to the other windows (`WalkStays`), without unrolling a list. The last slot of a list is where the walk over greater numbers must stop at the latest (`WalkStops`). |

Assumed of the constants are only the named assumptions of these modules
(`PoolAssumption`, `SchedAssumption`, `KernelAssumption`, `PakAssumption`, `ViAssumption`,
`PiAssumption`, `LinkAssumption`, `JoyAssumption`, `CrcAssumption`, `DialogueAssumption`,
`CyclesAssumption`), which TLC
evaluates for the values of the runs, and the hypotheses named above.

Induction. The library's induction theorems have an operator as a parameter,
which the provers cannot instantiate. The proofs use a first-order form instead
(`Upward`): a set of numbers that holds 0, and with each number the next, is
`Nat`, from the least element of what it leaves out. A recursive function is
opened as the `CHOOSE` it stands for, once it is proved that a function with
these equations exists.

Only model-checked:

- `ReleasedIsReclaimed` and the other liveness properties.
- The refinement of `AbstractPak`. The checksum is one byte, so that a table torn
  in the middle may check by accident, and a file half deleted would then vanish
  when the pak is initialised, not while it is deleted; `PakSpec` says that this
  does not happen in the tables of the run.
- Paks that are used on after a failed write of a save or a check. The run `pak`
  has them, `Dependable` leaves them out (`CacheNeverTorn` does not).
- The scheduler with tasks that hang, in the run `sched_live`.
- `TablesDecode` and the types of `Huft`: the provers know nothing of powers
  (that 2^n is a number, or twice 2^(n - 1)), of which the codes are made. With
  them `DevicesTypeOK`, the types of the eight parts together, of which those of
  the other seven are proved.

## 9. Findings

The five violation runs (`memory_slots`, `memory_queue`, `memory_delay`,
`sched_lost`, `sched_late`); each quotes the line it contradicts in `PROJECT.json`.
In the game as shipped the slot table has 1600 slots and the free queue 256
entries, so that the first two need a heavy load to show.

## 10. Not modelled

The larger part of the repository's lines cannot be modelled faithfully, or has
no behaviour to model: headers of macros and structures, tables of video modes,
and functions that are assembly not in the repository or C that is marked as
not equivalent to it. Function bodies are about a quarter of the lines, the rest
is headers, tables, declarations and comments; what is modelled is most of the
C that keeps state shared between threads, devices or callers.

- Memory manager: colour tags, sub-pools, debug output.
- Scheduler: tasks with a display list in DRAM, SP-only and PARALLEL tasks (no C
  code submits one), `PRE_NMI_MSG` (passed on), adding and removing clients, the
  crash screen's drawing. The crash screen itself is a terminal state.
- Threads: saved registers, interrupt masks, the active list. Timers: the game
  sets one at boot, so that the delta list never has a second entry.
- Overlay linker: values of counts and timers (assembly).
- PI: the disk drive's branch, asset tables. SI: button edges, save flags.
- Controller pak: several banks, the ID block, reading, `osPfsFileState`.
- Rumble's timers, delayed sounds and the texture cache: `rumbleTick`,
  `amAudioTick` and the functions that free textures have C that is marked as not
  equivalent to the game's, and a model of it would be a model of a guess.
  `runLink.c`'s relocation is so marked too ("could be NON_MATCHING", it says), but
  what it does to a reference follows from the relocation types, and it is
  modelled.
- Fault handler: stops the other threads one by one with `osStopThread`, which is
  in `Kernel`; the rest is layout.
- The inflater itself (assembly), window layout and drawing, math, C library,
  packing of save data: assembly or straight arithmetic.
- Cartridge flash: commands to a chip, one after the other; `PiManager` has the
  raw accesses they make. libultra's own scheduler is replaced by `sched.c`.
- Game world and overlays: mostly assembly, and geometry in floating point.
