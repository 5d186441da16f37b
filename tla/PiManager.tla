------------------------------ MODULE PiManager ------------------------------
(***************************************************************************)
(* Reads from the cartridge: romCopy of pi.c, the PI manager's thread      *)
(* (devmgr.c) and the access queue that keeps the bus to one user          *)
(* (piacs.c).  A reader's message carries where its data goes; romCopy     *)
(* uses one message again and again, chunk after chunk.                    *)
(*                                                                         *)
(* Other threads post reads of their own and take their answers when they  *)
(* like (the audio thread's are not in C).  The disk drive's branch of the *)
(* manager, and other kinds of message, are not met.                       *)
(***************************************************************************)
EXTENDS Naturals, Sequences, FiniteSets

CONSTANTS
  Game,          \* the thread in romCopy or a raw access
  Others,        \* other readers, with a message and a queue of their own
  MaxChunks,     \* chunks of 0x5000 bytes in a copy (bound)
  CmdSlots       \* slots of the command queue (16)

NoReader == "none"

\* Each reader has one message under way: the command queue is never full.
ASSUME PiAssumption ==
  /\ Game \notin Others /\ NoReader \notin Others \cup {Game}
  /\ MaxChunks \in Nat \ {0}
  /\ CmdSlots \in Nat /\ CmdSlots > Cardinality(Others)

Readers == Others \cup {Game}
Idle == <<NoReader, 0>>

VARIABLES
  cmdQueue,      \* messages posted to the manager, by their readers
  evtQueue,      \* whether the PI's interrupt has left its message
  acsQueue,      \* whether the token lies in the access queue
  retQueue,      \* readers whose answer waits
  mgrPc,         \* where the manager is
  mb,            \* the message it is working on
  bus,           \* the DMA under way: its reader and chunk
  posted,        \* the chunk each message asks for now
  arrived,       \* chunks of the game's copy that have arrived (history)
  chunks,        \* chunks romCopy has still to receive
  gamePc,        \* where the game's thread is
  copied         \* chunks of the copy it has received

piVars == <<cmdQueue, evtQueue, acsQueue, retQueue, mgrPc, mb, bus, posted, arrived,
            chunks, gamePc, copied>>

-----------------------------------------------------------------------------
(* Requests.                                                               *)

\* The message is filled in and sent without waiting.
osPiStartDma(r, chunk) ==
  /\ posted' = [posted EXCEPT ![r] = chunk]
  /\ cmdQueue' = IF Len(cmdQueue) < CmdSlots THEN Append(cmdQueue, r) ELSE cmdQueue

Post(r) ==
  /\ r \notin retQueue /\ r # mb /\ \A i \in DOMAIN cmdQueue : cmdQueue[i] # r
  /\ osPiStartDma(r, 1)
  /\ UNCHANGED <<evtQueue, acsQueue, retQueue, mgrPc, mb, bus, arrived, chunks, gamePc, copied>>

Take(r) ==
  /\ r \in retQueue
  /\ retQueue' = retQueue \ {r}
  /\ UNCHANGED <<cmdQueue, evtQueue, acsQueue, mgrPc, mb, bus, posted, arrived, chunks,
                 gamePc, copied>>

romCopy(n) ==
  /\ gamePc = "idle"
  /\ osPiStartDma(Game, 1)
  /\ chunks' = n /\ copied' = 0 /\ arrived' = {}
  /\ gamePc' = "copy"
  /\ UNCHANGED <<evtQueue, acsQueue, retQueue, mgrPc, mb, bus>>

\* An answer was received: on to the next chunk.
NextChunk ==
  /\ gamePc = "copy" /\ Game \in retQueue
  /\ retQueue' = retQueue \ {Game}
  /\ copied' = copied + 1 /\ chunks' = chunks - 1
  /\ IF chunks > 1
     THEN osPiStartDma(Game, copied' + 1) /\ gamePc' = gamePc
     ELSE gamePc' = "idle" /\ UNCHANGED <<cmdQueue, posted>>
  /\ UNCHANGED <<evtQueue, acsQueue, mgrPc, mb, bus, arrived>>

\* osEPiReadIo and osEPiWriteIo, which the flash functions use.
GetAccess ==
  /\ gamePc = "idle" /\ acsQueue
  /\ acsQueue' = FALSE /\ gamePc' = "raw"
  /\ UNCHANGED <<cmdQueue, evtQueue, retQueue, mgrPc, mb, bus, posted, arrived, chunks, copied>>

RelAccess ==
  /\ gamePc = "raw"
  /\ acsQueue' = TRUE /\ gamePc' = "idle"
  /\ UNCHANGED <<cmdQueue, evtQueue, retQueue, mgrPc, mb, bus, posted, arrived, chunks, copied>>

-----------------------------------------------------------------------------
(* __osDevMgrMain.                                                         *)

MgrRecv ==
  /\ mgrPc = "command" /\ cmdQueue # <<>>
  /\ mb' = Head(cmdQueue) /\ cmdQueue' = Tail(cmdQueue)
  /\ mgrPc' = "access"
  /\ UNCHANGED <<evtQueue, acsQueue, retQueue, bus, posted, arrived, chunks, gamePc, copied>>

\* Mutant: the token is left where it is.
StartUnasked ==
  /\ mgrPc = "access"
  /\ bus' = <<mb, posted[mb]>>
  /\ mgrPc' = "event" /\ acsQueue' = acsQueue
  /\ UNCHANGED <<cmdQueue, evtQueue, retQueue, mb, posted, arrived, chunks, gamePc, copied>>

MgrStart ==
  /\ mgrPc = "access" /\ acsQueue
  /\ acsQueue' = FALSE /\ bus' = <<mb, posted[mb]>>
  /\ mgrPc' = "event"
  /\ UNCHANGED <<cmdQueue, evtQueue, retQueue, mb, posted, arrived, chunks, gamePc, copied>>

\* The answer first, then the token.
MgrReply ==
  /\ mgrPc = "event" /\ evtQueue
  /\ evtQueue' = FALSE
  /\ retQueue' = retQueue \cup {mb}
  /\ acsQueue' = TRUE
  /\ mgrPc' = "command" /\ mb' = NoReader
  /\ UNCHANGED <<cmdQueue, bus, posted, arrived, chunks, gamePc, copied>>

\* The PI's interrupt.
DmaDone ==
  /\ bus # Idle
  /\ bus' = Idle /\ evtQueue' = TRUE
  /\ arrived' = IF bus[1] = Game THEN arrived \cup {bus[2]} ELSE arrived
  /\ UNCHANGED <<cmdQueue, acsQueue, retQueue, mgrPc, mb, posted, chunks, gamePc, copied>>

-----------------------------------------------------------------------------
PiInit ==
  /\ cmdQueue = <<>> /\ evtQueue = FALSE /\ acsQueue = TRUE /\ retQueue = {}
  /\ mgrPc = "command" /\ mb = NoReader /\ bus = Idle
  /\ posted = [r \in Readers |-> 0]
  /\ arrived = {} /\ chunks = 0 /\ gamePc = "idle" /\ copied = 0

PiNext ==
  \/ \E r \in Others : Post(r) \/ Take(r)
  \/ \E n \in 1..MaxChunks : romCopy(n)
  \/ NextChunk \/ GetAccess \/ RelAccess
  \/ MgrRecv \/ MgrStart \/ MgrReply \/ DmaDone

-----------------------------------------------------------------------------
PiTypeOK ==
  /\ cmdQueue \in Seq(Readers) /\ Len(cmdQueue) <= CmdSlots
  /\ {evtQueue, acsQueue} \subseteq BOOLEAN /\ retQueue \subseteq Readers
  /\ mgrPc \in {"command", "access", "event"}
  /\ mb \in Readers \cup {NoReader}
  /\ bus \in (Readers \X (1..MaxChunks)) \cup {Idle}
  /\ posted \in [Readers -> 0..MaxChunks]
  /\ {chunks, copied} \subseteq 0..MaxChunks /\ arrived \subseteq 1..MaxChunks
  /\ gamePc \in {"idle", "copy", "raw"}

\* pi.c:141 and devmgr.c:85: what romCopy has received has arrived, chunk for
\* chunk, all of them when it returns; and while a DMA runs nobody else uses
\* the bus.
CopyIsWhole ==
  /\ 1..copied \subseteq arrived
  /\ gamePc = "copy" => arrived \subseteq 1..(copied + 1)
  /\ bus # Idle => gamePc # "raw" /\ ~acsQueue
=============================================================================
