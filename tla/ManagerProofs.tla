---------------------------- MODULE ManagerProofs ----------------------------
(***************************************************************************)
(* Proofs about libultra's two device managers: reads from the cartridge   *)
(* (PiManager) and the video interface (ViManager).                        *)
(*                                                                         *)
(* PI: types, and that what romCopy has received has arrived while nobody  *)
(* else used the bus.  The invariant says where a message can be: in the   *)
(* command queue, with the manager, or answered, and in one of these       *)
(* places only, because a reader asks again only when it has its answer    *)
(* (Apart); who has the token (Token); what the manager waits for          *)
(* (Manager); and how far the game's copy is (Copy).                       *)
(*                                                                         *)
(* VI: types, and that the two contexts agree with what was asked for and  *)
(* with what is shown.  Together they are inductive.                       *)
(***************************************************************************)
EXTENDS PiManager, ViManager, TLAPS

(* The PI manager. ------------------------------------------------------- *)

PiSpec == PiInit /\ [][PiNext]_piVars

\* A message is in one place.
Apart ==
  /\ \A i, j \in 1..Len(cmdQueue) : cmdQueue[i] = cmdQueue[j] => i = j
  /\ \A i \in 1..Len(cmdQueue) : cmdQueue[i] # mb /\ cmdQueue[i] \notin retQueue
  /\ mb \notin retQueue

\* A message that asks for something asks for a chunk.
Asking ==
  /\ \A i \in 1..Len(cmdQueue) : posted[cmdQueue[i]] \in 1..MaxChunks
  /\ mb # NoReader => posted[mb] \in 1..MaxChunks

\* The token lies in the queue, or the manager has it, or the game.
Token ==
  /\ acsQueue <=> gamePc # "raw" /\ mgrPc # "event"
  /\ ~(gamePc = "raw" /\ mgrPc = "event")

\* The manager works on a message except while it waits for one; a transfer is
\* under way, or has left its event, only while the manager waits for that.
Manager ==
  /\ mb = NoReader <=> mgrPc = "command"
  /\ mgrPc # "event" => bus = Idle /\ ~evtQueue
  /\ mgrPc = "event" => IF evtQueue THEN bus = Idle ELSE bus = <<mb, posted[mb]>>

\* The chunk asked for has arrived, although romCopy has not received it yet.
Ahead == Game \in retQueue \/ (mb = Game /\ evtQueue)

Copy ==
  /\ gamePc = "copy" =>
       /\ posted[Game] = copied + 1
       /\ chunks >= 1 /\ copied + chunks <= MaxChunks
       /\ arrived = 1..(IF Ahead THEN copied + 1 ELSE copied)
  /\ gamePc # "copy" =>
       /\ \A i \in 1..Len(cmdQueue) : cmdQueue[i] # Game
       /\ mb # Game /\ Game \notin retQueue
       /\ 1..copied \subseteq arrived

PiInv == PiTypeOK /\ Apart /\ Asking /\ Token /\ Manager /\ Copy

-----------------------------------------------------------------------------
\* A message posted by a reader who has no other goes behind those in the queue.
LEMMA PostedApart ==
  ASSUME PiInv, NEW r \in Readers, NEW chunk \in 1..MaxChunks,
         \A i \in 1..Len(cmdQueue) : cmdQueue[i] # r,
         r # mb, osPiStartDma(r, chunk),
         retQueue' = retQueue \ {r}, mb' = mb
  PROVE  /\ Apart' /\ Asking'
         /\ cmdQueue' \in Seq(Readers) /\ Len(cmdQueue') <= CmdSlots
         /\ posted' \in [Readers -> 0..MaxChunks]
         /\ posted'[r] = chunk
         /\ \A s \in Readers : s # r => posted'[s] = posted[s]
         /\ \A i \in 1..Len(cmdQueue') :
              cmdQueue'[i] # r => \E j \in 1..Len(cmdQueue) : cmdQueue'[i] = cmdQueue[j]
  <1>1. /\ cmdQueue \in Seq(Readers) /\ Len(cmdQueue) <= CmdSlots /\ CmdSlots \in Nat
        /\ posted \in [Readers -> 0..MaxChunks] /\ MaxChunks \in Nat \ {0}
        /\ mb \in Readers \cup {NoReader} /\ retQueue \subseteq Readers
    BY PiAssumption DEF PiInv, PiTypeOK
  <1>2. posted' = [posted EXCEPT ![r] = chunk]
    BY DEF osPiStartDma
  <1>3. /\ posted' \in [Readers -> 0..MaxChunks] /\ posted'[r] = chunk
        /\ \A s \in Readers : s # r => posted'[s] = posted[s]
    BY <1>1, <1>2
  <1>4. /\ Apart /\ Asking
    BY DEF PiInv
  <1>5. CASE Len(cmdQueue) < CmdSlots
    <2>1. /\ cmdQueue' = Append(cmdQueue, r) /\ cmdQueue' \in Seq(Readers)
          /\ Len(cmdQueue') = Len(cmdQueue) + 1
          /\ cmdQueue'[Len(cmdQueue) + 1] = r
          /\ \A i \in 1..Len(cmdQueue) : cmdQueue'[i] = cmdQueue[i] /\ cmdQueue[i] \in Readers
      BY <1>1, <1>5 DEF osPiStartDma
    <2>2. \A i \in 1..Len(cmdQueue') :
            i \in 1..Len(cmdQueue) \/ (i = Len(cmdQueue) + 1 /\ cmdQueue'[i] = r)
      BY <1>1, <2>1
    <2>3. Apart'
      BY <1>4, <2>1, <2>2 DEF Apart
    <2>4. Asking'
      BY <1>1, <1>3, <1>4, <2>1, <2>2 DEF Asking
    <2> QED BY <1>1, <1>3, <1>5, <2>1, <2>2, <2>3, <2>4
  <1>6. CASE ~(Len(cmdQueue) < CmdSlots)
    <2>1. cmdQueue' = cmdQueue /\ \A i \in 1..Len(cmdQueue) : cmdQueue[i] \in Readers
      BY <1>1, <1>6 DEF osPiStartDma
    <2>2. Apart' /\ Asking'
      BY <1>1, <1>3, <1>4, <2>1 DEF Apart, Asking
    <2> QED BY <1>1, <1>3, <2>1, <2>2
  <1> QED BY <1>5, <1>6

-----------------------------------------------------------------------------
(* The inductive invariant.                                                *)

LEMMA InitPiInv == PiInit => PiInv
  <1> SUFFICES ASSUME PiInit PROVE PiInv
    OBVIOUS
  <1>1. cmdQueue = <<>> /\ Len(cmdQueue) = 0 /\ cmdQueue \in Seq(Readers)
    BY DEF PiInit
  <1>2. PiTypeOK
    <2>1. Len(cmdQueue) <= CmdSlots /\ 0 \in 0..MaxChunks
      BY <1>1, PiAssumption
    <2>2. posted \in [Readers -> 0..MaxChunks] /\ bus \in {Idle}
      BY <2>1 DEF PiInit
    <2> QED BY <1>1, <2>1, <2>2 DEF PiInit, PiTypeOK
  <1>3. Apart /\ Asking
    BY <1>1 DEF PiInit, Apart, Asking
  <1>4. Token /\ Manager
    BY DEF PiInit, Token, Manager
  <1>5. Copy
    BY <1>1, PiAssumption DEF PiInit, Copy, NoReader, Readers
  <1> QED BY <1>2, <1>3, <1>4, <1>5 DEF PiInv

\* Another reader's request and its answer leave the game's copy alone.
LEMMA PostKeepsPiInv ==
  ASSUME PiInv, NEW r \in Others, Post(r)
  PROVE  PiInv'
  <1>1. /\ r \in Readers /\ r # Game /\ r # NoReader /\ 1 \in 1..MaxChunks
        /\ r \notin retQueue /\ r # mb /\ \A i \in 1..Len(cmdQueue) : cmdQueue[i] # r
        /\ osPiStartDma(r, 1) /\ retQueue' = retQueue \ {r} /\ mb' = mb
    BY PiAssumption DEF Post, Readers, PiInv, PiTypeOK
  <1>2. UNCHANGED <<evtQueue, acsQueue, retQueue, mgrPc, mb, bus, arrived, chunks, gamePc, copied>>
    BY DEF Post
  <1>3. /\ Apart' /\ Asking'
        /\ cmdQueue' \in Seq(Readers) /\ Len(cmdQueue') <= CmdSlots
        /\ posted' \in [Readers -> 0..MaxChunks]
        /\ \A s \in Readers : s # r => posted'[s] = posted[s]
        /\ \A i \in 1..Len(cmdQueue') :
             cmdQueue'[i] # r => \E j \in 1..Len(cmdQueue) : cmdQueue'[i] = cmdQueue[j]
    BY <1>1, PostedApart
  <1>4. PiTypeOK'
    BY <1>2, <1>3 DEF PiInv, PiTypeOK
  <1>5. Token'
    BY <1>2 DEF PiInv, Token
  <1>6. Manager'
    BY <1>1, <1>2, <1>3 DEF PiInv, Manager, PiTypeOK
  <1>7. posted'[Game] = posted[Game]
    BY <1>1, <1>3 DEF Readers
  <1>8. Copy'
    BY <1>1, <1>2, <1>3, <1>7 DEF PiInv, Copy, Ahead
  <1> QED BY <1>3, <1>4, <1>5, <1>6, <1>8 DEF PiInv

LEMMA TakeKeepsPiInv ==
  ASSUME PiInv, NEW r \in Others, Take(r)
  PROVE  PiInv'
  <1>1. /\ r # Game /\ retQueue' = retQueue \ {r}
        /\ UNCHANGED <<cmdQueue, evtQueue, acsQueue, mgrPc, mb, bus, posted, arrived, chunks,
                       gamePc, copied>>
    BY PiAssumption DEF Take
  <1>2. PiTypeOK' /\ Token' /\ Manager' /\ Asking'
    BY <1>1 DEF PiInv, PiTypeOK, Token, Manager, Asking
  <1>3. Apart'
    BY <1>1 DEF PiInv, Apart
  <1>4. Copy'
    BY <1>1 DEF PiInv, Copy, Ahead
  <1> QED BY <1>2, <1>3, <1>4 DEF PiInv

\* The copy's first chunk: no message of the game is anywhere.
LEMMA RomCopyKeepsPiInv ==
  ASSUME PiInv, NEW n \in 1..MaxChunks, romCopy(n)
  PROVE  PiInv'
  <1>1. /\ Game \in Readers /\ Game # mb /\ Game \notin retQueue /\ 1 \in 1..MaxChunks
        /\ \A i \in 1..Len(cmdQueue) : cmdQueue[i] # Game
        /\ osPiStartDma(Game, 1) /\ retQueue' = retQueue \ {Game} /\ mb' = mb
    BY PiAssumption DEF romCopy, Readers, PiInv, Copy, PiTypeOK
  <1>2. /\ UNCHANGED <<evtQueue, acsQueue, retQueue, mgrPc, mb, bus>>
        /\ chunks' = n /\ copied' = 0 /\ arrived' = {}
        /\ gamePc = "idle" /\ gamePc' = "copy"
    BY DEF romCopy
  <1>3. /\ Apart' /\ Asking'
        /\ cmdQueue' \in Seq(Readers) /\ Len(cmdQueue') <= CmdSlots
        /\ posted' \in [Readers -> 0..MaxChunks] /\ posted'[Game] = 1
        /\ \A s \in Readers : s # Game => posted'[s] = posted[s]
    BY <1>1, PostedApart
  <1>4. PiTypeOK'
    BY <1>2, <1>3, PiAssumption DEF PiInv, PiTypeOK
  <1>5. Token'
    BY <1>2 DEF PiInv, Token
  <1>6. Manager'
    BY <1>1, <1>2, <1>3 DEF PiInv, Manager, PiTypeOK
  <1>7. Copy'
    <2>1. ~Ahead' /\ arrived' = 1..copied'
      BY <1>1, <1>2 DEF Ahead
    <2> QED BY <1>2, <1>3, <2>1, PiAssumption DEF Copy
  <1> QED BY <1>3, <1>4, <1>5, <1>6, <1>7 DEF PiInv

\* The next chunk is asked for when the last was received.
LEMMA NextChunkKeepsPiInv ==
  ASSUME PiInv, NextChunk
  PROVE  PiInv'
  <1>1. /\ Game \in Readers /\ Game # mb /\ Game \in retQueue
        /\ \A i \in 1..Len(cmdQueue) : cmdQueue[i] # Game
        /\ retQueue' = retQueue \ {Game} /\ mb' = mb
    BY DEF NextChunk, Readers, PiInv, Apart
  <1>2. /\ UNCHANGED <<evtQueue, acsQueue, mgrPc, mb, bus, arrived>>
        /\ copied' = copied + 1 /\ chunks' = chunks - 1 /\ gamePc = "copy"
    BY DEF NextChunk
  <1>3. /\ copied \in Nat /\ chunks \in Nat /\ chunks >= 1 /\ copied + chunks <= MaxChunks
        /\ MaxChunks \in Nat /\ arrived = 1..(copied + 1)
    BY <1>1, <1>2, PiAssumption DEF PiInv, Copy, Ahead, PiTypeOK
  <1>4. ~Ahead' /\ Game \notin retQueue' /\ retQueue' \subseteq Readers
    BY <1>1 DEF Ahead, PiInv, PiTypeOK
  <1>5. copied' \in 0..MaxChunks /\ chunks' \in 0..MaxChunks /\ copied' + chunks' <= MaxChunks
    BY <1>2, <1>3
  <1>6. CASE chunks > 1
    <2>1. osPiStartDma(Game, copied + 2) /\ gamePc' = "copy" /\ copied + 2 \in 1..MaxChunks
      BY <1>2, <1>3, <1>6 DEF NextChunk
    <2>2. /\ Apart' /\ Asking'
          /\ cmdQueue' \in Seq(Readers) /\ Len(cmdQueue') <= CmdSlots
          /\ posted' \in [Readers -> 0..MaxChunks] /\ posted'[Game] = copied + 2
          /\ \A s \in Readers : s # Game => posted'[s] = posted[s]
      BY <1>1, <2>1, PostedApart
    <2>3. PiTypeOK'
      BY <1>2, <1>4, <1>5, <2>1, <2>2 DEF PiInv, PiTypeOK
    <2>4. Token'
      BY <1>2, <2>1 DEF PiInv, Token
    <2>5. Manager'
      BY <1>1, <1>2, <2>2 DEF PiInv, Manager, PiTypeOK
    <2>6. Copy'
      BY <1>2, <1>3, <1>4, <1>5, <1>6, <2>1, <2>2 DEF Copy
    <2> QED BY <2>2, <2>3, <2>4, <2>5, <2>6 DEF PiInv
  <1>7. CASE ~(chunks > 1)
    <2>1. gamePc' = "idle" /\ UNCHANGED <<cmdQueue, posted>>
      BY <1>7 DEF NextChunk
    <2>2. PiTypeOK'
      BY <1>2, <1>4, <1>5, <2>1 DEF PiInv, PiTypeOK
    <2>3. Apart' /\ Asking' /\ Token' /\ Manager'
      BY <1>1, <1>2, <2>1 DEF PiInv, Apart, Asking, Token, Manager
    <2>4. Copy'
      BY <1>1, <1>2, <1>3, <1>4, <2>1 DEF Copy
    <2> QED BY <2>2, <2>3, <2>4 DEF PiInv
  <1> QED BY <1>6, <1>7

\* Raw accesses take the token and give it back.
LEMMA RawKeepsPiInv ==
  ASSUME PiInv, GetAccess \/ RelAccess
  PROVE  PiInv'
  <1>1. UNCHANGED <<cmdQueue, evtQueue, retQueue, mgrPc, mb, bus, posted, arrived, chunks, copied>>
    BY DEF GetAccess, RelAccess
  <1>2. gamePc # "copy" /\ gamePc' \in {"raw", "idle"} /\ acsQueue' \in BOOLEAN
    BY DEF GetAccess, RelAccess
  <1>3. PiTypeOK'
    BY <1>1, <1>2 DEF PiInv, PiTypeOK
  <1>4. Apart' /\ Asking' /\ Manager'
    BY <1>1 DEF PiInv, Apart, Asking, Manager
  <1>5. Token'
    BY <1>1 DEF PiInv, Token, GetAccess, RelAccess
  <1>6. Copy'
    BY <1>1, <1>2 DEF PiInv, Copy
  <1> QED BY <1>3, <1>4, <1>5, <1>6 DEF PiInv

LEMMA MgrRecvKeepsPiInv ==
  ASSUME PiInv, MgrRecv
  PROVE  PiInv'
  <1>1. /\ cmdQueue \in Seq(Readers) /\ Len(cmdQueue) >= 1 /\ Len(cmdQueue) <= CmdSlots
        /\ CmdSlots \in Nat
    BY PiAssumption DEF PiInv, PiTypeOK, MgrRecv
  <1>2. /\ mb' = cmdQueue[1] /\ mb' \in Readers /\ mb' # NoReader
        /\ cmdQueue' \in Seq(Readers) /\ Len(cmdQueue') = Len(cmdQueue) - 1
        /\ \A i \in 1..Len(cmdQueue') : cmdQueue'[i] = cmdQueue[i + 1] /\ i + 1 \in 1..Len(cmdQueue)
    BY <1>1, PiAssumption DEF MgrRecv, Readers
  <1>3. /\ UNCHANGED <<evtQueue, acsQueue, retQueue, bus, posted, arrived, chunks, gamePc, copied>>
        /\ mgrPc = "command" /\ mgrPc' = "access"
    BY DEF MgrRecv
  <1>4. PiTypeOK'
    BY <1>1, <1>2, <1>3 DEF PiInv, PiTypeOK
  <1>5. Apart'
    <2>1. \A i, j \in 1..Len(cmdQueue') : cmdQueue'[i] = cmdQueue'[j] => i = j
      BY <1>1, <1>2 DEF PiInv, Apart
    <2>2. \A i \in 1..Len(cmdQueue') : cmdQueue'[i] # mb' /\ cmdQueue'[i] \notin retQueue'
      BY <1>1, <1>2, <1>3 DEF PiInv, Apart
    <2>3. mb' \notin retQueue'
      BY <1>1, <1>2, <1>3 DEF PiInv, Apart
    <2> QED BY <2>1, <2>2, <2>3 DEF Apart
  <1>6. Asking'
    BY <1>1, <1>2, <1>3 DEF PiInv, Asking
  <1>7. Token' /\ Manager'
    BY <1>2, <1>3 DEF PiInv, Token, Manager
  <1>8. Copy'
    BY <1>1, <1>2, <1>3 DEF PiInv, Copy, Ahead, Manager
  <1> QED BY <1>4, <1>5, <1>6, <1>7, <1>8 DEF PiInv

\* The manager takes the token and starts the transfer.
LEMMA MgrStartKeepsPiInv ==
  ASSUME PiInv, MgrStart
  PROVE  PiInv'
  <1>1. /\ UNCHANGED <<cmdQueue, evtQueue, retQueue, mb, posted, arrived, chunks, gamePc, copied>>
        /\ mgrPc = "access" /\ mgrPc' = "event" /\ acsQueue /\ acsQueue' = FALSE
        /\ bus' = <<mb, posted[mb]>>
    BY DEF MgrStart
  <1>2. mb \in Readers /\ posted[mb] \in 1..MaxChunks /\ ~evtQueue
    BY <1>1 DEF PiInv, PiTypeOK, Manager, Asking
  <1>3. PiTypeOK'
    BY <1>1, <1>2 DEF PiInv, PiTypeOK
  <1>4. Apart' /\ Asking' /\ Token' /\ Manager'
    BY <1>1, <1>2 DEF PiInv, Apart, Asking, Token, Manager
  <1>5. Copy'
    BY <1>1 DEF PiInv, Copy, Ahead
  <1> QED BY <1>3, <1>4, <1>5 DEF PiInv

\* The manager answers: what was ahead of the copy stays so.
LEMMA MgrReplyKeepsPiInv ==
  ASSUME PiInv, MgrReply
  PROVE  PiInv'
  <1>1. /\ UNCHANGED <<cmdQueue, bus, posted, arrived, chunks, gamePc, copied>>
        /\ mgrPc = "event" /\ mgrPc' = "command" /\ evtQueue
        /\ evtQueue' = FALSE /\ acsQueue' = TRUE /\ mb' = NoReader /\ retQueue' = retQueue \cup {mb}
    BY DEF MgrReply
  <1>2. mb \in Readers /\ bus = Idle
    BY <1>1 DEF PiInv, PiTypeOK, Manager
  <1>3. /\ \A i \in 1..Len(cmdQueue) : cmdQueue[i] \in Readers
        /\ NoReader \notin Readers
    BY PiAssumption DEF PiInv, PiTypeOK, Readers
  <1>4. PiTypeOK'
    BY <1>1, <1>2 DEF PiInv, PiTypeOK
  <1>5. Apart'
    BY <1>1, <1>2, <1>3 DEF PiInv, Apart, PiTypeOK
  <1>6. Asking' /\ Token' /\ Manager'
    BY <1>1, <1>2 DEF PiInv, Asking, Token, Manager
  <1>7. Copy'
    BY <1>1, <1>2, <1>3 DEF PiInv, Copy, Ahead, Readers
  <1> QED BY <1>4, <1>5, <1>6, <1>7 DEF PiInv

\* A chunk arrives: of the game's, the one it waits for.
LEMMA DmaDoneKeepsPiInv ==
  ASSUME PiInv, DmaDone
  PROVE  PiInv'
  <1>1. /\ UNCHANGED <<cmdQueue, acsQueue, retQueue, mgrPc, mb, posted, chunks, gamePc, copied>>
        /\ bus # Idle /\ bus' = Idle /\ evtQueue'
        /\ arrived' = IF bus[1] = Game THEN arrived \cup {bus[2]} ELSE arrived
    BY DEF DmaDone
  <1>2. mgrPc = "event" /\ ~evtQueue /\ bus = <<mb, posted[mb]>>
    BY <1>1 DEF PiInv, Manager, PiTypeOK
  <1>3. mb \in Readers /\ posted[mb] \in 1..MaxChunks /\ MaxChunks \in Nat
    BY <1>2, PiAssumption DEF PiInv, Manager, Asking, PiTypeOK
  <1>4. arrived' = IF mb = Game THEN arrived \cup {posted[Game]} ELSE arrived
    BY <1>1, <1>2
  <1>5. PiTypeOK'
    BY <1>1, <1>3, <1>4 DEF PiInv, PiTypeOK
  <1>6. Apart' /\ Asking' /\ Token' /\ Manager'
    BY <1>1, <1>2 DEF PiInv, Apart, Asking, Token, Manager
  <1>7. CASE mb = Game
    <2>1. gamePc = "copy" /\ posted[Game] = copied + 1 /\ copied \in Nat
      BY <1>7 DEF PiInv, Copy, PiTypeOK
    <2>2. ~Ahead /\ Ahead'
      BY <1>1, <1>2, <1>7 DEF Ahead, PiInv, Apart
    <2>3. arrived' = 1..(copied + 1)
      BY <1>4, <1>7, <2>1, <2>2 DEF PiInv, Copy
    <2> QED BY <1>1, <1>5, <1>6, <2>1, <2>2, <2>3 DEF PiInv, Copy
  <1>8. CASE mb # Game
    <2>1. Ahead' <=> Ahead
      BY <1>1, <1>8 DEF Ahead
    <2>2. Copy'
      BY <1>1, <1>4, <1>8, <2>1 DEF PiInv, Copy
    <2> QED BY <1>5, <1>6, <2>2 DEF PiInv
  <1> QED BY <1>7, <1>8

LEMMA NextPiInv == PiInv /\ [PiNext]_piVars => PiInv'
  <1> SUFFICES ASSUME PiInv, [PiNext]_piVars PROVE PiInv'
    OBVIOUS
  <1>1. CASE UNCHANGED piVars
    <2>1. PiTypeOK' /\ Apart' /\ Asking'
      BY <1>1 DEF piVars, PiInv, PiTypeOK, Apart, Asking
    <2>2. Token' /\ Manager' /\ Copy'
      BY <1>1 DEF piVars, PiInv, Token, Manager, Copy, Ahead
    <2> QED BY <2>1, <2>2 DEF PiInv
  <1> QED BY <1>1, PostKeepsPiInv, TakeKeepsPiInv, RomCopyKeepsPiInv, NextChunkKeepsPiInv,
             RawKeepsPiInv, MgrRecvKeepsPiInv, MgrStartKeepsPiInv, MgrReplyKeepsPiInv,
             DmaDoneKeepsPiInv DEF PiNext

LEMMA PiInvIsWhole == PiInv => CopyIsWhole
  <1> SUFFICES ASSUME PiInv PROVE CopyIsWhole
    OBVIOUS
  <1>1. copied \in Nat
    BY DEF PiInv, PiTypeOK
  <1>2. gamePc = "copy" => 1..copied \subseteq arrived /\ arrived \subseteq 1..(copied + 1)
    BY <1>1 DEF PiInv, Copy
  <1>3. bus # Idle => gamePc # "raw" /\ ~acsQueue
    BY DEF PiInv, Manager, Token, PiTypeOK
  <1>4. gamePc # "copy" => 1..copied \subseteq arrived
    BY DEF PiInv, Copy
  <1> QED BY <1>2, <1>3, <1>4 DEF CopyIsWhole

-----------------------------------------------------------------------------
\* Every variable of the cartridge interface keeps its type, whatever the number
\* of readers and the length of the copy.
THEOREM PiTypes == PiSpec => []PiTypeOK
  <1>1. PiInv => PiTypeOK
    BY DEF PiInv
  <1> QED BY InitPiInv, NextPiInv, <1>1, PTL DEF PiSpec

\* pi.c:141 and devmgr.c:85: a copy of any number of chunks, beside any number of
\* other readers and raw accesses, has received only what has arrived, and all of
\* it when it ends; and the bus never has two users.
THEOREM CopiesAreWhole == PiSpec => []CopyIsWhole
  BY InitPiInv, NextPiInv, PiInvIsWhole, PTL DEF PiSpec

-----------------------------------------------------------------------------
(* The VI manager. ------------------------------------------------------- *)

ViSpec == ViInit /\ [][ViNext]_viVars

ViInv == ViTypeOK /\ ContextsAgree

-----------------------------------------------------------------------------
(* The contexts as the program and the retrace change them.                *)

\* A context that is changed by a call stays one.
LEMMA ChangedContext ==
  ASSUME NEW c \in Contexts
  PROVE  /\ \A f \in Buffers : [c EXCEPT !.framep = f] \in Contexts
         /\ \A m \in Modes : [c EXCEPT !.modep = m, !.black = FALSE] \in Contexts
         /\ \A b \in BOOLEAN : [c EXCEPT !.black = b] \in Contexts
         /\ \A q \in Clients, n \in 1..MaxRetraces :
              [c EXCEPT !.msgq = q, !.retraceCount = n] \in Contexts
  BY DEF Contexts

\* A call changes the next context and what was asked for alike.
LEMMA CallKeepsViInv ==
  ASSUME ViInv, NEW c \in Contexts,
         vi' = [vi EXCEPT ![next] = c], wanted' = c,
         UNCHANGED <<next, registers, viEvents, retrace, misled>>
  PROVE  ViInv'
  <1>1. next \in {1, 2} /\ 3 - next \in {1, 2} /\ 3 - next # next /\ vi \in [{1, 2} -> Contexts]
    BY DEF ViInv, ViTypeOK
  <1>2. vi' \in [{1, 2} -> Contexts] /\ vi'[next] = c /\ vi'[3 - next] = vi[3 - next]
    BY <1>1
  <1>3. ViTypeOK'
    BY <1>2 DEF ViInv, ViTypeOK
  <1>4. ContextsAgree'
    BY <1>1, <1>2 DEF ViInv, ContextsAgree, __osViNext, __osViCurr
  <1> QED BY <1>3, <1>4 DEF ViInv

\* The manager's exchange: what is shown is copied into the new next context.
LEMMA SwapAgrees ==
  ASSUME ViInv, __osViSwapContext
  PROVE  /\ vi' \in [{1, 2} -> Contexts] /\ next' \in {1, 2} /\ registers' \in Contexts
         /\ __osViNext' = __osViNext /\ __osViCurr' = registers'
  <1>1. next \in {1, 2} /\ next' = 3 - next /\ next' \in {1, 2} /\ next' # next /\ 3 - next' = next
    BY DEF ViInv, ViTypeOK, __osViSwapContext
  <1>2. vi \in [{1, 2} -> Contexts]
    BY DEF ViInv, ViTypeOK
  <1>3. vi' = [vi EXCEPT ![next'] = vi[next]] /\ registers' = vi[next]
    BY DEF __osViSwapContext, __osViNext
  <1>4. vi' \in [{1, 2} -> Contexts] /\ vi'[next'] = vi[next] /\ vi'[next] = vi[next]
    BY <1>1, <1>2, <1>3
  <1> QED BY <1>1, <1>2, <1>3, <1>4 DEF __osViNext, __osViCurr

-----------------------------------------------------------------------------
(* The inductive invariant.                                                *)

LEMMA InitViInv == ViInit => ViInv
  <1> SUFFICES ASSUME ViInit PROVE ViInv
    OBVIOUS
  <1> DEFINE first(m) == [framep |-> NoBuffer, modep |-> m, black |-> TRUE,
                          msgq |-> NoClient, retraceCount |-> 1]
  <1>1. PICK m \in Modes :
          /\ vi = [i \in {1, 2} |-> first(m)] /\ next = 1
          /\ registers = first(m) /\ wanted = first(m)
          /\ viEvents = 0 /\ retrace = 1 /\ misled = FALSE
    BY DEF ViInit
  <1>2. first(m) \in Contexts
    BY ViAssumption DEF Contexts
  <1>3. 0 \in 0..MaxPending /\ 1 \in 1..MaxRetraces
    BY ViAssumption
  <1> HIDE DEF first
  <1>4. ViTypeOK
    BY <1>1, <1>2, <1>3 DEF ViTypeOK
  <1>5. ContextsAgree
    BY <1>1 DEF ContextsAgree, __osViNext, __osViCurr
  <1> QED BY <1>4, <1>5 DEF ViInv

LEMMA NextViInv == ViInv /\ [ViNext]_viVars => ViInv'
  <1> SUFFICES ASSUME ViInv, [ViNext]_viVars PROVE ViInv'
    OBVIOUS
  <1>0. /\ __osViNext \in Contexts /\ wanted = __osViNext /\ next \in {1, 2}
        /\ viEvents \in 0..MaxPending /\ retrace \in 1..MaxRetraces
    BY DEF ViInv, ViTypeOK, ContextsAgree, __osViNext
  <1>1. ASSUME NEW f \in Buffers, osViSwapBuffer(f) PROVE ViInv'
    BY <1>0, <1>1, ChangedContext, CallKeepsViInv DEF osViSwapBuffer, Change
  <1>2. ASSUME NEW m \in Modes, osViSetMode(m) PROVE ViInv'
    BY <1>0, <1>2, ChangedContext, CallKeepsViInv DEF osViSetMode, Change
  <1>3. ASSUME NEW b \in BOOLEAN, osViBlack(b) PROVE ViInv'
    BY <1>0, <1>3, ChangedContext, CallKeepsViInv DEF osViBlack, Change
  <1>4. ASSUME NEW q \in Clients, NEW n \in 1..MaxRetraces, osViSetEvent(q, n) PROVE ViInv'
    BY <1>0, <1>4, ChangedContext, CallKeepsViInv DEF osViSetEvent, Change
  <1>5. CASE Interrupt
    <2>1. viEvents' \in 0..MaxPending
      BY <1>0, <1>5, ViAssumption DEF Interrupt
    <2> QED BY <1>5, <2>1 DEF Interrupt, ViInv, ViTypeOK, ContextsAgree, __osViNext, __osViCurr
  <1>6. CASE viMgrMain
    <2>1. /\ __osViSwapContext /\ wanted' = wanted
          /\ viEvents > 0 /\ viEvents' = viEvents - 1
      BY <1>6 DEF viMgrMain
    <2>2. /\ vi' \in [{1, 2} -> Contexts] /\ next' \in {1, 2} /\ registers' \in Contexts
          /\ __osViNext' = __osViNext /\ __osViCurr' = registers'
      BY <2>1, SwapAgrees
    <2>3. retrace' \in 1..MaxRetraces
      BY <1>0, <1>6, ViAssumption DEF viMgrMain, Contexts
    <2>4. misled' = misled
      BY <1>0, <1>6 DEF viMgrMain, ViInv, ViTypeOK
    <2>5. viEvents' \in 0..MaxPending
      BY <1>0, <2>1, ViAssumption
    <2>6. ViTypeOK'
      BY <2>1, <2>2, <2>3, <2>4, <2>5 DEF ViInv, ViTypeOK
    <2>7. ContextsAgree'
      BY <2>1, <2>2, <2>4 DEF ViInv, ContextsAgree
    <2> QED BY <2>6, <2>7 DEF ViInv
  <1>7. CASE UNCHANGED viVars
    BY <1>7 DEF viVars, ViInv, ViTypeOK, ContextsAgree, __osViNext, __osViCurr
  <1> QED BY <1>1, <1>2, <1>3, <1>4, <1>5, <1>6, <1>7 DEF ViNext

-----------------------------------------------------------------------------
\* Every variable of the VI manager keeps its type: the count down to the next
\* message, above all, never leaves what clients ask for.
THEOREM ViTypes == ViSpec => []ViTypeOK
  <1>1. ViInv => ViTypeOK
    BY DEF ViInv
  <1> QED BY InitViInv, NextViInv, <1>1, PTL DEF ViSpec

\* viswapcontext.c:72: for any buffers, modes, clients and number of retraces,
\* the next context is always what the program asked for last, the current one
\* what is shown, and a retrace is told to the client of the last event set.
THEOREM ContextsAlwaysAgree == ViSpec => []ContextsAgree
  <1>1. ViInv => ContextsAgree
    BY DEF ViInv
  <1> QED BY InitViInv, NextViInv, <1>1, PTL DEF ViSpec
=============================================================================
