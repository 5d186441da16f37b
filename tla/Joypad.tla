------------------------------- MODULE Joypad -------------------------------
(***************************************************************************)
(* The serial interface as the game's thread uses it: joyRead and the pack *)
(* functions of saves.c over contreaddata.c, contramread.c, contramwrite.c *)
(* and pfsisplug.c.  Every transfer announces its end in one queue of one  *)
(* message.  An exchange writes a command to the PIF and reads its answer, *)
(* waiting for the queue after each; the read of the pads is started and   *)
(* left under way until a later frame takes its message.  A transfer that  *)
(* is started while another is under way is refused, which nobody looks    *)
(* at.  Between a message taken and the transfer that follows it the       *)
(* interrupts are on: a transfer that was overtaken may end there.         *)
(*                                                                         *)
(* The access queue is left out: one thread uses the interface.  Data is   *)
(* abstracted to the command it is the answer to.                          *)
(***************************************************************************)
EXTENDS Naturals, Sequences

CONSTANTS
  MaxExchanges,   \* exchanges of one visit to a pak (bound)
  MaxVisits,      \* visits between two frames that take a message (bound)
  MaxTries        \* __osContRamWrite and __osContRamRead try 4 times

ASSUME JoyAssumption == {MaxExchanges, MaxVisits, MaxTries} \subseteq Nat \ {0}

Commands == {"pads", "pak", "status"}

NoDma == [dir |-> "none", ram |-> "none", cmd |-> "none"]

VARIABLES
  siDma,           \* the transfer under way
  pif,             \* the command the PIF holds
  joyMessages,     \* messages in joyMessageQueue
  contRam,         \* what __osContPifRam holds the answer to
  pfsRam,          \* what __osPfsPifRam holds the answer to
  lastCmd,         \* __osContLastCmd
  joyPc,           \* where the game's thread is
  exchanges,       \* commands still to be exchanged
  tries,           \* retries of the exchange under way
  thenPak,         \* packOpen has tried the motor only
  curr,            \* what sControllerCurrData was taken from
  visits,          \* pack functions called since
  slipped          \* history: a transfer ended between a message and the next start

joyVars == <<siDma, pif, joyMessages, contRam, pfsRam, lastCmd, joyPc, exchanges,
             tries, thenPak, curr, visits, slipped>>

-----------------------------------------------------------------------------
(* The interface.                                                          *)

Transfer(dir, ram, cmd) == [dir |-> dir, ram |-> ram, cmd |-> cmd]

__osSiRawStartDma(dma) == siDma' = IF siDma = NoDma THEN dma ELSE siDma

\* Takes the message of a transfer that has ended.
Wait == joyMessages = 1 /\ joyMessages' = 0

\* The thread has taken a message and not yet started the transfer it is for.
InGap == joyPc \in {"heard", "startHeard"}

\* The queue holds one message: that of a second transfer would be lost.
SiDone ==
  /\ siDma # NoDma
  /\ siDma' = NoDma
  /\ joyMessages' = 1
  /\ pif' = IF siDma.dir = "write" THEN siDma.cmd ELSE pif
  /\ contRam' = IF siDma.dir = "read" /\ siDma.ram = "cont" THEN pif ELSE contRam
  /\ pfsRam' = IF siDma.dir = "read" /\ siDma.ram = "pfs" THEN pif ELSE pfsRam
  /\ slipped' = (slipped \/ InGap)
  /\ UNCHANGED <<lastCmd, joyPc, exchanges, tries, thenPak, curr, visits>>

-----------------------------------------------------------------------------
(* joyRead and packOpen.                                                   *)

\* The commands of a visit: osMotorInit asks the pak first, a pack function
\* may begin with either.
PackVisits == UNION {[1..n -> {"pak", "status"}] : n \in 0..MaxExchanges}
MotorVisits == {s \in PackVisits : s # <<>> /\ Head(s) = "pak"}

\* rumbleTick first asks which paks are there, or goes on with a known one.
RumbleVisits == {<<>>, <<"status">>, <<"status", "pak">>, <<"pak">>}

NextPc(s) == IF s = <<>> THEN IF thenPak THEN "drain" ELSE "start" ELSE "send"

\* Mutant: the read of the pads is started again by rumbleTick's visits only.
JoyReadOnce ==
  /\ joyPc = "frame"
  /\ \/ /\ Wait
        /\ curr' = contRam /\ visits' = 0
        /\ exchanges' \in RumbleVisits
        /\ joyPc' = IF exchanges' = <<>> THEN "frame" ELSE "send"
     \/ joyMessages = 0 /\ UNCHANGED <<joyMessages, curr, visits, exchanges, joyPc>>
  /\ UNCHANGED <<siDma, pif, contRam, pfsRam, lastCmd, tries, thenPak, slipped>>

\* Without a message the frame goes on with what it has.
joyRead ==
  /\ joyPc = "frame"
  /\ \/ /\ Wait
        /\ curr' = contRam /\ visits' = 0
        /\ exchanges' \in RumbleVisits
        /\ joyPc' = NextPc(exchanges')
     \/ joyMessages = 0 /\ UNCHANGED <<joyMessages, curr, visits, exchanges, joyPc>>
  /\ UNCHANGED <<siDma, pif, contRam, pfsRam, lastCmd, tries, thenPak, slipped>>

\* With no message there the motor is tried at once, a read of the pads under
\* way or not; otherwise the message is thrown away.
packOpen ==
  /\ joyPc = "frame" /\ visits < MaxVisits /\ visits' = visits + 1
  /\ thenPak' = (joyMessages = 0)
  /\ exchanges' \in IF thenPak' THEN MotorVisits ELSE PackVisits
  /\ joyPc' = IF exchanges' = <<>> THEN "start" ELSE "send"
  /\ joyMessages' = 0
  /\ UNCHANGED <<siDma, pif, contRam, pfsRam, lastCmd, tries, curr, slipped>>

\* No motor there: on to the pak.
Drain ==
  /\ joyPc = "drain"
  /\ thenPak' = FALSE /\ joyMessages' = 0
  /\ exchanges' \in PackVisits
  /\ joyPc' = IF exchanges' = <<>> THEN "start" ELSE "send"
  /\ UNCHANGED <<siDma, pif, contRam, pfsRam, lastCmd, tries, curr, visits, slipped>>

-----------------------------------------------------------------------------
(* One exchange: __osContRamRead, __osContRamWrite, __osMotorAccess,       *)
(* osPfsIsPlug and __osPfsGetStatus.                                       *)

Send ==
  /\ joyPc = "send"
  /\ lastCmd' = Head(exchanges)
  /\ pfsRam' = "none"
  /\ __osSiRawStartDma(Transfer("write", "pfs", Head(exchanges)))
  /\ joyPc' = "sent"
  /\ UNCHANGED <<pif, joyMessages, contRam, exchanges, tries, thenPak, curr, visits, slipped>>

Sent ==
  /\ joyPc = "sent" /\ Wait
  /\ joyPc' = "heard"
  /\ UNCHANGED <<siDma, pif, contRam, pfsRam, lastCmd, exchanges, tries, thenPak, curr, visits, slipped>>

Ask ==
  /\ joyPc = "heard"
  /\ __osSiRawStartDma(Transfer("read", "pfs", Head(exchanges)))
  /\ joyPc' = "asked"
  /\ UNCHANGED <<pif, joyMessages, contRam, pfsRam, lastCmd, exchanges, tries, thenPak, curr, visits, slipped>>

\* The answer to another command fails the check of its data: the status is
\* asked for and the exchange tried again.  A failed visit stops early.
Answer ==
  /\ joyPc = "asked" /\ Wait
  /\ IF Head(exchanges) = "pak" /\ pfsRam # "pak" /\ tries < MaxTries - 1
     THEN /\ exchanges' = <<"status">> \o exchanges
          /\ tries' = tries + 1
     ELSE /\ exchanges' \in {Tail(exchanges), <<>>}
          /\ tries' = IF Head(exchanges) = "pak" THEN 0 ELSE tries
  /\ joyPc' = NextPc(exchanges')
  /\ UNCHANGED <<siDma, pif, contRam, pfsRam, lastCmd, thenPak, curr, visits, slipped>>

-----------------------------------------------------------------------------
(* osContStartReadData: the end of joyRead, and packClose.                 *)

\* Mutant: the format is not sent again after other commands.
StartWithoutFormat ==
  /\ joyPc = "start"
  /\ __osSiRawStartDma(Transfer("read", "cont", "pads"))
  /\ lastCmd' = "pads" /\ contRam' = "none" /\ joyPc' = "frame" /\ tries' = 0
  /\ UNCHANGED <<pif, joyMessages, pfsRam, exchanges, thenPak, curr, visits, slipped>>

osContStartReadData ==
  /\ joyPc = "start"
  /\ tries' = 0
  /\ IF lastCmd # "pads"
     THEN /\ __osSiRawStartDma(Transfer("write", "cont", "pads"))
          /\ contRam' = "none" /\ joyPc' = "startSent"
     ELSE joyPc' = "startHeard" /\ UNCHANGED <<siDma, contRam>>
  /\ UNCHANGED <<pif, joyMessages, pfsRam, lastCmd, exchanges, thenPak, curr, visits, slipped>>

StartSent ==
  /\ joyPc = "startSent" /\ Wait
  /\ joyPc' = "startHeard"
  /\ UNCHANGED <<siDma, pif, contRam, pfsRam, lastCmd, exchanges, tries, thenPak, curr, visits, slipped>>

StartRead ==
  /\ joyPc = "startHeard"
  /\ __osSiRawStartDma(Transfer("read", "cont", "pads"))
  /\ contRam' = "none" /\ joyPc' = "frame" /\ lastCmd' = "pads"
  /\ UNCHANGED <<pif, joyMessages, pfsRam, exchanges, tries, thenPak, curr, visits, slipped>>

-----------------------------------------------------------------------------
\* After joyInit: the pads were asked for and their read is under way.
JoyInit ==
  /\ siDma = Transfer("read", "cont", "pads") /\ pif = "pads"
  /\ joyMessages = 0 /\ contRam = "none" /\ pfsRam = "none" /\ lastCmd = "pads"
  /\ joyPc = "frame" /\ exchanges = <<>> /\ tries = 0 /\ thenPak = FALSE
  /\ curr = "boot" /\ visits = 0 /\ slipped = FALSE

Frame == joyRead \/ packOpen
Go == Drain \/ Send \/ Sent \/ Ask \/ Answer \/ osContStartReadData \/ StartSent \/ StartRead

JoyNext == SiDone \/ Frame \/ Go

-----------------------------------------------------------------------------
JoyTypeOK ==
  /\ siDma \in [dir : {"none", "read", "write"}, ram : {"none", "cont", "pfs"},
                cmd : Commands \cup {"none"}]
  /\ {pif, lastCmd} \subseteq Commands
  /\ {contRam, pfsRam} \subseteq Commands \cup {"none"}
  /\ curr \in Commands \cup {"none", "boot"} /\ visits \in 0..MaxVisits
  /\ joyMessages \in 0..1 /\ tries \in 0..(MaxTries - 1)
  /\ joyPc \in {"frame", "send", "sent", "heard", "asked", "drain", "start", "startSent", "startHeard"}
  /\ exchanges \in Seq({"pak", "status"})
  /\ {thenPak, slipped} \subseteq BOOLEAN

\* controller.c:71 and saves.c:361: joyRead takes the answer of the pads, and an
\* exchange that checks nothing takes its own, though packOpen throws messages
\* away, starts transfers while one is under way, or meets the end of one
\* between its look at the queue and its first transfer.  This holds until a
\* transfer that was overtaken ends between a message taken and the start that
\* follows it: its own message is then taken for the next transfer's end.
AnswersFit ==
  ~slipped =>
    /\ curr \in {"boot", "pads"}
    /\ joyPc = "asked" /\ joyMessages = 1 /\ Head(exchanges) = "status" => pfsRam = "status"

\* controller.c:119 and saves.c:412: after the first, whatever a frame and its
\* visits to the paks do to the queue, another answer of the pads comes, unless
\* a transfer ended in that gap.
PadsKeepComing ==
  (curr = "pads" /\ joyMessages = 0)
    ~> (slipped \/ (joyPc = "frame" /\ joyMessages = 1 /\ contRam = "pads"))
=============================================================================
