------------------------------ MODULE SiProofs ------------------------------
(***************************************************************************)
(* Proofs about the serial interface.                                      *)
(*                                                                         *)
(* The exchanges (Joypad): their types, and that each answer goes to the   *)
(* command it was asked for until an overtaken transfer ends in the gap     *)
(* after a message.  Neither is inductive: what holds them up is where, at *)
(* each point of the game's thread, the transfer under way and the message *)
(* in the queue can be, the overtaken read of the pads included.           *)
(*                                                                         *)
(* The checksums (Crc): the register holds the remainder of what was       *)
(* shifted in, so that the checksum is that of the message, for every      *)
(* address and every block of any size; and a bit that is turned over      *)
(* changes it.                                                             *)
(***************************************************************************)
EXTENDS Joypad, Crc, FiniteSetTheorems, NaturalsInduction, WellFoundedInduction, TLAPS

-----------------------------------------------------------------------------
(* The exchanges.                                                          *)

JoySpec == JoyInit /\ [][JoyNext]_joyVars

PadsRead == Transfer("read", "cont", "pads")
PadsWrite == Transfer("write", "cont", "pads")
PakWrite == Transfer("write", "pfs", "pak")
Command == Head(exchanges)

\* What the program starts: nothing else is ever under way.
Transfers == [dir : {"read", "write"}, ram : {"cont", "pfs"}, cmd : Commands]
DmaInv == siDma = NoDma \/ siDma \in Transfers

\* Nothing is under way and nothing has ended.
Quiet == siDma = NoDma /\ joyMessages = 0

\* Something has ended, and its message was not taken.
Ended == siDma = NoDma /\ joyMessages = 1

\* The read of the pads that a frame leaves under way, or its end.
PadsLate ==
  \/ siDma = PadsRead /\ joyMessages = 0
  \/ Ended

\* A frame waits for the pads only, and their answer is there with the message.
FrameInv ==
  /\ lastCmd = "pads"
  /\ \/ siDma = PadsRead /\ joyMessages = 0
     \/ Ended /\ contRam = "pads"

\* An exchange begins with the interface quiet, or it asks the pak and the read
\* of the pads is late.
SendInv ==
  /\ exchanges # <<>>
  /\ Quiet \/ (Command = "pak" /\ PadsLate)

\* The command is on its way or with the PIF; behind a late read of the pads
\* it was refused, or the thread is one message ahead.
SentInv ==
  /\ exchanges # <<>> /\ lastCmd # "pads"
  /\ \/ siDma = Transfer("write", "pfs", Command) /\ joyMessages = 0
     \/ Ended /\ pif = Command
     \/ /\ Command = "pak"
        /\ PadsLate \/ (siDma = PakWrite /\ joyMessages = 1)

\* The message was taken: the PIF has the command, or the thread is ahead of it.
HeardInv ==
  /\ exchanges # <<>> /\ lastCmd # "pads" /\ joyMessages = 0
  /\ \/ siDma = NoDma /\ pif = Command
     \/ Command = "pak" /\ siDma \in {NoDma, PakWrite}

\* The answer is on its way or there; behind a late read of the pads the
\* command still is.
AskedInv ==
  /\ exchanges # <<>> /\ lastCmd # "pads"
  /\ \/ /\ siDma = Transfer("read", "pfs", Command) /\ joyMessages = 0
        /\ Command = "status" => pif = "status"
     \/ Ended /\ (Command = "status" => pfsRam = "status")
     \/ Command = "pak" /\ siDma = PakWrite /\ joyMessages = 0

\* The format of the pads is on its way or with the PIF.
StartSentInv ==
  \/ siDma = PadsWrite /\ joyMessages = 0
  \/ Ended /\ pif = "pads"

\* The PIF has the format of the pads, and nothing is under way.
StartHeardInv == Quiet /\ pif = "pads"

\* The PIF holds the format of the pads whenever the program believes so.
FormatInv == lastCmd = "pads" => pif = "pads" /\ siDma.dir # "write"

PointsInv ==
  /\ joyPc = "frame" => FrameInv
  /\ joyPc = "send" => SendInv
  /\ joyPc = "sent" => SentInv
  /\ joyPc = "heard" => HeardInv
  /\ joyPc = "asked" => AskedInv
  /\ joyPc \in {"drain", "start"} => Quiet
  /\ joyPc = "startSent" => StartSentInv
  /\ joyPc = "startHeard" => StartHeardInv

\* An exchange has a command, in step with the transfers or not.
VisitInv == joyPc \in {"send", "sent", "heard", "asked"} => exchanges # <<>>

\* What holds as long as the thread is in step with the transfers.
InStep == FormatInv /\ PointsInv /\ curr \in {"boot", "pads"}

IInv == JoyTypeOK /\ DmaInv /\ VisitInv /\ (~slipped => InStep)

-----------------------------------------------------------------------------
(* The commands of a visit.                                                *)

Visits == Seq({"pak", "status"})

\* What the pack functions and rumbleTick ask are sequences of commands, those
\* of osMotorInit not empty.
LEMMA VisitsAreSequences ==
  /\ PackVisits \subseteq Visits
  /\ RumbleVisits \subseteq Visits
  /\ \A s \in MotorVisits : s # <<>> /\ Head(s) = "pak"
  BY DEF PackVisits, RumbleVisits, MotorVisits, Visits

\* A visit goes on to its next command and comes back to an earlier one.
LEMMA VisitGoesOn ==
  ASSUME NEW s \in Visits, s # <<>>
  PROVE  /\ Head(s) \in {"pak", "status"}
         /\ Tail(s) \in Visits
         /\ <<"status">> \o s \in Visits
         /\ <<"status">> \o s # <<>>
  BY DEF Visits

\* A transfer is a transfer, and the one under way stays when one is refused.
LEMMA StartedDma ==
  ASSUME NEW dir \in {"read", "write"}, NEW ram \in {"cont", "pfs"}, NEW cmd \in Commands,
         DmaInv, __osSiRawStartDma(Transfer(dir, ram, cmd))
  PROVE  /\ DmaInv'
         /\ siDma = NoDma => siDma' = Transfer(dir, ram, cmd)
         /\ siDma # NoDma => siDma' = siDma
  BY DEF Transfer, NoDma, DmaInv, Transfers, __osSiRawStartDma

\* What may be under way is a transfer of the types.
DmaRecords == [dir : {"none", "read", "write"}, ram : {"none", "cont", "pfs"},
               cmd : Commands \cup {"none"}]

LEMMA DmaTypes == \A d : d = NoDma \/ d \in Transfers => d \in DmaRecords
  BY DEF Transfers, NoDma, DmaRecords

\* The bounds are numbers of things.
LEMMA Bounds ==
  /\ MaxExchanges \in Nat \ {0} /\ MaxVisits \in Nat \ {0} /\ MaxTries \in Nat \ {0}
  /\ 0 \in 0..MaxVisits /\ 0 \in 0..(MaxTries - 1)
  <1>1. /\ MaxExchanges \in Nat \ {0} /\ MaxVisits \in Nat \ {0} /\ MaxTries \in Nat \ {0}
    BY JoyAssumption DEF JoyAssumption
  <1> QED
    BY <1>1

-----------------------------------------------------------------------------
(* The steps.                                                              *)

\* After joyInit the read of the pads is under way.
LEMMA InitIInv == JoyInit => IInv
  <1> SUFFICES ASSUME JoyInit PROVE IInv
    OBVIOUS
  <1>1. DmaInv
    BY DEF JoyInit, DmaInv, Transfers, Transfer, Commands
  <1>2. JoyTypeOK
    <2>2. siDma \in DmaRecords
      BY <1>1, DmaTypes DEF DmaInv
    <2>3. visits \in 0..MaxVisits /\ tries \in 0..(MaxTries - 1)
      BY Bounds DEF JoyInit
    <2>4. exchanges \in Seq({"pak", "status"})
      BY DEF JoyInit
    <2>5. {thenPak, slipped} \subseteq BOOLEAN
      BY DEF JoyInit
    <2>6. {pif, lastCmd} \subseteq Commands /\ {contRam, pfsRam} \subseteq Commands \cup {"none"}
      BY DEF JoyInit, Commands
    <2>7. curr \in Commands \cup {"none", "boot"}
      BY DEF JoyInit, Commands
    <2>8. joyMessages \in 0..1
      BY DEF JoyInit
    <2>9. joyPc \in {"frame", "send"}
      BY DEF JoyInit
    <2> QED
      BY <2>2, <2>3, <2>4, <2>5, <2>6, <2>7, <2>8, <2>9 DEF JoyTypeOK, DmaRecords
  <1>3. FormatInv /\ FrameInv
    BY DEF JoyInit, FormatInv, FrameInv, PadsRead, Transfer
  <1> QED
    BY <1>2, <1>3, <1>1 DEF JoyInit, IInv, InStep, VisitInv, PointsInv

\* A transfer ends: in the gap, the thread falls out of step.
LEMMA SiDoneKeepsIInv ==
  ASSUME IInv, SiDone
  PROVE  IInv'
  <1> USE DEF IInv, SiDone
  <1>1. DmaInv'
    BY DEF DmaInv
  <1>2. JoyTypeOK'
    <2>1. siDma' \in DmaRecords
      BY <1>1, DmaTypes DEF DmaInv
    <2>2. siDma.dir = "write" => siDma.cmd \in Commands
      BY DEF DmaInv, NoDma, Transfers
    <2>3. pif \in Commands /\ pfsRam \in Commands \cup {"none"} /\ contRam \in Commands \cup {"none"}
      BY DEF JoyTypeOK
    <2>4. pif' \in Commands
      BY <2>2, <2>3
    <2>5. contRam' \in Commands \cup {"none"} /\ pfsRam' \in Commands \cup {"none"}
      BY <2>3
    <2>6. thenPak \in BOOLEAN /\ slipped' \in BOOLEAN
      BY Zenon DEF JoyTypeOK
    <2> QED
      BY <2>1, <2>4, <2>5, <2>6 DEF JoyTypeOK, DmaRecords
  <1>3. VisitInv'
    BY DEF VisitInv
  <1>4. ASSUME ~slipped' PROVE InStep'
    <2>0. InStep /\ joyPc \notin {"heard", "startHeard"}
      BY <1>4 DEF InGap
    <2>1. FormatInv'
      BY <2>0 DEF InStep, FormatInv, NoDma
    <2>2. ASSUME joyPc = "frame" PROVE FrameInv'
      BY <2>0, <2>2 DEF InStep, PointsInv, FrameInv, FormatInv, Ended, PadsRead, Transfer, NoDma
    <2>3. ASSUME joyPc = "send" PROVE SendInv'
      BY <2>0, <2>3 DEF InStep, PointsInv, SendInv, Command, Quiet, Ended, PadsLate
    <2>4. ASSUME joyPc = "sent" PROVE SentInv'
      BY <2>0, <2>4
         DEF InStep, PointsInv, SentInv, Command, Ended, PadsLate, PadsRead, PakWrite, Transfer, NoDma
    <2>5. ASSUME joyPc = "asked" PROVE AskedInv'
      BY <2>0, <2>5 DEF InStep, PointsInv, AskedInv, Command, Ended, PakWrite, Transfer, NoDma
    <2>6. ASSUME joyPc = "startSent" PROVE StartSentInv'
      BY <2>0, <2>6 DEF InStep, PointsInv, StartSentInv, Ended, PadsWrite, Transfer, NoDma
    <2> QED
      BY <2>0, <2>1, <2>2, <2>3, <2>4, <2>5, <2>6 DEF InStep, PointsInv, Quiet
  <1> QED
    BY <1>1, <1>2, <1>3, <1>4

\* A frame takes the answer of the pads, which its message stands for.
LEMMA JoyReadKeepsIInv ==
  ASSUME IInv, joyRead
  PROVE  IInv'
  <1> USE DEF IInv, joyRead
  <1>1. exchanges' \in Visits
    BY VisitsAreSequences DEF JoyTypeOK, Visits
  <1>2. DmaInv' /\ VisitInv'
    BY DEF DmaInv, VisitInv, NextPc
  <1>3. JoyTypeOK'
    <2>1. siDma' \in DmaRecords
      BY <1>2, DmaTypes DEF DmaInv
    <2>2. contRam \in Commands \cup {"none"} /\ curr' \in Commands \cup {"none", "boot"}
      BY DEF JoyTypeOK
    <2>3. visits' \in 0..MaxVisits /\ tries' \in 0..(MaxTries - 1)
      BY Bounds DEF JoyTypeOK
    <2>4. joyPc' \in {"frame", "send", "drain", "start"}
      BY DEF NextPc
    <2>5. joyMessages' \in 0..1
      BY DEF Wait
    <2> QED
      BY <1>1, <2>1, <2>2, <2>3, <2>4, <2>5 DEF JoyTypeOK, Visits, DmaRecords
  <1>4. ASSUME ~slipped' PROVE InStep'
    <2>0. InStep /\ FrameInv
      BY <1>4 DEF InStep, PointsInv
    <2>1. FormatInv'
      BY <2>0 DEF InStep, FormatInv
    <2>2. CASE Wait
      <3>1. Quiet' /\ contRam = "pads"
        BY <2>0, <2>2 DEF FrameInv, Ended, Quiet, Wait, NoDma
      <3>2. curr' = "pads" /\ joyPc' = NextPc(exchanges')
        BY <2>2, <3>1 DEF Wait
      <3>3. PointsInv'
        BY <3>1, <3>2 DEF PointsInv, NextPc, SendInv
      <3> QED
        BY <2>1, <3>2, <3>3 DEF InStep
    <2>3. CASE joyMessages = 0
      BY <2>0, <2>1, <2>3 DEF InStep, Wait, PointsInv, FrameInv, Ended, PadsRead, NoDma
    <2> QED
      BY <2>2, <2>3
  <1> QED
    BY <1>2, <1>3, <1>4

\* A pack function throws the message away or finds none.
LEMMA PackOpenKeepsIInv ==
  ASSUME IInv, packOpen
  PROVE  IInv'
  <1> USE DEF IInv, packOpen
  <1>1. exchanges' \in Visits /\ (thenPak' => exchanges' # <<>> /\ Head(exchanges') = "pak")
    BY VisitsAreSequences DEF MotorVisits
  <1>2. DmaInv' /\ VisitInv'
    BY DEF DmaInv, VisitInv
  <1>3. JoyTypeOK'
    <2>1. siDma' \in DmaRecords
      BY <1>2, DmaTypes DEF DmaInv
    <2>2. visits' \in 0..MaxVisits
      BY Bounds DEF JoyTypeOK
    <2>3. thenPak' \in BOOLEAN /\ joyMessages' \in 0..1
      OBVIOUS
    <2>4. joyPc' \in {"send", "start"}
      OBVIOUS
    <2> QED
      BY <1>1, <2>1, <2>2, <2>3, <2>4 DEF JoyTypeOK, Visits, DmaRecords
  <1>4. ASSUME ~slipped' PROVE InStep'
    <2>0. InStep /\ FrameInv
      BY <1>4 DEF InStep, PointsInv
    <2>1. FormatInv' /\ curr' \in {"boot", "pads"}
      BY <2>0 DEF InStep, FormatInv
    <2>2. CASE joyMessages = 0
      <3>1. PadsLate'
        BY <2>0, <2>2 DEF FrameInv, Ended, PadsLate
      <3> QED
        BY <1>1, <2>1, <2>2, <3>1 DEF InStep, PointsInv, SendInv, Command
    <2>3. CASE joyMessages # 0
      <3>1. Quiet'
        BY <2>0, <2>3 DEF FrameInv, Ended, Quiet
      <3> QED
        BY <2>1, <3>1 DEF InStep, PointsInv, SendInv
    <2> QED
      BY <2>2, <2>3
  <1> QED
    BY <1>2, <1>3, <1>4

\* No motor: the pak is tried.
LEMMA DrainKeepsIInv ==
  ASSUME IInv, Drain
  PROVE  IInv'
  <1> USE DEF IInv, Drain
  <1>1. exchanges' \in Visits
    BY VisitsAreSequences
  <1>2. DmaInv' /\ VisitInv'
    BY DEF DmaInv, VisitInv
  <1>3. JoyTypeOK'
    <2>1. siDma' \in DmaRecords
      BY <1>2, DmaTypes DEF DmaInv
    <2>2. thenPak' \in BOOLEAN
      BY Zenon
    <2>3. joyMessages' \in 0..1 /\ joyPc' \in {"send", "start"}
      OBVIOUS
    <2> QED
      BY <1>1, <2>1, <2>2, <2>3 DEF JoyTypeOK, Visits, DmaRecords
  <1>4. ASSUME ~slipped' PROVE InStep'
    <2>1. InStep /\ Quiet'
      BY <1>4 DEF InStep, PointsInv, Quiet
    <2> QED
      BY <2>1 DEF InStep, FormatInv, PointsInv, SendInv
  <1> QED
    BY <1>2, <1>3, <1>4

\* The command is written, or refused behind a late read of the pads.
LEMMA SendKeepsIInv ==
  ASSUME IInv, Send
  PROVE  IInv'
  <1> USE DEF IInv, Send
  <1>1. exchanges # <<>> /\ exchanges \in Visits
    BY DEF VisitInv, JoyTypeOK, Visits
  <1>2. Command \in {"pak", "status"}
    BY <1>1, VisitGoesOn DEF Command
  <1> DEFINE D == Transfer("write", "pfs", Command)
  <1>3. /\ DmaInv'
        /\ siDma = NoDma => siDma' = D
        /\ siDma # NoDma => siDma' = siDma
    BY <1>2, StartedDma DEF Command, Commands
  <1>4. JoyTypeOK'
    <2>1. siDma' \in DmaRecords
      BY <1>3, DmaTypes DEF DmaInv
    <2>2. lastCmd' \in Commands /\ pfsRam' \in Commands \cup {"none"}
      BY <1>2 DEF Command, Commands
    <2> QED
      BY <2>1, <2>2 DEF JoyTypeOK, DmaRecords
  <1>5. VisitInv'
    BY <1>1 DEF VisitInv
  <1>6. ASSUME ~slipped' PROVE InStep'
    <2>0. InStep /\ SendInv
      BY <1>6 DEF InStep, PointsInv
    <2>1. Command' = Command /\ lastCmd' # "pads" /\ joyMessages' = joyMessages
      BY <1>2 DEF Command
    <2>2. SentInv'
      <3>1. CASE Quiet
        BY <1>1, <1>3, <2>1, <3>1 DEF Quiet, SentInv
      <3>2. CASE Command = "pak" /\ PadsLate
        BY <1>1, <1>3, <2>1, <3>2 DEF PadsLate, PadsRead, Ended, PakWrite, SentInv, Transfer, NoDma
      <3> QED
        BY <2>0, <3>1, <3>2 DEF SendInv
    <2> QED
      BY <2>0, <2>1, <2>2 DEF InStep, PointsInv, FormatInv
  <1> QED
    BY <1>3, <1>4, <1>5, <1>6

\* The message of the command is taken, or that of the late read of the pads.
LEMMA SentKeepsIInv ==
  ASSUME IInv, Sent
  PROVE  IInv'
  <1> USE DEF IInv, Sent
  <1>1. DmaInv' /\ VisitInv'
    BY DEF DmaInv, VisitInv
  <1>2. JoyTypeOK'
    BY DEF JoyTypeOK, Wait
  <1>3. ASSUME ~slipped' PROVE InStep'
    <2>1. InStep /\ SentInv
      BY <1>3 DEF InStep, PointsInv
    <2>2. HeardInv'
      BY <2>1 DEF SentInv, HeardInv, Wait, Ended, PadsLate, Command
    <2> QED
      BY <2>1, <2>2 DEF InStep, PointsInv, FormatInv
  <1> QED
    BY <1>1, <1>2, <1>3

\* The answer is asked for, or the thread is a message ahead of the command.
LEMMA AskKeepsIInv ==
  ASSUME IInv, Ask
  PROVE  IInv'
  <1> USE DEF IInv, Ask
  <1>1. exchanges # <<>> /\ exchanges \in Visits
    BY DEF VisitInv, JoyTypeOK, Visits
  <1>2. Command \in {"pak", "status"}
    BY <1>1, VisitGoesOn DEF Command
  <1> DEFINE D == Transfer("read", "pfs", Command)
  <1>3. /\ DmaInv'
        /\ siDma = NoDma => siDma' = D
        /\ siDma # NoDma => siDma' = siDma
    BY <1>2, StartedDma DEF Command, Commands
  <1>4. JoyTypeOK'
    <2>1. siDma' \in DmaRecords
      BY <1>3, DmaTypes DEF DmaInv
    <2> QED
      BY <2>1 DEF JoyTypeOK, DmaRecords
  <1>5. VisitInv'
    BY <1>1 DEF VisitInv
  <1>6. ASSUME ~slipped' PROVE InStep'
    <2>0. InStep /\ HeardInv
      BY <1>6 DEF InStep, PointsInv
    <2>1. Command' = Command /\ lastCmd' # "pads" /\ joyMessages' = 0
      BY <2>0 DEF Command, HeardInv
    <2>2. AskedInv'
      <3>1. CASE siDma = NoDma /\ pif = Command
        BY <1>1, <1>3, <2>1, <3>1 DEF AskedInv
      <3>2. CASE Command = "pak" /\ siDma = NoDma
        BY <1>1, <1>3, <2>1, <3>2 DEF AskedInv
      <3>3. CASE Command = "pak" /\ siDma = PakWrite
        BY <1>1, <1>3, <2>1, <3>3 DEF PakWrite, AskedInv, Transfer, NoDma
      <3> QED
        BY <2>0, <3>1, <3>2, <3>3 DEF HeardInv
    <2> QED
      BY <2>0, <2>1, <2>2 DEF InStep, PointsInv, FormatInv
  <1> QED
    BY <1>3, <1>4, <1>5, <1>6

\* The answer is taken: nothing is under way any more.
LEMMA AnswerKeepsIInv ==
  ASSUME IInv, Answer
  PROVE  IInv'
  <1> USE DEF IInv, Answer
  <1>1. exchanges # <<>> /\ exchanges \in Visits
    BY DEF VisitInv, JoyTypeOK, Visits
  <1>2. exchanges' \in Visits /\ tries' \in 0..(MaxTries - 1)
    <2>1. exchanges' \in {<<"status">> \o exchanges, Tail(exchanges), <<>>}
      OBVIOUS
    <2>2. <<>> \in Visits
      BY DEF Visits
    <2>3. exchanges' \in Visits
      BY <1>1, <2>1, <2>2, VisitGoesOn
    <2>4. /\ tries \in 0..(MaxTries - 1)
          /\ tries' \in {tries, 0} \/ (tries < MaxTries - 1 /\ tries' = tries + 1)
      BY DEF JoyTypeOK
    <2> QED
      BY <2>3, <2>4, Bounds
  <1>3. joyPc' = NextPc(exchanges') /\ thenPak' = thenPak
    OBVIOUS
  <1>4. JoyTypeOK'
    <2>1. siDma' \in DmaRecords
      BY DmaTypes DEF DmaInv
    <2>2. joyPc' \in {"send", "drain", "start"}
      BY <1>3 DEF NextPc
    <2> QED
      BY <1>2, <2>1, <2>2 DEF JoyTypeOK, DmaRecords, Visits, Wait
  <1>5. DmaInv' /\ VisitInv'
    BY <1>3 DEF DmaInv, VisitInv, NextPc
  <1>6. ASSUME ~slipped' PROVE InStep'
    <2>1. InStep /\ Quiet'
      BY <1>6 DEF InStep, PointsInv, AskedInv, Ended, Quiet, Wait
    <2> QED
      BY <1>3, <2>1 DEF InStep, FormatInv, PointsInv, NextPc, SendInv
  <1> QED
    BY <1>4, <1>5, <1>6

\* The format of the pads is sent again, unless it was the last sent.
LEMMA StartKeepsIInv ==
  ASSUME IInv, osContStartReadData
  PROVE  IInv'
  <1> USE DEF IInv, osContStartReadData
  <1>1. DmaInv' /\ (siDma = NoDma /\ lastCmd # "pads" => siDma' = PadsWrite)
    <2>1. CASE lastCmd # "pads"
      BY <2>1, StartedDma DEF PadsWrite, Commands
    <2>2. CASE lastCmd = "pads"
      BY <2>2 DEF DmaInv
    <2> QED
      BY <2>1, <2>2
  <1>2. JoyTypeOK'
    <2>1. siDma' \in DmaRecords
      BY <1>1, DmaTypes DEF DmaInv
    <2>2. tries' \in 0..(MaxTries - 1)
      BY Bounds
    <2>3. contRam' \in Commands \cup {"none"}
      BY DEF JoyTypeOK
    <2>4. joyPc' \in {"startSent", "startHeard"}
      OBVIOUS
    <2> QED
      BY <2>1, <2>2, <2>3, <2>4 DEF JoyTypeOK, DmaRecords
  <1>3. VisitInv'
    BY DEF VisitInv
  <1>4. ASSUME ~slipped' PROVE InStep'
    <2>1. InStep /\ Quiet
      BY <1>4 DEF InStep, PointsInv
    <2>2. CASE lastCmd = "pads"
      BY <2>1, <2>2 DEF InStep, FormatInv, PointsInv, StartHeardInv, Quiet
    <2>3. CASE lastCmd # "pads"
      BY <1>1, <2>1, <2>3 DEF InStep, FormatInv, PointsInv, StartSentInv, Quiet
    <2> QED
      BY <2>2, <2>3
  <1> QED
    BY <1>1, <1>2, <1>3, <1>4

\* The format was sent.
LEMMA StartSentKeepsIInv ==
  ASSUME IInv, StartSent
  PROVE  IInv'
  <1> USE DEF IInv, StartSent
  <1>1. DmaInv' /\ VisitInv'
    BY DEF DmaInv, VisitInv
  <1>2. JoyTypeOK'
    BY DEF JoyTypeOK, Wait
  <1>3. ASSUME ~slipped' PROVE InStep'
    <2>1. InStep /\ Ended /\ pif = "pads"
      BY <1>3 DEF InStep, PointsInv, StartSentInv, Wait
    <2> QED
      BY <2>1 DEF InStep, FormatInv, PointsInv, StartHeardInv, Quiet, Ended, Wait
  <1> QED
    BY <1>1, <1>2, <1>3

\* The pads are asked for.
LEMMA StartReadKeepsIInv ==
  ASSUME IInv, StartRead
  PROVE  IInv'
  <1> USE DEF IInv, StartRead
  <1>1. DmaInv' /\ (siDma = NoDma => siDma' = PadsRead)
    BY StartedDma DEF PadsRead, Commands
  <1>2. JoyTypeOK'
    <2>1. siDma' \in DmaRecords
      BY <1>1, DmaTypes DEF DmaInv
    <2> QED
      BY <2>1 DEF JoyTypeOK, DmaRecords, Commands
  <1>3. VisitInv'
    BY DEF VisitInv
  <1>4. ASSUME ~slipped' PROVE InStep'
    <2>1. InStep /\ Quiet /\ pif = "pads"
      BY <1>4 DEF InStep, PointsInv, StartHeardInv
    <2> QED
      BY <1>1, <2>1 DEF InStep, FormatInv, PointsInv, FrameInv, Quiet, PadsRead, Transfer
  <1> QED
    BY <1>1, <1>2, <1>3, <1>4

\* Every step keeps the invariant.
LEMMA NextIInv == IInv /\ [JoyNext]_joyVars => IInv'
  <1> SUFFICES ASSUME IInv, [JoyNext]_joyVars PROVE IInv'
    OBVIOUS
  <1>1. CASE UNCHANGED joyVars
    BY <1>1 DEF joyVars, IInv, JoyTypeOK, DmaInv, VisitInv, InStep, FormatInv, PointsInv, FrameInv,
                SendInv, SentInv, HeardInv, AskedInv, StartSentInv, StartHeardInv, Quiet, Ended,
                PadsLate, Command
  <1> QED
    BY <1>1, SiDoneKeepsIInv, JoyReadKeepsIInv, PackOpenKeepsIInv, DrainKeepsIInv, SendKeepsIInv,
       SentKeepsIInv, AskKeepsIInv, AnswerKeepsIInv, StartKeepsIInv, StartSentKeepsIInv,
       StartReadKeepsIInv
       DEF JoyNext, Frame, Go

-----------------------------------------------------------------------------
\* saves.c and contreaddata.c: one message at most is in the queue, one transfer
\* of a known kind under way, and no exchange is tried more often than it may.
THEOREM JoyTypes == JoySpec => []JoyTypeOK
  <1>1. IInv => JoyTypeOK
    BY DEF IInv
  <1> QED
    BY InitIInv, NextIInv, <1>1, PTL DEF JoySpec

\* controller.c:71 and saves.c:361: joyRead takes the answer of the pads and an
\* exchange that checks nothing takes its own, however many exchanges a visit
\* has and however often packOpen overtakes the read of the pads, until an
\* overtaken transfer ends between a message taken and the start that follows.
THEOREM AnswersFitInStep == JoySpec => []AnswersFit
  <1>1. IInv => AnswersFit
    BY DEF IInv, InStep, PointsInv, AskedInv, Command, Ended, PakWrite, Transfer, AnswersFit
  <1> QED
    BY InitIInv, NextIInv, <1>1, PTL DEF JoySpec

-----------------------------------------------------------------------------
(* The checksums.                                                          *)

CrcSpec == CrcInit /\ [][CrcNext]_crcVars

Turns(kind) == Length(kind) + Width(kind)
Register(kind) == 0..(Width(kind) - 1)
Odd(S) == Cardinality(S) % 2 = 1

\* The bits of a message that were shifted in when left turns are to come, and
\* whose power of x has a remainder with bit e by now.
Entered(kind, message, left, e) ==
  {b \in message : b + Width(kind) >= left /\ e \in Residue(kind)[b + Width(kind) - left]}

\* The register holds the remainder of what was shifted in.
RegisterInv ==
  crcOf # NoCall =>
    \A e \in Register(crcOf.kind) :
      e \in temp <=> Odd(Entered(crcOf.kind, crcOf.message, bitsLeft, e))

CrcInv == CrcTypeOK /\ RegisterInv

-----------------------------------------------------------------------------
LEMMA Sizes ==
  ASSUME NEW kind \in Checksums
  PROVE  /\ Width(kind) \in {5, 8} /\ Length(kind) \in Nat \ {0}
         /\ Generator(kind) \subseteq Register(kind)
         /\ \A message \in Messages(kind) : message \subseteq 0..(Length(kind) - 1)
<1>1. AddressBits \in Nat \ {0} /\ DataBytes \in Nat \ {0}
      /\ DataBlocks \subseteq SUBSET (0..(8 * DataBytes - 1))
  BY CrcAssumption
<1>2. CASE kind = "address"
  BY <1>1, <1>2 DEF Width, Length, Generator, Register, Messages
<1>3. CASE kind = "data"
  BY <1>1, <1>3 DEF Width, Length, Generator, Register, Messages
<1> QED BY <1>2, <1>3 DEF Checksums

\* A set of numbers that has 0 and all successors has every number.
LEMMA Upward ==
  ASSUME NEW I \in SUBSET Nat, 0 \in I, \A n \in I : n + 1 \in I
  PROVE  I = Nat
<1> DEFINE Less == {ij \in Nat \X Nat : ij[1] < ij[2]}
           J == Nat \ I
<1>1. Less = OpToRel(<, Nat)
  BY Zenon DEF OpToRel
<1>2. SUFFICES ASSUME J # {} PROVE FALSE
  OBVIOUS
<1>3. PICK i \in J : \A j \in J : ~(<<j, i>> \in Less)
  BY <1>1, <1>2, NatLessThanWellFounded, WFMin, Zenon
<1>4. i \in Nat /\ i # 0 /\ i - 1 \in Nat /\ i - 1 \notin I
  BY <1>3
<1>5. <<i - 1, i>> \in Less
  BY <1>4
<1> QED BY <1>3, <1>4, <1>5

\* x times a remainder, bit by bit: the bit below, less the generator's when the
\* highest is set.
LEMMA TimesXIs ==
  ASSUME NEW kind \in Checksums, NEW r \in SUBSET Register(kind)
  PROVE  /\ TimesX(kind, r) \subseteq Register(kind)
         /\ \A e \in Register(kind) :
              e \in TimesX(kind, r)
                <=> ~((e - 1 \in r) <=> (Width(kind) - 1 \in r /\ e \in Generator(kind)))
<1> DEFINE w == Width(kind)
           g == Generator(kind)
<1>1. w \in Nat /\ w > 0 /\ g \subseteq 0..(w - 1) /\ r \subseteq 0..(w - 1)
  BY Sizes DEF Register
<1> HIDE DEF w, g
<1>2. \A e : e \in Times(r, 1) <=> e - 1 \in r /\ e \in 1..w
  <2>1. \A e : e \in Times(r, 1) <=> \E a \in r : e = a + 1
    BY DEF Times
  <2>2. ASSUME NEW e, e \in Times(r, 1) PROVE e - 1 \in r /\ e \in 1..w
    <3>1. PICK a \in r : e = a + 1
      BY <2>1, <2>2
    <3>2. a \in 0..(w - 1)
      BY <1>1
    <3> QED BY <3>1, <3>2, <1>1
  <2>3. ASSUME NEW e, e - 1 \in r, e \in 1..w PROVE e \in Times(r, 1)
    <3>1. e = (e - 1) + 1
      BY <2>3, <1>1
    <3> QED BY <3>1, <2>1, <2>3
  <2> QED BY <2>2, <2>3
<1>3. TimesX(kind, r) =
        IF w - 1 \in r THEN (Times(r, 1) \ (g \cup {w})) \cup ((g \cup {w}) \ Times(r, 1))
        ELSE Times(r, 1)
  BY DEF TimesX, SymDiff, w, g
<1>4. w \in Times(r, 1) <=> w - 1 \in r
  BY <1>1, <1>2
<1>5. \A e : e \in Times(r, 1) => e \in 0..(w - 1) \/ e = w
  BY <1>1, <1>2
<1>6. \A e \in 0..(w - 1) : e # w /\ (e \in Times(r, 1) <=> e - 1 \in r)
  <2> SUFFICES ASSUME NEW e \in 0..(w - 1) PROVE e # w /\ (e \in Times(r, 1) <=> e - 1 \in r)
    OBVIOUS
  <2>1. e # w /\ (e = 0 \/ e \in 1..w) /\ 0 - 1 \notin 0..(w - 1)
    BY <1>1
  <2> QED BY <2>1, <1>1, <1>2
<1>7. TimesX(kind, r) \subseteq 0..(w - 1)
  BY <1>1, <1>3, <1>4, <1>5, Zenon
<1>8. \A e \in 0..(w - 1) : e \in TimesX(kind, r) <=> ~((e - 1 \in r) <=> (w - 1 \in r /\ e \in g))
  BY <1>1, <1>3, <1>6, Zenon
<1> QED BY <1>7, <1>8 DEF Register, w, g

\* The remainders of the powers of x are what their definition says, since a
\* function with these values exists.
LEMMA Powers ==
  ASSUME NEW kind \in Checksums
  PROVE  /\ Residue(kind)[0] = {0}
         /\ \A d \in 0..Turns(kind) : Residue(kind)[d] \in SUBSET Register(kind)
         /\ \A d \in 1..Turns(kind) : Residue(kind)[d] = TimesX(kind, Residue(kind)[d - 1])
<1> DEFINE N == Turns(kind)
           Body(f, d) == IF d = 0 THEN {0} ELSE TimesX(kind, f[d - 1])
           R == SUBSET Register(kind)
           I == {n \in Nat : \E f \in [0..n -> R] : f = [d \in 0..n |-> Body(f, d)]}
<1>n. N \in Nat
  BY Sizes DEF Turns
<1>0. {0} \in R
  BY Sizes DEF Register
<1>x. \A r \in R : TimesX(kind, r) \in R
  BY TimesXIs
<1> HIDE DEF N, R
<1>1. 0 \in I
  <2> DEFINE f == [d \in 0..0 |-> {0}]
  <2>1. f \in [0..0 -> R] /\ f = [d \in 0..0 |-> Body(f, d)]
    BY <1>0
  <2> QED BY <2>1
<1>2. ASSUME NEW n \in I PROVE n + 1 \in I
  <2>1. n \in Nat
    OBVIOUS
  <2>2. PICK f \in [0..n -> R] : f = [d \in 0..n |-> Body(f, d)]
    BY <1>2
  <2> DEFINE h == [d \in 0..(n + 1) |-> IF d = n + 1 THEN TimesX(kind, f[n]) ELSE f[d]]
  <2>3. f[n] \in R /\ TimesX(kind, f[n]) \in R
    BY <2>1, <2>2, <1>x
  <2>4. h \in [0..(n + 1) -> R]
    BY <2>1, <2>2, <2>3
  <2>5. \A d \in 0..(n + 1) : h[d] = Body(h, d)
    <3> SUFFICES ASSUME NEW d \in 0..(n + 1) PROVE h[d] = Body(h, d)
      OBVIOUS
    <3>1. CASE d = n + 1
      <4>1. h[n] = f[n] /\ d - 1 = n /\ d # 0
        BY <2>1, <3>1
      <4> QED BY <4>1, <3>1
    <3>2. CASE d = 0
      <4>1. h[0] = f[0] /\ f[0] = Body(f, 0)
        BY <2>1, <2>2
      <4> QED BY <4>1, <3>2
    <3>3. CASE d # n + 1 /\ d # 0
      <4>1. d \in 0..n /\ d - 1 \in 0..n /\ d - 1 \in 0..(n + 1) /\ d - 1 # n + 1
        BY <2>1, <3>3
      <4>2. h[d] = f[d] /\ h[d - 1] = f[d - 1]
        BY <4>1, <3>3
      <4>3. f[d] = Body(f, d)
        <5> HIDE DEF Body
        <5> QED BY <4>1, <2>2
      <4> HIDE DEF h
      <4> QED BY <4>2, <4>3, <3>3
    <3> QED BY <3>1, <3>2, <3>3
  <2>6. h = [d \in 0..(n + 1) |-> Body(h, d)]
    <3>1. h = [d \in 0..(n + 1) |-> h[d]]
      BY <2>4
    <3> HIDE DEF h, Body
    <3> QED BY <3>1, <2>5
  <2>7. n + 1 \in Nat
    BY <2>1
  <2> HIDE DEF h, Body
  <2> QED BY <2>4, <2>6, <2>7
<1>3. I = Nat
  <2> HIDE DEF I
  <2>1. I \in SUBSET Nat BY DEF I
  <2> QED BY <1>1, <1>2, <2>1, Upward
<1>4. PICK f \in [0..N -> R] : f = [d \in 0..N |-> Body(f, d)]
  BY <1>3, <1>n
<1>5. Residue(kind) = CHOOSE q : q = [d \in 0..N |-> Body(q, d)]
  BY DEF Residue, N, Turns
<1> DEFINE c == CHOOSE q : q = [d \in 0..N |-> Body(q, d)]
<1>6. c = [d \in 0..N |-> Body(c, d)]
  BY <1>4
<1> HIDE DEF c
<1>7. \A d \in 0..N : c[d] = Body(c, d)
  <2> HIDE DEF Body
  <2> QED BY <1>6
<1>8. \A n \in Nat : n <= N => c[n] \in R
  <2> DEFINE J == {n \in Nat : n <= N => c[n] \in R}
  <2>1. 0 \in J
    <3>1. 0 \in 0..N
      BY <1>n
    <3> QED BY <3>1, <1>7, <1>0
  <2>2. ASSUME NEW n \in J PROVE n + 1 \in J
    <3> SUFFICES ASSUME n + 1 <= N PROVE c[n + 1] \in R
      OBVIOUS
    <3>1. n + 1 \in 0..N /\ n + 1 # 0 /\ (n + 1) - 1 = n /\ n <= N
      BY <1>n
    <3>2. c[n + 1] = TimesX(kind, c[n])
      BY <3>1, <1>7
    <3> QED BY <3>1, <3>2, <1>x
  <2>3. J = Nat
    <3> HIDE DEF J
    <3>1. J \in SUBSET Nat BY DEF J
    <3> QED BY <2>1, <2>2, <3>1, Upward
  <2> QED BY <2>3
<1>9. c[0] = {0} /\ \A d \in 1..N : c[d] = TimesX(kind, c[d - 1])
  <2>1. 0 \in 0..N /\ \A d \in 1..N : d \in 0..N /\ d # 0
    BY <1>n
  <2> QED BY <2>1, <1>7
<1>10. \A d \in 0..N : c[d] \in R
  BY <1>8, <1>n
<1>11. Residue(kind) = c
  BY <1>5 DEF c
<1> QED BY <1>9, <1>10, <1>11 DEF N, R

\* The symmetric difference of two finite sets is odd when one of them is.
LEMMA OddDifference ==
  ASSUME NEW A, NEW B, IsFiniteSet(A), IsFiniteSet(B)
  PROVE  IsFiniteSet(SymDiff(A, B)) /\ (Odd(SymDiff(A, B)) <=> ~(Odd(A) <=> Odd(B)))
<1> DEFINE a == Cardinality(A)
           b == Cardinality(B)
           c == Cardinality(A \cap B)
<1>1. IsFiniteSet(A \cap B) /\ a \in Nat /\ b \in Nat /\ c \in Nat
  BY FS_Subset, FS_CardinalityType
<1>2. IsFiniteSet(A \ B) /\ Cardinality(A \ B) = a - c
  BY FS_Difference
<1>3. IsFiniteSet(B \ A) /\ Cardinality(B \ A) = b - c
  <2>1. B \cap A = A \cap B
    OBVIOUS
  <2> QED BY <2>1, FS_Difference
<1>4. (A \ B) \cap (B \ A) = {}
  OBVIOUS
<1>5. IsFiniteSet(SymDiff(A, B)) /\ Cardinality(SymDiff(A, B)) = a + b - 2 * c
  <2>1. Cardinality(SymDiff(A, B)) = (a - c) + (b - c) - 0
    BY <1>2, <1>3, <1>4, FS_Union, FS_EmptySet DEF SymDiff
  <2>2. IsFiniteSet(SymDiff(A, B))
    BY <1>2, <1>3, FS_Union DEF SymDiff
  <2> QED BY <1>1, <2>1, <2>2
<1> HIDE DEF a, b, c
<1>6. (a + b - 2 * c) % 2 = 1 <=> ~(a % 2 = 1 <=> b % 2 = 1)
  BY <1>1
<1> QED BY <1>5, <1>6 DEF Odd, a, b

LEMMA EnteredFinite ==
  ASSUME NEW kind \in Checksums, NEW message \in Messages(kind), NEW left, NEW e
  PROVE  IsFiniteSet(Entered(kind, message, left, e))
<1>1. IsFiniteSet(message)
  <2>1. message \in SUBSET (0..(Length(kind) - 1)) /\ Length(kind) - 1 \in Int
    BY Sizes
  <2>2. IsFiniteSet(0..(Length(kind) - 1))
    BY <2>1, FS_Interval
  <2> QED BY <2>1, <2>2, FS_Subset
<1> QED BY <1>1, FS_Subset DEF Entered

\* What a turn does to the bits that count for bit e: those that counted for the
\* bit below, and with the generator's those of the highest, and the bit that is
\* shifted in.
LEMMA EnteredNext ==
  ASSUME NEW kind \in Checksums, NEW message \in Messages(kind),
         NEW left \in 1..Turns(kind), NEW e \in Register(kind)
  PROVE  Entered(kind, message, left - 1, e) =
           SymDiff(SymDiff(IF e = 0 THEN {} ELSE Entered(kind, message, left, e - 1),
                           IF e \in Generator(kind) THEN Entered(kind, message, left, Width(kind) - 1)
                           ELSE {}),
                   IF e = 0 THEN message \cap {left - 1 - Width(kind)} ELSE {})
<1> DEFINE w == Width(kind)
           g == Generator(kind)
           r == Residue(kind)
           in == left - 1 - w
           Below == IF e = 0 THEN {} ELSE Entered(kind, message, left, e - 1)
           Highest == IF e \in g THEN Entered(kind, message, left, w - 1) ELSE {}
           First == IF e = 0 THEN message \cap {in} ELSE {}
<1>1. /\ w \in {5, 8} /\ Length(kind) \in Nat /\ left \in Int /\ left >= 1 /\ e \in Int
      /\ message \subseteq 0..(Length(kind) - 1) /\ e \in 0..(w - 1)
  BY Sizes DEF Turns, Register
<1>2. ASSUME NEW b \in message
      PROVE  b \in Entered(kind, message, left - 1, e) <=>
               ~(~(b \in Below <=> b \in Highest) <=> b \in First)
  <2>1. b \in Int /\ b >= 0 /\ b <= Length(kind) - 1
    BY <1>1
  <2>2. \A l, a : b \in Entered(kind, message, l, a) <=> b + w >= l /\ a \in r[b + w - l]
    BY DEF Entered
  <2>3. CASE b + w < left - 1
    <3>1. ~(b + w >= left) /\ ~(b + w >= left - 1) /\ b # in
      BY <2>3, <2>1, <1>1
    <3> QED BY <3>1, <2>2
  <2>4. CASE b + w = left - 1
    <3>1. ~(b + w >= left) /\ b + w >= left - 1 /\ b = in /\ b + w - (left - 1) = 0
      BY <2>4, <2>1, <1>1
    <3>2. r[0] = {0}
      BY Powers
    <3> HIDE DEF r, in, w
    <3> QED BY <3>1, <3>2, <2>2
  <2>5. CASE b + w >= left
    <3> DEFINE d == b + w - left
    <3>1. /\ b + w >= left - 1 /\ b # in /\ b + w - (left - 1) = d + 1
          /\ d + 1 \in 1..Turns(kind) /\ d \in 0..Turns(kind) /\ (d + 1) - 1 = d
      BY <2>5, <2>1, <1>1 DEF Turns
    <3>2. r[d + 1] = TimesX(kind, r[d]) /\ r[d] \in SUBSET Register(kind)
      <4> HIDE DEF d
      <4> QED BY <3>1, Powers
    <3>3. e \in r[d + 1] <=> ~((e - 1 \in r[d]) <=> (w - 1 \in r[d] /\ e \in g))
      BY <3>2, TimesXIs
    <3>4. e = 0 => e - 1 \notin r[d]
      <4>1. e = 0 => e - 1 \notin 0..(w - 1)
        BY <1>1
      <4> QED BY <4>1, <3>2 DEF Register
    <3> HIDE DEF r, in, w, g, d
    <3>5. b \in Entered(kind, message, left - 1, e) <=> e \in r[d + 1]
      BY <3>1, <2>2
    <3>6. b \in Below <=> e - 1 \in r[d]
      BY <3>4, <2>2, <2>5 DEF d
    <3>7. b \in Highest <=> w - 1 \in r[d] /\ e \in g
      BY <2>2, <2>5 DEF d
    <3>8. b \notin First
      BY <3>1
    <3> HIDE DEF Below, Highest, First
    <3> QED BY <3>3, <3>5, <3>6, <3>7, <3>8
  <2> QED BY <2>1, <1>1, <2>3, <2>4, <2>5
<1>3. /\ Entered(kind, message, left - 1, e) \subseteq message
      /\ Below \subseteq message /\ Highest \subseteq message /\ First \subseteq message
  BY DEF Entered
<1> HIDE DEF Below, Highest, First
<1>4. Entered(kind, message, left - 1, e) = SymDiff(SymDiff(Below, Highest), First)
  BY <1>2, <1>3, Zenon DEF SymDiff
<1> QED BY <1>4 DEF Below, Highest, First

LEMMA ShiftKeepsRegister ==
  ASSUME CrcInv, Shift
  PROVE  RegisterInv'
<1> DEFINE kind == crcOf.kind
           message == crcOf.message
           left == bitsLeft
           w == Width(kind)
           g == Generator(kind)
           In == IF left - 1 - w \in message THEN {0} ELSE {}
           Out == IF w - 1 \in temp THEN g ELSE {}
<1>1. /\ crcOf # NoCall /\ kind \in Checksums /\ message \in Messages(kind)
      /\ left \in 1..Turns(kind) /\ temp \subseteq 0..7
  BY DEF CrcInv, CrcTypeOK, Shift, Turns
<1>2. /\ w \in {5, 8} /\ g \subseteq 0..(w - 1) /\ left \in Int
      /\ message \subseteq 0..(Length(kind) - 1) /\ Register(kind) = 0..(w - 1)
  BY <1>1, Sizes DEF Register
<1>3. \A e \in 0..(w - 1) : e \in temp <=> Odd(Entered(kind, message, left, e))
  BY <1>1, <1>2 DEF CrcInv, RegisterInv
<1>4. /\ temp' = SymDiff((Times(temp, 1) \cap (0..7)) \cup In, Out)
      /\ bitsLeft' = left - 1 /\ crcOf' = crcOf
  BY DEF Shift
<1> SUFFICES ASSUME NEW e \in 0..(w - 1)
             PROVE  e \in temp' <=> Odd(Entered(kind, message, left - 1, e))
  BY <1>1, <1>2, <1>4 DEF RegisterInv
<1> DEFINE Below == IF e = 0 THEN {} ELSE Entered(kind, message, left, e - 1)
           Highest == IF e \in g THEN Entered(kind, message, left, w - 1) ELSE {}
           First == IF e = 0 THEN message \cap {left - 1 - w} ELSE {}
<1>5. Entered(kind, message, left - 1, e) = SymDiff(SymDiff(Below, Highest), First)
  BY <1>1, <1>2, EnteredNext
<1>6. IsFiniteSet(Below) /\ IsFiniteSet(Highest) /\ IsFiniteSet(First)
  <2>1. \A a : IsFiniteSet(Entered(kind, message, left, a))
    BY <1>1, EnteredFinite
  <2>2. IsFiniteSet({left - 1 - w}) /\ IsFiniteSet({})
    BY FS_Singleton, FS_EmptySet
  <2>3. IsFiniteSet(message \cap {left - 1 - w})
    BY <2>2, FS_Subset
  <2> QED BY <2>1, <2>2, <2>3
<1>7. Odd(Below) <=> e # 0 /\ e - 1 \in temp
  <2>1. ~Odd({})
    BY FS_EmptySet DEF Odd
  <2>2. e # 0 => e - 1 \in 0..(w - 1)
    BY <1>2
  <2> QED BY <2>1, <2>2, <1>3
<1>8. Odd(Highest) <=> e \in Out
  <2>1. ~Odd({})
    BY FS_EmptySet DEF Odd
  <2>2. w - 1 \in 0..(w - 1)
    BY <1>2
  <2> QED BY <2>1, <2>2, <1>3
<1>9. Odd(First) <=> e \in In
  <2>1. ~Odd({})
    BY FS_EmptySet DEF Odd
  <2>2. Odd({left - 1 - w})
    <3>1. Cardinality({left - 1 - w}) = 1
      BY FS_Singleton, Zenon
    <3> QED BY <3>1 DEF Odd
  <2>3. CASE left - 1 - w \in message
    <3>1. message \cap {left - 1 - w} = {left - 1 - w}
      BY <2>3
    <3> QED BY <2>1, <2>2, <2>3, <3>1
  <2>4. CASE left - 1 - w \notin message
    <3>1. message \cap {left - 1 - w} = {}
      BY <2>4
    <3> QED BY <2>1, <2>4, <3>1
  <2> QED BY <2>3, <2>4
<1>10. Odd(Entered(kind, message, left - 1, e)) <=> ~(~(Odd(Below) <=> Odd(Highest)) <=> Odd(First))
  <2> HIDE DEF Below, Highest, First
  <2> QED BY <1>5, <1>6, OddDifference
<1>11. e \in Times(temp, 1) \cap (0..7) <=> e # 0 /\ e - 1 \in temp
  <2>1. e \in 0..7 /\ e \in Int
    BY <1>2
  <2>2. e \in Times(temp, 1) <=> e - 1 \in temp
    <3>1. e \in Times(temp, 1) <=> \E a \in temp : e = a + 1
      BY DEF Times
    <3>2. \A a \in temp : a \in Int /\ (e = a + 1 <=> a = e - 1)
      BY <1>1, <2>1
    <3> QED BY <3>1, <3>2
  <2>3. 0 - 1 \notin temp
    BY <1>1
  <2> QED BY <2>1, <2>2, <2>3
<1>12. e \in In => e = 0
  OBVIOUS
<1> HIDE DEF Below, Highest, First, In, Out
<1>13. e \in temp' <=> ~((e \in Times(temp, 1) \cap (0..7) \/ e \in In) <=> e \in Out)
  BY <1>4, Zenon DEF SymDiff
<1> QED BY <1>7, <1>8, <1>9, <1>10, <1>11, <1>12, <1>13, Zenon

LEMMA CallKeepsCrcInv ==
  ASSUME CrcInv, Call
  PROVE  CrcInv'
<1>1. PICK kind \in Checksums : \E message \in Messages(kind) :
        /\ crcOf' = [kind |-> kind, message |-> message]
        /\ bitsLeft' = Length(kind) + Width(kind) /\ temp' = {}
  BY DEF Call
<1>2. PICK message \in Messages(kind) :
        /\ crcOf' = [kind |-> kind, message |-> message]
        /\ bitsLeft' = Turns(kind) /\ temp' = {}
  BY <1>1 DEF Turns
<1>3. crcOf'.kind = kind /\ crcOf'.message = message /\ crcOf' # NoCall
  BY <1>2 DEF Checksums, NoCall
<1>4. Turns(kind) = Length(kind) + Width(kind) /\ Length(kind) \in Nat /\ Width(kind) \in {5, 8}
      /\ message \subseteq 0..(Length(kind) - 1)
  BY Sizes DEF Turns
<1>5. CrcTypeOK'
  BY <1>2, <1>3, <1>4 DEF CrcTypeOK
<1>6. \A e : Entered(kind, message, Turns(kind), e) = {}
  <2>1. \A b \in message : ~(b + Width(kind) >= Turns(kind))
    BY <1>4
  <2> QED BY <2>1 DEF Entered
<1>7. ~Odd({})
  BY FS_EmptySet DEF Odd
<1>8. RegisterInv'
  BY <1>2, <1>3, <1>6, <1>7 DEF RegisterInv
<1> QED BY <1>5, <1>8 DEF CrcInv

LEMMA ShiftKeepsCrcInv ==
  ASSUME CrcInv, Shift
  PROVE  CrcInv'
<1>1. RegisterInv'
  BY ShiftKeepsRegister
<1>2. crcOf # NoCall /\ crcOf.kind \in Checksums
      /\ bitsLeft \in 1..(Length(crcOf.kind) + Width(crcOf.kind))
  BY DEF CrcInv, CrcTypeOK, Shift
<1>3. bitsLeft' \in 0..(Length(crcOf.kind) + Width(crcOf.kind))
  <2>1. Length(crcOf.kind) \in Nat /\ Width(crcOf.kind) \in Nat
    BY <1>2, Sizes
  <2> QED BY <1>2, <2>1 DEF Shift
<1>4. temp' \subseteq 0..7
  <2>1. Generator(crcOf.kind) \subseteq 0..7
    BY DEF Generator
  <2> QED BY <2>1 DEF Shift, SymDiff
<1>5. CrcTypeOK'
  BY <1>2, <1>3, <1>4 DEF CrcInv, CrcTypeOK, Shift
<1> QED BY <1>1, <1>5 DEF CrcInv

LEMMA NextCrcInv == CrcInv /\ [CrcNext]_crcVars => CrcInv'
<1> SUFFICES ASSUME CrcInv, [CrcNext]_crcVars PROVE CrcInv'
  OBVIOUS
<1>1. CASE Call
  BY <1>1, CallKeepsCrcInv
<1>2. CASE Shift
  BY <1>2, ShiftKeepsCrcInv
<1>3. CASE Return
  <2>1. crcOf' = NoCall /\ temp' = {} /\ bitsLeft' = 0
    BY <1>3 DEF Return
  <2> QED BY <2>1 DEF CrcInv, CrcTypeOK, RegisterInv
<1>4. CASE UNCHANGED crcVars
  BY <1>4 DEF crcVars, CrcInv, CrcTypeOK, RegisterInv
<1> QED BY <1>1, <1>2, <1>3, <1>4 DEF CrcNext

LEMMA InitCrcInv == CrcInit => CrcInv
BY DEF CrcInit, CrcInv, CrcTypeOK, RegisterInv

\* The types of the checksum's register: its byte, the turns left.
THEOREM CrcTypes == CrcSpec => []CrcTypeOK
<1>1. CrcInv => CrcTypeOK
  BY DEF CrcInv
<1> QED BY <1>1, InitCrcInv, NextCrcInv, PTL DEF CrcSpec

\* __osContAddressCrc and __osContDataCrc: what they return is the remainder of the
\* message with its zeros, whatever the message.
THEOREM ChecksumsAreRemainders == CrcSpec => []CrcIsRemainder
<1>1. CrcInv => CrcIsRemainder
  <2> SUFFICES ASSUME CrcInv, crcOf # NoCall, bitsLeft = 0
               PROVE  Checksum = {e \in 0..(Width(crcOf.kind) - 1) :
                         Odd({b \in crcOf.message :
                           e \in Residue(crcOf.kind)[b + Width(crcOf.kind)]})}
    BY DEF CrcIsRemainder, Odd
  <2> DEFINE w == Width(crcOf.kind)
  <2>1. w \in {5, 8} /\ \A b \in crcOf.message : b \in Nat
    BY Sizes DEF CrcInv, CrcTypeOK
  <2>2. \A e : Entered(crcOf.kind, crcOf.message, bitsLeft, e) =
                 {b \in crcOf.message : e \in Residue(crcOf.kind)[b + w]}
    <3>1. \A b \in crcOf.message : b + w >= 0 /\ b + w - 0 = b + w
      BY <2>1
    <3> HIDE DEF w
    <3> QED BY <3>1 DEF Entered, w
  <2>3. \A e \in 0..(w - 1) : e \in temp <=>
          Odd({b \in crcOf.message : e \in Residue(crcOf.kind)[b + w]})
    BY <2>2 DEF CrcInv, RegisterInv, Register
  <2> QED BY <2>3 DEF Checksum
<1> QED BY <1>1, InitCrcInv, NextCrcInv, PTL DEF CrcSpec

\* The remainder of a message with its zeros.
Remainder(kind, message) ==
  {e \in Register(kind) : Odd({b \in message : e \in Residue(kind)[b + Width(kind)]})}

\* No power of x is a multiple of the generator, whose last term is 1.
LEMMA PowersRemain ==
  ASSUME NEW kind \in Checksums, NEW d \in 0..Turns(kind)
  PROVE  Residue(kind)[d] # {}
<1> DEFINE I == {n \in Nat : n <= Turns(kind) => Residue(kind)[n] # {}}
<1>0. Turns(kind) \in Nat /\ Width(kind) \in {5, 8} /\ 0 \in Generator(kind)
      /\ Generator(kind) \subseteq Register(kind)
  BY Sizes DEF Turns, Generator
<1>1. 0 \in I
  BY Powers
<1>2. ASSUME NEW n \in I PROVE n + 1 \in I
  <2> SUFFICES ASSUME n + 1 <= Turns(kind) PROVE Residue(kind)[n + 1] # {}
    OBVIOUS
  <2> DEFINE r == Residue(kind)[n]
  <2>1. n + 1 \in 1..Turns(kind) /\ n \in 0..Turns(kind) /\ (n + 1) - 1 = n
    BY <1>0
  <2>2. Residue(kind)[n + 1] = TimesX(kind, r) /\ r \in SUBSET Register(kind)
    BY <2>1, Powers
  <2>3. r # {}
    BY <2>1
  <2> HIDE DEF r
  <2>4. \A e \in Register(kind) :
          e \in TimesX(kind, r)
            <=> ~((e - 1 \in r) <=> (Width(kind) - 1 \in r /\ e \in Generator(kind)))
    BY <2>2, TimesXIs
  <2>5. CASE Width(kind) - 1 \in r
    <3>1. 0 - 1 \notin r /\ 0 \in Register(kind)
      BY <1>0, <2>2 DEF Register
    <3> QED BY <3>1, <2>2, <2>4, <2>5, <1>0
  <2>6. CASE Width(kind) - 1 \notin r
    <3>1. PICK e \in r : TRUE
      BY <2>3
    <3>2. e + 1 \in Register(kind) /\ (e + 1) - 1 = e
      BY <1>0, <2>2, <2>6 DEF Register
    <3> QED BY <3>1, <3>2, <2>2, <2>4, <2>6
  <2> QED BY <2>5, <2>6
<1>3. I = Nat
  <2> HIDE DEF I
  <2>1. I \in SUBSET Nat BY DEF I
  <2> QED BY <1>1, <1>2, <2>1, Upward
<1> QED BY <1>0, <1>3

\* A message and the same with one bit turned over have different remainders: the
\* error of one bit that the checksum is there to find.
THEOREM OneBitIsSeen ==
  ASSUME NEW kind \in Checksums, NEW message \in Messages(kind), NEW other \in Messages(kind),
         NEW b \in 0..(Length(kind) - 1), other = SymDiff(message, {b})
  PROVE  Remainder(kind, message) # Remainder(kind, other)
<1> DEFINE r == Residue(kind)
           w == Width(kind)
           Bits(m, e) == {a \in m : e \in r[a + w]}
<1>1. w \in Nat /\ Length(kind) \in Nat /\ b + w \in 0..Turns(kind)
  BY Sizes DEF Turns
<1>2. r[b + w] # {} /\ r[b + w] \subseteq Register(kind)
  <2> HIDE DEF w
  <2> QED BY <1>1, Powers, PowersRemain
<1>3. PICK e \in r[b + w] : e \in Register(kind)
  BY <1>2
<1> HIDE DEF r, w
<1>4. Bits(other, e) = SymDiff(Bits(message, e), {b})
  BY <1>3 DEF SymDiff
<1>5. IsFiniteSet(Bits(message, e)) /\ IsFiniteSet({b}) /\ Odd({b})
  <2>1. IsFiniteSet(message)
    <3>1. message \in SUBSET (0..(Length(kind) - 1)) /\ Length(kind) - 1 \in Int
      BY Sizes
    <3>2. IsFiniteSet(0..(Length(kind) - 1))
      BY <3>1, FS_Interval
    <3> QED BY <3>1, <3>2, FS_Subset
  <2>2. IsFiniteSet({b}) /\ Cardinality({b}) = 1
    BY FS_Singleton, Zenon
  <2> QED BY <2>1, <2>2, FS_Subset DEF Odd
<1>6. Odd(Bits(other, e)) <=> ~Odd(Bits(message, e))
  <2> HIDE DEF Bits
  <2> QED BY <1>4, <1>5, OddDifference
<1>7. \A m : e \in Remainder(kind, m) <=> Odd(Bits(m, e))
  BY <1>3 DEF Remainder, r, w
<1> HIDE DEF Bits
<1> QED BY <1>6, <1>7
=============================================================================
