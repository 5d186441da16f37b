----------------------------- MODULE MCDevices -----------------------------
(***************************************************************************)
(* The parts that share no state with the others: the overlay linker, the  *)
(* serial and the cartridge interface, the VI manager, the dialogue        *)
(* windows' strings, the controller pak's checksums, the decoding tables   *)
(* and the animation cycles.  A behaviour is one of one of them (focus),   *)
(* the others staying where they began, so that one run explores the sum   *)
(* of their states and not the product.                                    *)
(***************************************************************************)
EXTENDS RunLink, Joypad, PiManager, ViManager, Dialogue, Crc, Huft, Cycles

\* The blocks with at most two one bits.
FewBits == {{}} \cup {{i, j} : i, j \in 0..(8 * DataBytes - 1)}

VARIABLE focus

deviceVars == <<linkVars, joyVars, piVars, viVars, dialogueVars, crcVars, huftVars, cyclesVars, focus>>

\* The steps of the part in focus.
LinkStep(A) == focus = "link" /\ A
               /\ UNCHANGED <<joyVars, piVars, viVars, dialogueVars, crcVars, huftVars, cyclesVars, focus>>
JoyStep(A) == focus = "joy" /\ A
               /\ UNCHANGED <<linkVars, piVars, viVars, dialogueVars, crcVars, huftVars, cyclesVars, focus>>
PiStep(A) == focus = "pi" /\ A
               /\ UNCHANGED <<linkVars, joyVars, viVars, dialogueVars, crcVars, huftVars, cyclesVars, focus>>
ViStep(A) == focus = "vi" /\ A
               /\ UNCHANGED <<linkVars, joyVars, piVars, dialogueVars, crcVars, huftVars, cyclesVars, focus>>
DialogueStep(A) == focus = "dialogue" /\ A
               /\ UNCHANGED <<linkVars, joyVars, piVars, viVars, crcVars, huftVars, cyclesVars, focus>>
CrcStep(A) == focus = "crc" /\ A
               /\ UNCHANGED <<linkVars, joyVars, piVars, viVars, dialogueVars, huftVars, cyclesVars, focus>>
HuftStep(A) == focus = "huft" /\ A
               /\ UNCHANGED <<linkVars, joyVars, piVars, viVars, dialogueVars, crcVars, cyclesVars, focus>>
CyclesStep(A) == focus = "cycles" /\ A
               /\ UNCHANGED <<linkVars, joyVars, piVars, viVars, dialogueVars, crcVars, huftVars, focus>>

\* The parts out of focus all begin alike.
Init ==
  /\ LinkInit /\ JoyInit /\ PiInit /\ ViInit /\ DialogueInit /\ CrcInit /\ HuftInit /\ CyclesInit
  /\ focus \in {"link", "joy", "pi", "vi", "dialogue", "crc", "huft", "cycles"}
  /\ focus # "vi" => registers.modep = CHOOSE m \in Modes : TRUE
  /\ focus # "cycles" =>
       texture = [way |-> "loop", n |-> 1] /\ ~backwards /\ times = [f \in {0, 1} |-> 1]

Next ==
  \/ LinkStep(LinkNext)
  \/ JoyStep(JoyNext)
  \/ PiStep(PiNext)
  \/ ViStep(ViNext)
  \/ DialogueStep(DialogueNext)
  \/ CrcStep(CrcNext)
  \/ HuftStep(HuftNext)
  \/ CyclesStep(CyclesNext)

\* A transfer ends, the game's thread runs on, and the main loop calls joyRead
\* frame after frame.
Fairness ==
  /\ WF_deviceVars(JoyStep(SiDone))
  /\ WF_deviceVars(JoyStep(Go))
  /\ WF_deviceVars(JoyStep(joyRead))

Spec == Init /\ [][Next]_deviceVars /\ Fairness

\* The type invariant of them all.
DevicesTypeOK ==
  /\ LinkTypeOK /\ JoyTypeOK /\ PiTypeOK /\ ViTypeOK
  /\ DialogueTypeOK /\ CrcTypeOK /\ HuftTypeOK /\ CyclesTypeOK
=============================================================================
