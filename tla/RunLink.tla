------------------------------ MODULE RunLink ------------------------------
(***************************************************************************)
(* The overlay linker, runLink.c: overlays are loaded into memory, their   *)
(* references to others resolved and others' references to them patched;   *)
(* unloading gives the memory back and patches the main module's           *)
(* references away.                                                        *)
(*                                                                         *)
(* A reference has a kind: a jump (flagsHi 4), a word (2) or the two       *)
(* halves of an address (5 and 6, with no addend of their own).  Every     *)
(* module holds one of each kind to every other overlay.  A place is a     *)
(* block of the memory pool that holds any overlay.                        *)
(***************************************************************************)
EXTENDS Naturals, FiniteSets

CONSTANTS
  Overlays,       \* 1..overlayCount - 1
  Main,           \* overlay 0, always loaded
  Places,         \* blocks of memory
  NoPlace,        \* a VramBase of 0
  TwoTables       \* overlays with a SecondaryRelocationTableSize

ASSUME LinkAssumption ==
  /\ Main \notin Overlays /\ NoPlace \notin Places
  /\ Places \cap {"trap", "null", "unresolved", "wrong"} = {}
  /\ TwoTables \subseteq Overlays

Kinds == {"jump", "word", "address"}

VARIABLES
  VramBase,     \* of each overlay
  pool,         \* which overlay each place was allocated for
  link,         \* where each module's references lead
  timers,       \* selfDestructTimer and refCount, as far as the panic asks
  lost          \* loads that failed halfway: their memory is no longer theirs

linkVars == <<VramBase, pool, link, timers, lost>>

Modules == Overlays \cup {Main}
Loaded(o) == o = Main \/ VramBase[o] # NoPlace
FreePlaces == {p \in Places : pool[p] = Main}

-----------------------------------------------------------------------------
(* Relocation entries.                                                     *)

\* The address of a target, as ResolveRelocAddress has it for type 0.
ResolveRelocAddress(base, kind) ==
  IF base # NoPlace THEN base
  ELSE IF kind \in {"jump", "word"} THEN "trap" ELSE "unresolved"

\* What the patched place holds next.  A jump or a word is overwritten; to an
\* address what is there already is added, unless it was left unresolved.
ProcessRelocationEntry(base, kind, old) ==
  IF kind # "address" \/ old \in {"null", "unresolved"}
  THEN ResolveRelocAddress(base, kind) ELSE "wrong"

\* The references of an overlay fresh from the ROM.
OwnEntries(o, bases) ==
  [t \in Overlays |-> [k \in Kinds |-> ProcessRelocationEntry(bases[t], k, "null")]]

\* Mutant: the main module's entries are left out.
OtherOverlaysOnly(o, p, links) ==
  [m \in Modules |->
     IF m = Main \/ m = o \/ ~Loaded(m) THEN links[m]
     ELSE [links[m] EXCEPT ![o] =
             [k \in Kinds |-> ProcessRelocationEntry(p, k, links[m][o][k])]]]

\* Every loaded module's entries that refer to the overlay just loaded.
OthersEntries(o, p, links) ==
  [m \in Modules |->
     IF m = o \/ ~Loaded(m) THEN links[m]
     ELSE [links[m] EXCEPT ![o] =
             [k \in Kinds |-> ProcessRelocationEntry(p, k, links[m][o][k])]]]

-----------------------------------------------------------------------------
(* runlinkDownloadCode.  An init function that loads others does so after  *)
(* all of this: its loads are further steps.                               *)

\* The second table needs a second block, given back at the end.
Download(o) ==
  /\ ~Loaded(o)
  /\ \E p \in FreePlaces :
       /\ o \in TwoTables => FreePlaces # {p}
       /\ VramBase' = [VramBase EXCEPT ![o] = p]
       /\ pool' = [pool EXCEPT ![p] = o]
       /\ link' = OthersEntries(o, p, [link EXCEPT ![o] = OwnEntries(o, VramBase')])
  /\ UNCHANGED <<timers, lost>>

\* Without it the first block is freed, and VramBase keeps its address.
DownloadFails(o) ==
  /\ ~Loaded(o) /\ o \in TwoTables
  /\ \E p \in Places :
       /\ FreePlaces = {p}
       /\ VramBase' = [VramBase EXCEPT ![o] = p]
  /\ lost' = lost \cup {o}
  /\ UNCHANGED <<pool, link, timers>>

runlinkDownloadCode(o) == Download(o) \/ DownloadFails(o)

\* runlinkSetDestructTimer: whether the panic may take the overlay.
SetDestructTimer(o, on) ==
  /\ Loaded(o)
  /\ timers' = [timers EXCEPT ![o] = on]
  /\ UNCHANGED <<VramBase, pool, link, lost>>

-----------------------------------------------------------------------------
(* Unloading.                                                              *)

Unlinked == [k \in Kinds |-> IF k = "jump" THEN "trap" ELSE "null"]

\* Of the references to the overlays of gone, the main module's are patched.
Unload(gone) ==
  /\ VramBase' = [o \in Overlays |-> IF o \in gone THEN NoPlace ELSE VramBase[o]]
  /\ pool' = [p \in Places |->
                IF \E o \in gone : VramBase[o] = p THEN Main ELSE pool[p]]
  /\ link' = [link EXCEPT ![Main] =
                [o \in Overlays |-> IF o \in gone THEN Unlinked ELSE link[Main][o]]]
  /\ timers' = [o \in Overlays |-> timers[o] /\ o \notin gone]
  /\ lost' = lost

runlinkUnloadOverlay(o) == VramBase[o] # NoPlace /\ Unload({o})

\* Every overlay with a timer and no references.
runlinkLowMemoryPanic ==
  LET gone == {o \in Overlays : timers[o] /\ Loaded(o)}
  IN  gone # {} /\ Unload(gone)

-----------------------------------------------------------------------------
LinkInit ==
  /\ VramBase = [o \in Overlays |-> NoPlace]
  /\ pool = [p \in Places |-> Main]
  /\ link = [m \in Modules |-> [o \in Overlays |-> Unlinked]]
  /\ timers = [o \in Overlays |-> FALSE]
  /\ lost = {}

LinkNext ==
  \/ \E o \in Overlays :
       \/ runlinkDownloadCode(o) \/ runlinkUnloadOverlay(o)
       \/ \E on \in BOOLEAN : SetDestructTimer(o, on)
  \/ runlinkLowMemoryPanic

-----------------------------------------------------------------------------
LinkTypeOK ==
  /\ VramBase \in [Overlays -> Places \cup {NoPlace}]
  /\ pool \in [Places -> Modules]
  /\ link \in [Modules -> [Overlays ->
       [Kinds -> Places \cup {"trap", "null", "unresolved", "wrong"}]]]
  /\ timers \in [Overlays -> BOOLEAN]
  /\ lost \subseteq Overlays

\* runLink.c:12 and 627: as long as no load has failed halfway, every reference
\* of the main module leads to where its overlay lies now, or to the trap or
\* nowhere when it is not loaded; the jumps and words of other overlays lead to
\* every overlay that is loaded (those to one that is gone are left dangling).
MainIsLinked ==
  lost = {} =>
    \A o \in Overlays :
      IF ~Loaded(o) THEN link[Main][o] = Unlinked
      ELSE /\ pool[VramBase[o]] = o
           /\ \A m \in Modules \ {o}, k \in Kinds :
                (m = Main \/ (Loaded(m) /\ k # "address")) => link[m][o][k] = VramBase[o]
=============================================================================
