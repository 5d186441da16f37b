---------------------------- MODULE RunLinkProofs ----------------------------
(***************************************************************************)
(* Proofs about the overlay linker: types, and that as long as no load has *)
(* failed halfway the main module's references lead to where overlays lie. *)
(* Together they are inductive: a place that is free for a load is nobody  *)
(* else's, because each loaded overlay's place was allocated for it.       *)
(***************************************************************************)
EXTENDS RunLink, TLAPS

LinkSpec == LinkInit /\ [][LinkNext]_linkVars

IInv == LinkTypeOK /\ MainIsLinked

Targets == Places \cup {"trap", "null", "unresolved", "wrong"}

-----------------------------------------------------------------------------
(* References.                                                             *)

\* A reference to an overlay at p leads to p, but for the halves of an address
\* that already hold another.
LEMMA PatchedReference ==
  ASSUME NEW p \in Places, NEW kind \in Kinds, NEW old \in Targets
  PROVE  /\ ProcessRelocationEntry(p, kind, old) \in Targets
         /\ kind # "address" \/ old = "null" => ProcessRelocationEntry(p, kind, old) = p
  BY LinkAssumption DEF ProcessRelocationEntry, ResolveRelocAddress, Kinds, Targets

\* A reference to an overlay that is not loaded leads to the trap or nowhere.
LEMMA FreshReference ==
  ASSUME NEW base \in Places \cup {NoPlace}, NEW kind \in Kinds
  PROVE  /\ ProcessRelocationEntry(base, kind, "null") \in Targets
         /\ base # NoPlace => ProcessRelocationEntry(base, kind, "null") = base
  BY LinkAssumption DEF ProcessRelocationEntry, ResolveRelocAddress, Kinds, Targets

\* What a load of o at p does to the references: its own are fresh, those of
\* others to it are patched, and nothing else changes.
LEMMA LoadedLinks ==
  ASSUME LinkTypeOK, NEW o \in Overlays, NEW p \in Places, ~Loaded(o),
         VramBase' = [VramBase EXCEPT ![o] = p],
         link' = OthersEntries(o, p, [link EXCEPT ![o] = OwnEntries(o, VramBase')])
  PROVE  /\ link' \in [Modules -> [Overlays -> [Kinds -> Targets]]]
         /\ \A t \in Overlays, k \in Kinds :
              link'[o][t][k] = ProcessRelocationEntry(VramBase'[t], k, "null")
         /\ \A m \in Modules \ {o}, t \in Overlays, k \in Kinds :
              link'[m][t][k] = IF t = o /\ Loaded(m)
                               THEN ProcessRelocationEntry(p, k, link[m][o][k])
                               ELSE link[m][t][k]
  <1> DEFINE links   == [link EXCEPT ![o] = OwnEntries(o, VramBase')]
             patched == [m \in Modules |->
                           [k \in Kinds |-> ProcessRelocationEntry(p, k, links[m][o][k])]]
  <1>1. /\ link \in [Modules -> [Overlays -> [Kinds -> Targets]]]
        /\ VramBase' \in [Overlays -> Places \cup {NoPlace}] /\ o \in Modules
    BY DEF LinkTypeOK, Targets, Modules
  <1>2. /\ OwnEntries(o, VramBase') \in [Overlays -> [Kinds -> Targets]]
        /\ \A t \in Overlays, k \in Kinds :
             OwnEntries(o, VramBase')[t][k] = ProcessRelocationEntry(VramBase'[t], k, "null")
    BY <1>1, FreshReference DEF OwnEntries
  <1>3. /\ links \in [Modules -> [Overlays -> [Kinds -> Targets]]]
        /\ links[o] = OwnEntries(o, VramBase')
        /\ \A m \in Modules \ {o} : links[m] = link[m]
    BY <1>1, <1>2
  <1>4. link' = [m \in Modules |-> IF m = o \/ ~Loaded(m) THEN links[m]
                                   ELSE [links[m] EXCEPT ![o] = patched[m]]]
    BY DEF OthersEntries
  <1>5. \A m \in Modules, k \in Kinds :
          patched[m][k] = ProcessRelocationEntry(p, k, links[m][o][k])
    OBVIOUS
  <1>6. patched \in [Modules -> [Kinds -> Targets]]
    <2> HIDE DEF links
    <2>1. \A m \in Modules, k \in Kinds : ProcessRelocationEntry(p, k, links[m][o][k]) \in Targets
      BY <1>3, PatchedReference
    <2> QED BY <2>1
  <1> HIDE DEF links, patched
  <1>7. ASSUME NEW m \in Modules, NEW t \in Overlays
        PROVE  /\ link'[m] \in [Overlays -> [Kinds -> Targets]]
               /\ link'[m][t] = IF t = o /\ m # o /\ Loaded(m) THEN patched[m] ELSE links[m][t]
    <2>1. /\ links[m] \in [Overlays -> [Kinds -> Targets]]
          /\ patched[m] \in [Kinds -> Targets]
      BY <1>3, <1>6
    <2>2. CASE m = o \/ ~Loaded(m)
      <3>1. link'[m] = links[m]
        BY <1>4, <2>2
      <3> QED BY <2>1, <2>2, <3>1
    <2>3. CASE m # o /\ Loaded(m)
      <3>1. link'[m] = [links[m] EXCEPT ![o] = patched[m]]
        BY <1>4, <2>3
      <3> QED BY <2>1, <2>3, <3>1
    <2> QED BY <2>2, <2>3
  <1>8. link' \in [Modules -> [Overlays -> [Kinds -> Targets]]]
    BY <1>3, <1>4, <1>7
  <1>9. ASSUME NEW m \in Modules \ {o}, NEW t \in Overlays, NEW k \in Kinds
        PROVE  link'[m][t][k] = IF t = o /\ Loaded(m)
                                THEN ProcessRelocationEntry(p, k, link[m][o][k])
                                ELSE link[m][t][k]
    <2>1. links[m] = link[m]
      BY <1>3
    <2>2. patched[m][k] = ProcessRelocationEntry(p, k, link[m][o][k])
      BY <1>5, <2>1
    <2>3. link'[m][t] = IF t = o /\ Loaded(m) THEN patched[m] ELSE link[m][t]
      BY <1>7, <2>1
    <2> QED BY <2>2, <2>3
  <1>10. \A t \in Overlays : link'[o][t] = OwnEntries(o, VramBase')[t]
    BY <1>1, <1>3, <1>7
  <1> QED BY <1>2, <1>8, <1>9, <1>10

-----------------------------------------------------------------------------
(* The inductive invariant.                                                *)

LEMMA InitIInv == LinkInit => IInv
  <1> SUFFICES ASSUME LinkInit PROVE IInv
    OBVIOUS
  <1>1. Unlinked \in [Kinds -> Targets]
    BY DEF Unlinked, Targets
  <1>2. LinkTypeOK
    BY <1>1 DEF LinkInit, LinkTypeOK, Targets, Modules
  <1>3. \A o \in Overlays : ~Loaded(o) /\ link[Main][o] = Unlinked
    BY LinkAssumption DEF LinkInit, Loaded, Modules
  <1> QED BY <1>2, <1>3 DEF IInv, MainIsLinked

\* A load that succeeds.
LEMMA DownloadKeepsIInv ==
  ASSUME IInv, NEW o \in Overlays, Download(o)
  PROVE  IInv'
  <1>1. PICK p \in FreePlaces :
          /\ VramBase' = [VramBase EXCEPT ![o] = p]
          /\ pool' = [pool EXCEPT ![p] = o]
          /\ link' = OthersEntries(o, p, [link EXCEPT ![o] = OwnEntries(o, VramBase')])
    BY DEF Download
  <1>2. /\ ~Loaded(o) /\ UNCHANGED <<timers, lost>>
        /\ p \in Places /\ pool[p] = Main /\ p # NoPlace /\ o # Main
        /\ VramBase \in [Overlays -> Places \cup {NoPlace}] /\ pool \in [Places -> Modules]
        /\ link \in [Modules -> [Overlays -> [Kinds -> Targets]]]
        /\ o \in Modules /\ Main \in Modules
    BY LinkAssumption DEF Download, FreePlaces, IInv, LinkTypeOK, Targets, Modules
  <1>3. /\ link' \in [Modules -> [Overlays -> [Kinds -> Targets]]]
        /\ \A t \in Overlays, k \in Kinds :
             link'[o][t][k] = ProcessRelocationEntry(VramBase'[t], k, "null")
        /\ \A m \in Modules \ {o}, t \in Overlays, k \in Kinds :
             link'[m][t][k] = IF t = o /\ Loaded(m)
                              THEN ProcessRelocationEntry(p, k, link[m][o][k])
                              ELSE link[m][t][k]
    BY <1>1, <1>2, LoadedLinks DEF IInv
  <1>4. /\ VramBase' \in [Overlays -> Places \cup {NoPlace}] /\ VramBase'[o] = p
        /\ \A t \in Overlays \ {o} : VramBase'[t] = VramBase[t]
        /\ pool' \in [Places -> Modules] /\ pool'[p] = o
        /\ \A q \in Places \ {p} : pool'[q] = pool[q]
    BY <1>1, <1>2
  <1>5. LinkTypeOK'
    BY <1>2, <1>3, <1>4 DEF IInv, LinkTypeOK, Targets
  <1>6. \A m \in Modules \ {o} : Loaded(m)' <=> Loaded(m)
    BY <1>4 DEF Loaded, Modules
  <1>7. Loaded(o)' /\ Loaded(Main) /\ \A t \in Overlays : t # Main
    BY <1>2, <1>4, LinkAssumption DEF Loaded
  <1>8. ASSUME lost = {}, NEW t \in Overlays \ {o}, ~Loaded(t)'
        PROVE  link'[Main][t] = Unlinked
    <2>1. link[Main][t] = Unlinked
      BY <1>6, <1>8 DEF IInv, MainIsLinked, Modules
    <2>2. \A k \in Kinds : link'[Main][t][k] = link[Main][t][k]
      BY <1>2, <1>3, <1>8
    <2> QED BY <1>2, <1>3, <2>1, <2>2
  <1>9. ASSUME lost = {}, NEW t \in Overlays \ {o}, Loaded(t)'
        PROVE  /\ pool'[VramBase'[t]] = t
               /\ \A m \in Modules \ {t}, k \in Kinds :
                    (m = Main \/ (Loaded(m)' /\ k # "address")) => link'[m][t][k] = VramBase'[t]
    <2>1. /\ Loaded(t) /\ t \in Modules /\ VramBase[t] \in Places
          /\ pool[VramBase[t]] = t /\ VramBase'[t] = VramBase[t]
      BY <1>2, <1>4, <1>6, <1>7, <1>9 DEF IInv, MainIsLinked, Modules, Loaded
    <2>2. \A m \in Modules \ {t}, k \in Kinds :
            (m = Main \/ (Loaded(m) /\ k # "address")) => link[m][t][k] = VramBase[t]
      BY <1>9, <2>1 DEF IInv, MainIsLinked
    <2>3. VramBase[t] # p
      BY <1>2, <1>7, <2>1
    <2>4. \A k \in Kinds : link'[o][t][k] = VramBase'[t]
      BY <1>2, <1>3, <2>1, FreshReference, LinkAssumption
    <2>5. ASSUME NEW m \in Modules \ {t}, NEW k \in Kinds, m # o,
                 m = Main \/ (Loaded(m)' /\ k # "address")
          PROVE  link'[m][t][k] = VramBase'[t]
      BY <1>3, <1>6, <1>9, <2>1, <2>2, <2>5
    <2> QED BY <1>4, <2>1, <2>3, <2>4, <2>5
  <1>10. ASSUME lost = {}, NEW m \in Modules \ {o}, NEW k \in Kinds,
                m = Main \/ (Loaded(m)' /\ k # "address")
         PROVE  link'[m][o][k] = VramBase'[o]
    <2>1. Loaded(m) /\ link[m][o][k] \in Targets
      BY <1>2, <1>6, <1>7, <1>10
    <2>2. k # "address" \/ link[m][o][k] = "null"
      <3>1. CASE m = Main
        <4>1. link[Main][o] = Unlinked
          BY <1>2, <1>10 DEF IInv, MainIsLinked
        <4> QED BY <3>1, <4>1 DEF Unlinked, Kinds
      <3> QED BY <3>1, <1>10
    <2>3. ProcessRelocationEntry(p, k, link[m][o][k]) = p
      BY <1>2, <2>1, <2>2, PatchedReference
    <2> QED BY <1>3, <1>4, <2>1, <2>3
  <1>11. MainIsLinked'
    <2> SUFFICES ASSUME lost' = {}, NEW t \in Overlays
                 PROVE  IF ~Loaded(t)' THEN link'[Main][t] = Unlinked
                        ELSE /\ pool'[VramBase'[t]] = t
                             /\ \A m \in Modules \ {t}, k \in Kinds :
                                  (m = Main \/ (Loaded(m)' /\ k # "address"))
                                    => link'[m][t][k] = VramBase'[t]
      BY DEF MainIsLinked
    <2>1. lost = {}
      BY <1>2
    <2> QED BY <1>4, <1>7, <1>8, <1>9, <1>10, <2>1
  <1> QED BY <1>5, <1>11 DEF IInv

\* A load that fails halfway: VramBase keeps a place, and nothing more is claimed.
LEMMA FailureKeepsIInv ==
  ASSUME IInv, NEW o \in Overlays, DownloadFails(o)
  PROVE  IInv'
  <1>1. PICK p \in Places : VramBase' = [VramBase EXCEPT ![o] = p]
    BY DEF DownloadFails
  <1>2. lost' = lost \cup {o} /\ UNCHANGED <<pool, link, timers>>
    BY DEF DownloadFails
  <1>3. LinkTypeOK'
    BY <1>1, <1>2 DEF IInv, LinkTypeOK
  <1> QED BY <1>2, <1>3 DEF IInv, MainIsLinked

\* The timer and the reference count are no part of what is linked.
LEMMA TimerKeepsIInv ==
  ASSUME IInv, NEW o \in Overlays, NEW on \in BOOLEAN, SetDestructTimer(o, on)
  PROVE  IInv'
  <1>1. /\ timers' = [timers EXCEPT ![o] = on]
        /\ UNCHANGED <<VramBase, pool, link, lost>>
    BY DEF SetDestructTimer
  <1>2. LinkTypeOK'
    BY <1>1 DEF IInv, LinkTypeOK
  <1>3. MainIsLinked'
    BY <1>1 DEF IInv, MainIsLinked, Loaded
  <1> QED BY <1>2, <1>3 DEF IInv

\* Unloading, one overlay or several: the places freed are those of the
\* overlays that go, as each loaded overlay's place was allocated for it.
LEMMA UnloadKeepsIInv ==
  ASSUME IInv, NEW gone \in SUBSET Overlays, Unload(gone)
  PROVE  IInv'
  <1>1. /\ VramBase \in [Overlays -> Places \cup {NoPlace}] /\ pool \in [Places -> Modules]
        /\ link \in [Modules -> [Overlays -> [Kinds -> Targets]]]
        /\ timers \in [Overlays -> BOOLEAN]
        /\ lost \subseteq Overlays /\ Main \in Modules
        /\ \A t \in Overlays : t # Main /\ t \in Modules
    BY LinkAssumption DEF IInv, LinkTypeOK, Targets, Modules
  <1>2. Unlinked \in [Kinds -> Targets]
    BY DEF Unlinked, Targets
  <1>3. /\ \A t \in Overlays : VramBase'[t] = IF t \in gone THEN NoPlace ELSE VramBase[t]
        /\ VramBase' \in [Overlays -> Places \cup {NoPlace}]
        /\ \A q \in Places : pool'[q] = IF \E t \in gone : VramBase[t] = q
                                        THEN Main ELSE pool[q]
        /\ pool' \in [Places -> Modules] /\ lost' = lost
    BY <1>1 DEF Unload
  <1>4. timers' \in [Overlays -> BOOLEAN]
    BY <1>1 DEF Unload
  <1> DEFINE mains == [t \in Overlays |-> IF t \in gone THEN Unlinked ELSE link[Main][t]]
  <1>5. mains \in [Overlays -> [Kinds -> Targets]]
    BY <1>1, <1>2
  <1>6. /\ link' \in [Modules -> [Overlays -> [Kinds -> Targets]]]
        /\ link'[Main] = mains
        /\ \A m \in Modules \ {Main} : link'[m] = link[m]
    BY <1>1, <1>5 DEF Unload
  <1>7. LinkTypeOK'
    BY <1>1, <1>3, <1>4, <1>6 DEF LinkTypeOK, Targets
  <1>8. \A m \in Modules : Loaded(m)' => Loaded(m)
    BY <1>3 DEF Loaded, Modules
  <1>9. ASSUME lost = {}, NEW t \in Overlays, ~Loaded(t)'
        PROVE  link'[Main][t] = Unlinked
    <2>1. CASE t \in gone
      BY <1>6, <2>1
    <2>2. CASE t \notin gone
      <3>1. ~Loaded(t)
        BY <1>3, <1>9, <2>2 DEF Loaded
      <3> QED BY <1>6, <1>9, <2>2, <3>1 DEF IInv, MainIsLinked
    <2> QED BY <2>1, <2>2
  <1>10. ASSUME lost = {}, NEW t \in Overlays, Loaded(t)'
         PROVE  /\ pool'[VramBase'[t]] = t
                /\ \A m \in Modules \ {t}, k \in Kinds :
                     (m = Main \/ (Loaded(m)' /\ k # "address")) => link'[m][t][k] = VramBase'[t]
    <2>1. /\ t \notin gone /\ VramBase'[t] = VramBase[t]
          /\ Loaded(t) /\ VramBase[t] \in Places
      BY <1>1, <1>3, <1>10 DEF Loaded
    <2>2. pool[VramBase[t]] = t
      BY <1>10, <2>1 DEF IInv, MainIsLinked
    <2>3. ASSUME NEW u \in gone, VramBase[u] = VramBase[t]
          PROVE  FALSE
      <3>1. Loaded(u) /\ u \in Overlays
        BY <1>1, <2>1, <2>3, LinkAssumption DEF Loaded
      <3>2. pool[VramBase[u]] = u
        BY <1>10, <3>1 DEF IInv, MainIsLinked
      <3> QED BY <2>1, <2>2, <2>3, <3>2
    <2>4. pool'[VramBase'[t]] = t
      BY <1>3, <2>1, <2>2, <2>3
    <2>5. \A m \in Modules \ {t}, k \in Kinds :
            (m = Main \/ (Loaded(m) /\ k # "address")) => link[m][t][k] = VramBase[t]
      BY <1>10, <2>1 DEF IInv, MainIsLinked
    <2>6. \A m \in Modules : link'[m][t] = link[m][t]
      BY <1>6, <2>1
    <2> QED BY <1>8, <2>1, <2>4, <2>5, <2>6
  <1>11. MainIsLinked'
    <2> HIDE DEF mains
    <2> SUFFICES ASSUME lost' = {}, NEW t \in Overlays
                 PROVE  IF ~Loaded(t)' THEN link'[Main][t] = Unlinked
                        ELSE /\ pool'[VramBase'[t]] = t
                             /\ \A m \in Modules \ {t}, k \in Kinds :
                                  (m = Main \/ (Loaded(m)' /\ k # "address"))
                                    => link'[m][t][k] = VramBase'[t]
      BY DEF MainIsLinked
    <2>1. lost = {}
      BY <1>3
    <2> QED BY <1>9, <1>10, <2>1
  <1> QED BY <1>7, <1>11 DEF IInv

\* Every step of the linker.
LEMMA NextIInv == IInv /\ [LinkNext]_linkVars => IInv'
  <1> SUFFICES ASSUME IInv, [LinkNext]_linkVars PROVE IInv'
    OBVIOUS
  <1>1. ASSUME NEW o \in Overlays, runlinkDownloadCode(o) PROVE IInv'
    BY <1>1, DownloadKeepsIInv, FailureKeepsIInv DEF runlinkDownloadCode
  <1>2. ASSUME NEW o \in Overlays, runlinkUnloadOverlay(o) PROVE IInv'
    <2>1. {o} \in SUBSET Overlays /\ Unload({o})
      BY <1>2 DEF runlinkUnloadOverlay
    <2> QED BY <2>1, UnloadKeepsIInv
  <1>3. ASSUME NEW o \in Overlays, NEW on \in BOOLEAN, SetDestructTimer(o, on) PROVE IInv'
    BY <1>3, TimerKeepsIInv
  <1>4. CASE runlinkLowMemoryPanic
    <2> DEFINE gone == {o \in Overlays : timers[o] /\ Loaded(o)}
    <2>1. gone \in SUBSET Overlays /\ Unload(gone)
      BY <1>4 DEF runlinkLowMemoryPanic
    <2> HIDE DEF gone
    <2> QED BY <2>1, UnloadKeepsIInv
  <1>5. CASE UNCHANGED linkVars
    BY <1>5 DEF linkVars, IInv, LinkTypeOK, MainIsLinked, Loaded
  <1> QED BY <1>1, <1>2, <1>3, <1>4, <1>5 DEF LinkNext

\* runLink.c's tables stay well formed in every order of loads, failed loads,
\* unloads and panics.
THEOREM LinkTypes == LinkSpec => []LinkTypeOK
  <1>1. IInv => LinkTypeOK
    BY DEF IInv
  <1> QED BY <1>1, InitIInv, NextIInv, PTL DEF LinkSpec

\* runLink.c:12 and 627: whatever is loaded and unloaded, for any number of
\* overlays and places, as long as no load failed halfway the main module calls
\* an overlay where it lies, and the trap when it does not.
THEOREM MainStaysLinked == LinkSpec => []MainIsLinked
  <1>1. IInv => MainIsLinked
    BY DEF IInv
  <1> QED BY <1>1, InitIInv, NextIInv, PTL DEF LinkSpec
=============================================================================
