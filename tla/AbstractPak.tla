---------------------------- MODULE AbstractPak ----------------------------
(***************************************************************************)
(* What a controller pak promises to the game: a set of named files, in    *)
(* which a name comes or goes in one indivisible step, and only while its  *)
(* saving or its deletion has been asked for.  Power may go at any time;   *)
(* a request under way then is forgotten, done or not done, never half     *)
(* done, and no other file notices.                                        *)
(***************************************************************************)
EXTENDS FiniteSetsExt

CONSTANT Names

VARIABLES
  files,   \* the names a player finds on the pak
  asked    \* the names whose presence the request under way may change

vars == <<files, asked>>

Init ==
  /\ files = {}
  /\ asked = {}

\* A request is made: a save or a deletion of one file, or a format.
Ask ==
  /\ asked = {}
  /\ \E wanted \in SUBSET Names : asked' = wanted
  /\ UNCHANGED files

\* A file asked for comes into being, or goes, at once and only once.
Take(n) ==
  /\ n \in asked
  /\ files' = SymDiff(files, {n})
  /\ asked' \in {asked \ {n}, {}}

\* The request ends: done, failed, or cut short by a loss of power.
End ==
  /\ asked # {}
  /\ asked' = {}
  /\ UNCHANGED files

Next == Ask \/ End \/ \E n \in Names : Take(n)

Spec == Init /\ [][Next]_vars
=============================================================================
