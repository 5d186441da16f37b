------------------------------ MODULE Dialogue ------------------------------
(***************************************************************************)
(* The strings of the dialogue windows, font.c: 32 slots shared by all     *)
(* windows, each window with a linked list of those it shows, in           *)
(* descending order of the number that is drawn with the text.  A slot has *)
(* no other mark of being free than the number 255, which no caller may    *)
(* therefore pass.  Positions, colours and fonts are left out.             *)
(***************************************************************************)
EXTENDS Naturals, FiniteSets

CONSTANTS
  Windows,       \* the dialogue windows (8)
  StringCount,   \* slots (32)
  Numbers        \* numbers callers pass

DIALOGUE_NUM_NULL == 255
Strings == 1..StringCount
NoString == 0

ASSUME DialogueAssumption ==
  /\ StringCount \in Nat
  /\ Numbers \subseteq 0..(DIALOGUE_NUM_NULL - 1)

VARIABLES
  number,    \* of each slot
  nextBox,   \* of each slot
  textBox    \* of each window, the first of its list

dialogueVars == <<number, nextBox, textBox>>

FreeStrings == {s \in Strings : number[s] = DIALOGUE_NUM_NULL}

\* What a walk from s along slots of P passes.
Along(s, P) ==
  {u \in P : \A T \in SUBSET P :
     (s \in P => s \in T) /\ (\A v \in T : nextBox[v] \in P => nextBox[v] \in T) => u \in T}

Shown(w) == Along(textBox[w], Strings)

-----------------------------------------------------------------------------
\* Mutant: the slot keeps the link it had in its last list when it is put last.
AddKeepsLink(w, n) ==
  LET s      == CHOOSE s \in FreeStrings : \A u \in FreeStrings : s <= u
      before == Along(textBox[w], {u \in Strings : number[u] > n})
      prev   == CHOOSE u \in before : nextBox[u] \notin before
      rest   == IF before = {} THEN textBox[w] ELSE nextBox[prev]
  IN  /\ FreeStrings # {}
      /\ textBox' = IF before = {} THEN [textBox EXCEPT ![w] = s] ELSE textBox
      /\ nextBox' = [u \in Strings |-> IF u = s /\ rest # NoString THEN rest
                                       ELSE IF u \in before /\ u = prev THEN s ELSE nextBox[u]]
      /\ number' = [number EXCEPT ![s] = n]

\* The first free slot, if there is one, is taken.  The walk passes the strings
\* with greater numbers; the new one goes before
\* the rest.
fontWindowAddStringXY(w, n) ==
  LET s      == CHOOSE s \in FreeStrings : \A u \in FreeStrings : s <= u
      before == Along(textBox[w], {u \in Strings : number[u] > n})
      prev   == CHOOSE u \in before : nextBox[u] \notin before
      rest   == IF before = {} THEN textBox[w] ELSE nextBox[prev]
  IN  /\ FreeStrings # {}
      /\ textBox' = IF before = {} THEN [textBox EXCEPT ![w] = s] ELSE textBox
      /\ nextBox' = [u \in Strings |-> IF u = s THEN rest
                                       ELSE IF u \in before /\ u = prev THEN s ELSE nextBox[u]]
      /\ number' = [number EXCEPT ![s] = n]

\* The links of the slots given back stay as they are.
fontWindowFlushStrings(w) ==
  /\ textBox[w] # NoString
  /\ number' = [s \in Strings |-> IF s \in Shown(w) THEN DIALOGUE_NUM_NULL ELSE number[s]]
  /\ textBox' = [textBox EXCEPT ![w] = NoString]
  /\ UNCHANGED nextBox

-----------------------------------------------------------------------------
DialogueInit ==
  /\ number = [s \in Strings |-> DIALOGUE_NUM_NULL]
  /\ nextBox = [s \in Strings |-> NoString]
  /\ textBox = [w \in Windows |-> NoString]

DialogueNext ==
  \E w \in Windows :
    \/ \E n \in Numbers : fontWindowAddStringXY(w, n)
    \/ fontWindowFlushStrings(w)

-----------------------------------------------------------------------------
DialogueTypeOK ==
  /\ number \in [Strings -> 0..DIALOGUE_NUM_NULL]
  /\ nextBox \in [Strings -> Strings \cup {NoString}]
  /\ textBox \in [Windows -> Strings \cup {NoString}]

\* font.c:391 and 465: whatever is added and flushed in whatever order, over
\* stale links of earlier lists, a slot in use is in the list of one window and
\* once in it, a free one in none, and each list ends and descends: no string is
\* lost to a window, shown by two, or given away while it is shown.
StringsApart ==
  /\ \A s \in Strings :
       Cardinality({w \in Windows : s \in Shown(w)}) = (IF s \in FreeStrings THEN 0 ELSE 1)
  /\ \A w \in Windows :
       /\ \A s \in Shown(w) : nextBox[s] # NoString => number[s] >= number[nextBox[s]]
       /\ textBox[w] # NoString =>
            Cardinality({s \in Shown(w) : nextBox[s] = NoString}) = 1
       /\ \A s \in Shown(w) :
            Cardinality({u \in Shown(w) : nextBox[u] = s}) = (IF s = textBox[w] THEN 0 ELSE 1)
=============================================================================
