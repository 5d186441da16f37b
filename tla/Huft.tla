-------------------------------- MODULE Huft --------------------------------
(***************************************************************************)
(* The decoding tables of rzip.c: huft_build takes the length of each      *)
(* symbol's code and makes the tables the inflater looks its input up in,  *)
(* l bits of it at a time; codes longer than that go through further       *)
(* tables, each just large enough for the codes that share its prefix.     *)
(* Codes are kept bit reversed, as the input delivers them.  What a symbol *)
(* means (a byte, an end, a length or a distance to look up) is left out.  *)
(***************************************************************************)
EXTENDS Integers, Sequences, FiniteSetsExt

CONSTANTS
  Codes,      \* n, the number of symbols (up to N_MAX)
  MaxLength,  \* of a code (BMAX, 16)
  Asked       \* the table sizes callers ask for (9, 6 and 7 bits)

\* A table whose first code is l bits deep and that is not full of such codes would
\* come out larger than l bits; it takes more than 2^l + l codes to need one (the
\* game's are 288 for 9 bits, 30 for 6 and 19 for 7).
ASSUME HuftAssumption ==
  /\ {Codes, MaxLength} \cup Asked \subseteq Nat \ {0}
  /\ \A bits \in Asked : Codes <= 2^bits + bits

Symbols == 0..(Codes - 1)

VARIABLES
  b,          \* the length of each symbol's code, 0 when it is not used
  l,          \* bits looked up in the first table
  code,       \* i, the next code, reversed
  k,          \* its length
  left,       \* codes of that length still to place (a + 1)
  taken,      \* values placed (p - v)
  levels,     \* the tables on the way to the code: u[] with x[]
  q,          \* the table made last, and its z
  rzip_hufts  \* the entries handed out

huftVars == <<b, l, code, k, left, taken, levels, q, rzip_hufts>>

Used == {s \in Symbols : b[s] > 0}
Lengths == {b[s] : s \in Used}
g == IF Used = {} THEN 0 ELSE Max(Lengths)

\* y: the codes of the greatest length no symbol has.
Dummies(f) ==
  LET u == {s \in Symbols : f[s] > 0}
      m == IF u = {} THEN 0 ELSE Max({f[s] : s \in u})
  IN  2^m - MapThenSumSet(LAMBDA s : 2^(m - f[s]), u)

\* c[].
Count(j) == Cardinality({s \in Symbols : b[s] = j}) + (IF j = g THEN Dummies(b) ELSE 0)

\* v[]: the used symbols by length, then by value.
Before(s, u) == b[s] < b[u] \/ (b[s] = b[u] /\ s < u)
Rank(s) == Cardinality({u \in Used : Before(u, s)})

\* Beyond the used symbols v[] holds whatever the stack held, up to its n-th.
NoEntry == [kind |-> "none", bits |-> 0, v |-> 0, z |-> 0]
Entry(bits) ==
  IF taken < Cardinality(Used)
  THEN [kind |-> "value", bits |-> bits, v |-> CHOOSE s \in Used : Rank(s) = taken, z |-> 0]
  ELSE [kind |-> IF taken < Codes THEN "garbage" ELSE "invalid", bits |-> bits, v |-> 0, z |-> 0]

-----------------------------------------------------------------------------
Least(S) == CHOOSE j \in S : \A m \in S : j <= m

\* The data of a block gives lengths that leave no code out or are all the same.
Legal(f) ==
  /\ {s \in Symbols : f[s] > 0} # {}
  /\ Dummies(f) = 0 \/ (Dummies(f) > 0 /\ Cardinality({f[s] : s \in Symbols} \ {0}) = 1)

\* huft_build is called; rzip_hufts is 0.  Without used symbols it does nothing.
Begin ==
  /\ left = 0 /\ rzip_hufts = <<>>
  /\ \E f \in {f \in [Symbols -> 0..MaxLength] : Legal(f)}, bits \in Asked :
       LET lens == {f[s] : s \in Symbols} \ {0}
           low  == Least(lens)
       IN  /\ b' = f
           /\ l' = IF bits < low THEN low ELSE IF bits > Max(lens) THEN Max(lens) ELSE bits
           /\ k' = low
           /\ left' = Cardinality({s \in Symbols : f[s] = low})
                        + (IF low = Max(lens) THEN Dummies(f) ELSE 0)
  /\ code' = 0 /\ taken' = 0 /\ levels' = <<>>
  /\ UNCHANGED <<q, rzip_hufts>>

\* Whether the codes still to come fill a table of j bits below w.
Fills(j, w) ==
  2^j <= left * 2^(w + j - k) + MapThenSumSet(LAMBDA m : Count(m) * 2^(w + j - m), (k + 1)..(w + j))

\* The code is longer than the tables so far reach: one more, of as few bits as
\* its codes need and at most l, behind a link of its own; the table before
\* leads to it.
NewTable ==
  LET w     == Len(levels) * l
      limit == IF g - w > l THEN l ELSE g - w
      j     == Least({m \in (k - w)..MaxLength : Fills(m, w) \/ (m > k - w /\ m >= limit)})
      at    == Len(rzip_hufts) + 2
      slot  == levels[Len(levels)].at + code \div 2^(w - l)
      below == [kind |-> "table", bits |-> l, v |-> at, z |-> j]
      old   == IF w = 0 THEN rzip_hufts ELSE [rzip_hufts EXCEPT ![slot] = below]
  IN  /\ left > 0 /\ k > w
      /\ rzip_hufts' = old \o [e \in 1..(2^j + 1) |-> NoEntry]
      /\ q' = [at |-> at, z |-> 2^j]
      /\ levels' = Append(levels, [at |-> at, x |-> IF w = 0 THEN 0 ELSE code])
      /\ UNCHANGED <<b, l, code, k, left, taken>>

\* The reversed code after i: its top ones are cleared, its top zero is set.
NextCode(i) ==
  LET zeros == {j \in 0..(k - 1) : (i \div 2^j) % 2 = 0}
  IN  IF zeros = {} THEN 0 ELSE (i % 2^Max(zeros)) + 2^Max(zeros)

\* Mutant: finished tables are not left.
NotBacked(i) == levels

\* Back over the tables that are finished.
Backed(i) ==
  SubSeq(levels, 1, Max({h \in 1..Len(levels) : i % 2^((h - 1) * l) = levels[h].x}))

\* The code is entered wherever its bits are followed by others, and the next
\* one is made; after the last of a length come those of the next.
Place ==
  LET w     == (Len(levels) - 1) * l
      slots == {q.at + j : j \in {m \in 0..(q.z - 1) :
                  m >= code \div 2^w /\ (m - code \div 2^w) % 2^(k - w) = 0}}
      later == {m \in Lengths : m > k}
  IN  /\ left > 0 /\ k <= w + l
      /\ rzip_hufts' = [e \in DOMAIN rzip_hufts |->
                         IF e \in slots THEN Entry(k - w) ELSE rzip_hufts[e]]
      /\ taken' = IF taken < Codes THEN taken + 1 ELSE taken
      /\ code' = NextCode(code)
      /\ levels' = Backed(NextCode(code))
      /\ IF left > 1 \/ later = {} THEN left' = left - 1 /\ UNCHANGED k
         ELSE k' = Least(later) /\ left' = Count(Least(later))
      /\ UNCHANGED <<b, l, q>>

\* The inflater is done with the tables of this block.
Release ==
  /\ left = 0 /\ rzip_hufts # <<>>
  /\ b' = [s \in Symbols |-> 0] /\ rzip_hufts' = <<>> /\ levels' = <<>>
  /\ l' = 0 /\ code' = 0 /\ k' = 0 /\ taken' = 0 /\ q' = [at |-> 0, z |-> 0]
  /\ UNCHANGED left

-----------------------------------------------------------------------------
HuftInit ==
  /\ b = [s \in Symbols |-> 0] /\ l = 0
  /\ code = 0 /\ k = 0 /\ left = 0 /\ taken = 0
  /\ levels = <<>> /\ q = [at |-> 0, z |-> 0] /\ rzip_hufts = <<>>

HuftNext == Begin \/ NewTable \/ Place \/ Release

-----------------------------------------------------------------------------
HuftTypeOK ==
  /\ b \in [Symbols -> 0..MaxLength]
  /\ l \in 0..MaxLength /\ k \in 0..MaxLength /\ code \in 0..(2^MaxLength - 1)
  /\ left \in 0..(2^MaxLength) /\ taken \in 0..Codes
  /\ \A h \in DOMAIN levels : levels[h].at + 1 \in DOMAIN rzip_hufts

\* The entry the inflater ends at for an input, and the bits it used.
Decoded(input) ==
  LET walk[d \in 0..MaxLength] ==
        IF d = 0 THEN [e |-> [kind |-> "table", bits |-> 0, v |-> 2, z |-> l], used |-> 0]
        ELSE LET on   == walk[d - 1]
                 used == on.used + on.e.bits
             IN  IF on.e.kind # "table" THEN on
                 ELSE [e    |-> rzip_hufts[on.e.v + ((input \div 2^used) % 2^on.e.z)],
                       used |-> used]
      last == walk[MaxLength]
  IN  [kind |-> last.e.kind, v |-> last.e.v, bits |-> last.used + last.e.bits]

\* RFC 1951: a symbol's code is the sum of what those before it take, and is sent
\* with its first bit lowest.
Canonical(s) ==
  MapThenSumSet(LAMBDA u : 2^(b[s] - b[u]), {u \in Used : Before(u, s)})
Begins(s, input) ==
  \A j \in 0..(b[s] - 1) :
    (input \div 2^j) % 2 = (Canonical(s) \div 2^(b[s] - 1 - j)) % 2

\* rzip.c:60: whatever follows a symbol's code, the tables lead from it to that
\* symbol and use up its bits and no more, and every other input leads to an
\* entry made for no symbol: no entry is left unwritten, none is written over,
\* no table is too small for the codes below it.
TablesDecode ==
  left = 0 /\ rzip_hufts # <<>> =>
    \A input \in 0..(2^g - 1) :
      LET found == Decoded(input)
          whose == {s \in Used : Begins(s, input)}
      IN  IF whose = {} THEN found.kind \in {"garbage", "invalid"}
          ELSE found.kind = "value" /\ found.v \in whose /\ found.bits = b[found.v]
=============================================================================
