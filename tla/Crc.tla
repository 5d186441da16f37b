-------------------------------- MODULE Crc --------------------------------
(***************************************************************************)
(* The checksums of the controller pak, libultra's crc.c: 5 bits for the   *)
(* address of a block, 8 bits for its data.  Both shift a message through  *)
(* a register bit by bit, most significant first, with as many zeros       *)
(* behind it as the checksum has bits, and take away the generator         *)
(* whenever a bit leaves the register's top.  A number is the set of its   *)
(* one bits; exclusive or is symmetric difference.                         *)
(***************************************************************************)
EXTENDS Integers, FiniteSetsExt

CONSTANTS
  AddressBits,   \* bits of an address that are looked at (11: the mask is 0x400)
  DataBytes,     \* bytes of a block (32)
  DataBlocks     \* blocks that are looked at: the sets of their one bits

ASSUME CrcAssumption ==
  /\ {AddressBits, DataBytes} \subseteq Nat \ {0}
  /\ DataBlocks \subseteq SUBSET (0..(8 * DataBytes - 1))

VARIABLES
  crcOf,    \* which checksum, and of which message; kind "none" between calls
  temp,     \* the register
  bitsLeft  \* turns of the loop still to come

crcVars == <<crcOf, temp, bitsLeft>>

Checksums == {"address", "data"}

Width(kind) == IF kind = "address" THEN 5 ELSE 8
Length(kind) == IF kind = "address" THEN AddressBits ELSE 8 * DataBytes

\* 0x15 and 0x85: the generator without its leading term.
Generator(kind) == IF kind = "address" THEN {4, 2, 0} ELSE {7, 2, 0}

Messages(kind) == IF kind = "address" THEN SUBSET (0..(AddressBits - 1)) ELSE DataBlocks

NoCall == [kind |-> "none", message |-> {}]

Times(p, n) == {e + n : e \in p}

-----------------------------------------------------------------------------
\* __osContAddressCrc or __osContDataCrc is called.
Call ==
  /\ crcOf = NoCall
  /\ \E kind \in Checksums : \E message \in Messages(kind) :
       /\ crcOf' = [kind |-> kind, message |-> message]
       /\ bitsLeft' = Length(kind) + Width(kind)
  /\ temp' = {}

\* Mutant: the zeros behind the message are left out.
ShiftMessage ==
  LET kind == crcOf.kind
      top  == Width(kind) - 1
      in   == IF bitsLeft - 1 - Width(kind) \in crcOf.message THEN {0} ELSE {}
      out  == IF top \in temp THEN Generator(kind) ELSE {}
  IN  /\ bitsLeft > 0
      /\ temp' = IF bitsLeft > Width(kind) THEN SymDiff((Times(temp, 1) \cap (0..7)) \cup in, out)
                 ELSE temp
      /\ bitsLeft' = bitsLeft - 1
      /\ UNCHANGED crcOf

\* One turn.  The register is a byte: of an address' checksum the bits above
\* the fifth stay in it until they are shifted out.
Shift ==
  LET kind == crcOf.kind
      top  == Width(kind) - 1
      in   == IF bitsLeft - 1 - Width(kind) \in crcOf.message THEN {0} ELSE {}
      out  == IF top \in temp THEN Generator(kind) ELSE {}
  IN  /\ bitsLeft > 0
      /\ temp' = SymDiff((Times(temp, 1) \cap (0..7)) \cup in, out)
      /\ bitsLeft' = bitsLeft - 1
      /\ UNCHANGED crcOf

\* What is returned.
Checksum == temp \cap (0..(Width(crcOf.kind) - 1))

Return ==
  /\ crcOf # NoCall /\ bitsLeft = 0
  /\ crcOf' = NoCall
  /\ temp' = {}
  /\ UNCHANGED bitsLeft

-----------------------------------------------------------------------------
CrcInit == crcOf = NoCall /\ temp = {} /\ bitsLeft = 0

CrcNext == Call \/ Shift \/ Return

-----------------------------------------------------------------------------
CrcTypeOK ==
  /\ crcOf # NoCall => crcOf.kind \in Checksums /\ crcOf.message \in Messages(crcOf.kind)
  /\ temp \subseteq 0..7
  /\ bitsLeft \in 0..(IF crcOf = NoCall THEN 0 ELSE Length(crcOf.kind) + Width(crcOf.kind))

\* A remainder by the whole generator, times x: less the generator when that
\* reaches its degree.
TimesX(kind, r) ==
  IF Width(kind) - 1 \in r THEN SymDiff(Times(r, 1), Generator(kind) \cup {Width(kind)})
  ELSE Times(r, 1)

\* The remainder of x^d.
Residue(kind) ==
  LET rem[d \in 0..(Length(kind) + Width(kind))] ==
        IF d = 0 THEN {0} ELSE TimesX(kind, rem[d - 1])
  IN  rem

\* crc.c:31: the checksum of a message m is the remainder of m(x) x^n by the
\* generator, so that a message with its checksum behind it leaves none: the bit
\* by bit register, with its byte of width, computes the sum of the remainders of
\* the message's powers.
CrcIsRemainder ==
  crcOf # NoCall /\ bitsLeft = 0 =>
    Checksum = {e \in 0..(Width(crcOf.kind) - 1) :
                  Cardinality({b \in crcOf.message :
                    e \in Residue(crcOf.kind)[b + Width(crcOf.kind)]}) % 2 = 1}
=============================================================================
