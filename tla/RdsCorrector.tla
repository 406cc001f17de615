---------------------------- MODULE RdsCorrector -----------------------------
(***************************************************************************)
(* The code that guards the blocks of an RDS group, and what               *)
(* RdsGroupsDecoder makes of a group that is received with errors.  A word *)
(* of bits is the set of the places of its ones, 0 being the lowest, so    *)
(* that the sum of two words is their symmetric difference.                *)
(***************************************************************************)
EXTENDS Slices, FiniteSets

Ext == INSTANCE FiniteSetsExt
Sum(a, b) == Ext!SymDiff(a, b)

CONSTANT Infos,   \* groups that are sent: four words of information bits
         Bursts   \* errors: sets of distances from the first wrong bit

InfoBits == 16
ParityBits == 10
CodeBits == InfoBits + ParityBits

ASSUME CorrectorAssumption ==
  /\ \A info \in Infos : DOMAIN info = 0..3 /\ \A b \in 0..3 : info[b] \subseteq 0..(InfoBits - 1)
  /\ \A burst \in Bursts : 0 \in burst /\ burst \subseteq 0..(CodeBits - 1)

Generator == {0, 3, 4, 5, 7, 8, 10}
Poly == {0, 1, 3, 4, 8, 9}
Trap == 0..4

Offsets == <<{2, 3, 4, 5, 6, 7}, {3, 4, 7, 8}, {3, 5, 6, 8}, {2, 4, 5, 7, 8}>>
OffsetVersionB == {4, 6, 8, 9}

-----------------------------------------------------------------------------
\* The remainder after one more bit, which contributes term to it.
Step(remainder, term) ==
  LET sum == Sum({i + 1 : i \in remainder}, term)
  IN IF ParityBits \in sum THEN Sum(sum, Generator) ELSE sum

\* The division of word * term by the generator, from the highest bit on.
Division(word, bits, term) ==
  LET rest[n \in 0..bits] ==
        IF n = 0 THEN {} ELSE Step(rest[n - 1], IF bits - n \in word THEN term ELSE {})
  IN rest

Remainder(word, bits, term) == Division(word, bits, term)[bits]

Parity(info) == Remainder(info, InfoBits, {ParityBits})
Syndrome(block) == Remainder(block, CodeBits, Poly)

Encode(info, offset) == {i + ParityBits : i \in info} \cup Sum(Parity(info), offset)

InfoOf(block) == {i - ParityBits : i \in {j \in block : j >= ParityBits}}

-----------------------------------------------------------------------------
\* decodeRdsBlock.
Uncorrectable == 0
Corrected == 1
Valid == 2

Unknown == [status |-> Uncorrectable, data |-> {}]

\* The block is rotated until the errors are trapped in the highest bits.
Rotate(word, i) ==
  IF word.rest \cap Trap = {} THEN word ELSE [times |-> i, rest |-> Step(word.rest, {})]

Rotation(syndrome) ==
  LET rotated[i \in 0..CodeBits] ==
        IF i = 0 THEN [times |-> 0, rest |-> syndrome] ELSE Rotate(rotated[i - 1], i)
  IN rotated

\* The errors, none when no rotation has trapped them.
Trapped(syndrome) ==
  LET word == Rotation(syndrome)[CodeBits]
  IN IF word.times = CodeBits THEN {}
     ELSE {(b + InfoBits - word.times) % CodeBits : b \in word.rest}

DecodeBlock(received, offset) ==
  LET block == Sum(received, offset)
      syndrome == Syndrome(block)
      errors == Trapped(syndrome)
      corrected == Sum(block, errors)
  IN IF syndrome = {}
     THEN [status |-> Valid, data |-> InfoOf(block)]
     ELSE IF errors = {} \/ Syndrome(corrected) # {} \/ errors \cap 0..(ParityBits - 1) # {}
          THEN Unknown
          ELSE [status |-> Corrected, data |-> InfoOf(corrected)]

-----------------------------------------------------------------------------
\* The third block is of either version, and the second one says of which: when
\* they disagree, the weaker of them, or else the second one, is not believed.
VersionBit == 11

\* The group, and the statuses that are counted: the second block has been
\* counted before the third one is looked at.
Extracted(received) ==
  LET first == DecodeBlock(received[0], Offsets[1])
      second == DecodeBlock(received[1], Offsets[2])
      versionA == DecodeBlock(received[2], Offsets[3])
      versionB == DecodeBlock(received[2], OffsetVersionB)
      isB == versionB.status >= versionA.status
      third == IF isB THEN versionB ELSE versionA
      fourth == DecodeBlock(received[3], Offsets[4])
      doubt == /\ third.status # Uncorrectable /\ second.status # Uncorrectable
               /\ (VersionBit \in second.data) # isB
      secondLoses == doubt /\ second.status <= third.status
      left == IF doubt /\ ~secondLoses THEN Uncorrectable ELSE third.status
  IN [group |-> <<first,
                  IF secondLoses THEN [second EXCEPT !.status = Uncorrectable] ELSE second,
                  [third EXCEPT !.status = left],
                  fourth>>,
      counted |-> <<first.status, second.status, left, fourth.status>>]

Count(statuses, status) == Cardinality({b \in 1..4 : statuses[b] = status})

-----------------------------------------------------------------------------
\* A group is sent, and received with one burst of errors.  Bits are sent from
\* the highest one on, block after block.
SentBlock(info, b) ==
  Encode(info[b], IF b = 2 /\ VersionBit \in info[1] THEN OffsetVersionB ELSE Offsets[b + 1])

Hit(b, start, burst) ==
  {CodeBits - 1 - (p - CodeBits * b) : p \in {q \in {start + d : d \in burst} : q \div CodeBits = b}}

Received(info, start, burst) == [b \in 0..3 |-> Sum(SentBlock(info, b), Hit(b, start, burst))]
=============================================================================
