------------------------------- MODULE RdsBits -------------------------------
(***************************************************************************)
(* RdsBitsDecoder picks one of every Divider zero crossings of the pilot   *)
(* as the clock of a symbol; RdsGroupsDecoder looks for groups of four     *)
(* blocks in the bits.                                                     *)
(*                                                                         *)
(* A bit of the first is represented by the number of the crossing it was  *)
(* read at, a group of the second by the places of the bits in it.  The    *)
(* magnitudes that decide which clock is the best, and what the corrector  *)
(* says of a block, are left open; what it says is looked at for one group *)
(* (Air).  The counts of the bits are BlockBits for 26, and MaxFailed for  *)
(* 32.                                                                     *)
(***************************************************************************)
EXTENDS RdsCorrector

CONSTANTS Divider,     \* FrequencyDivider
          BlockBits,   \* BlockBitsCount
          MaxFailed    \* MaxFailedBlocks

ASSUME RdsBitsAssumption ==
  /\ Divider \in Nat \ {0} /\ BlockBits \in Nat \ {0} /\ MaxFailed \in Nat

VARIABLES
  crossings,     \* history: zero crossings since reset()
  clock,         \* clock_counter_
  passed,        \* clocks_passed_
  best,          \* best_clock_
  blocks,        \* the bits in blocks_, from the first block to the last
  accumulated,   \* accumulated_bits_
  failed_blocks, \* recent_failed_blocks_
  synced,        \* synced_
  skipped        \* stats_.skipped_bits

rdsVars == <<crossings, clock, passed, best, blocks, accumulated, failed_blocks, synced, skipped>>

GroupBits == 4 * BlockBits
Foreign == -1   \* a bit that is not from the stream since reset()

RdsInit ==
  /\ crossings = 0 /\ clock = 0 /\ passed = Divider /\ best = 0
  /\ blocks = [i \in 1..GroupBits |-> Foreign]
  /\ accumulated = 0 /\ failed_blocks = 0 /\ synced = FALSE /\ skipped = 0

\* Of the blocks only three are cleared; the magnitudes are not.
RdsReset ==
  /\ crossings' = 0 /\ clock' = 0 /\ passed' = Divider /\ best' = 0
  /\ blocks' = [i \in 1..GroupBits |-> Foreign]
  /\ accumulated' = 0 /\ failed_blocks' = 0 /\ synced' = FALSE /\ skipped' = 0

-----------------------------------------------------------------------------
Decoding == pc = "loop" /\ input_index < given /\ output_index < room

NoCrossing ==
  /\ Decoding
  /\ Emit(<<>>, 1)
  /\ UNCHANGED <<pc, checked, rdsVars>>

SymbolNow == clock = best /\ passed > Divider \div 2

Crossing ==
  /\ Decoding
  /\ Emit(IF SymbolNow THEN <<crossings>> ELSE <<>>, 1)
  /\ crossings' = crossings + 1
  /\ passed' = (IF SymbolNow THEN 0 ELSE passed) + 1
  /\ clock' = (clock + 1) % Divider
  /\ IF clock + 1 = Divider THEN best' \in 0..(Divider - 1) ELSE UNCHANGED best
  /\ UNCHANGED <<pc, checked, blocks, accumulated, failed_blocks, synced, skipped>>

BitsDone ==
  /\ pc = "loop" /\ ~Decoding
  /\ Return
  /\ UNCHANGED <<checked, rdsVars>>

-----------------------------------------------------------------------------
\* addData and, when there may be a group, extractInfo for its blocks.
Shifted == Append(Tail(blocks), taken + input_index)

\* A group is found, with these numbers of valid and corrected blocks; when it is
\* due, a whole number of groups after the last one, with fewer of them.
InSync(valid, corrected, due) ==
  \/ corrected + valid >= 4 /\ valid >= 2
  \/ due /\ corrected + valid >= 3 /\ valid >= 1

Bit ==
  /\ Decoding
  /\ blocks' = Shifted
  /\ \/ /\ accumulated + 1 < GroupBits
        /\ accumulated' = accumulated + 1
        /\ Emit(<<>>, 1)
        /\ UNCHANGED <<failed_blocks, synced, skipped>>
     \/ /\ accumulated + 1 >= GroupBits
        /\ \E valid, corrected \in 0..4 :
             /\ valid + corrected <= 4
             /\ LET whole == (accumulated + 1) % GroupBits = 0
                    due == synced /\ whole
                    failures == IF ~due THEN failed_blocks
                                ELSE IF valid > 0 THEN 0
                                ELSE failed_blocks + (4 - valid - corrected)
                    still == synced /\ ~(due /\ failures > MaxFailed)
                IN /\ failed_blocks' = failures
                   /\ IF InSync(valid, corrected, still /\ whole)
                      THEN /\ Emit(<<blocks'>>, 1)
                           /\ skipped' = skipped + accumulated + 1 - GroupBits
                           /\ accumulated' = 0
                           /\ synced' = TRUE
                      ELSE /\ Emit(<<>>, 1)
                           /\ accumulated' = accumulated + 1
                           /\ synced' = still
                           /\ UNCHANGED skipped
  /\ UNCHANGED <<pc, checked, crossings, clock, passed, best>>

\* The last bit of a group that is due arrives, after one burst of errors in the
\* group; one group is enough, since nothing else of a group is kept.
Air ==
  /\ Decoding
  /\ \E info \in Infos, start \in 0..(4 * CodeBits - 1), burst \in Bursts :
       \E e \in {Extracted(Received(info, start, burst))} :
         Emit(IF InSync(Count(e.counted, Valid), Count(e.counted, Corrected), TRUE)
              THEN <<[sent |-> info, burst |-> burst, group |-> e.group]>>
              ELSE <<>>,
              1)
  /\ UNCHANGED <<pc, checked, rdsVars>>
=============================================================================
