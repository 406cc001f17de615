------------------------------ MODULE FftFilter ------------------------------
(***************************************************************************)
(* FftFilter: convolution by blocks.  Of a convolved block the first       *)
(* Shift elements are garbage, and OutputBlock are results.  Without       *)
(* decimation the blocks are convolved from the last to the first, right   *)
(* into the output where they fit.                                         *)
(***************************************************************************)
EXTENDS Samplers

CONSTANTS OutputBlock,   \* output_block_size_
          Shift          \* block_shift_

ASSUME FftAssumption == OutputBlock \in Nat \ {0} /\ Shift \in Nat

VARIABLES cells,       \* the output slice, as far as it has been written
          until,       \* input_data_size - block_shift_
          at,          \* input_index, without decimation
          aligned,     \* isPointerAligned(&output_data[0])
          fft_skip     \* remaining_skip_

fftVars == <<cells, until, at, aligned, fft_skip>>

Garbage == -1

FftInit == cells = <<>> /\ until = 0 /\ at = 0 /\ aligned = TRUE /\ fft_skip = 0

FftReset == fft_skip' = 0 /\ UNCHANGED <<cells, until, at, aligned>>

-----------------------------------------------------------------------------
\* Without decimation.  Blocks that do not fit are convolved aside and copied.
FftStart ==
  /\ pc = "loop"
  /\ until' = Least(RoundDown(given, OutputBlock), RoundDown(room, OutputBlock))
  /\ checked' = (checked /\ until' >= OutputBlock)
  /\ cells' = [i \in 1..until' |-> Garbage]
  /\ at' = until' - OutputBlock
  /\ aligned' \in BOOLEAN
  /\ pc' = "convolve"
  /\ UNCHANGED <<kind, taken, made, given, room, input_index, output_index, fft_skip>>

Direct == aligned /\ at >= Shift

Convolve ==
  /\ pc = "convolve" /\ at >= 0
  /\ cells' = [i \in DOMAIN cells |->
                 IF i - 1 \in at..(at + OutputBlock - 1) THEN taken + i - 1
                 ELSE IF Direct /\ i - 1 \in (at - Shift)..(at - 1) THEN Garbage ELSE cells[i]]
  /\ at' = at - OutputBlock
  /\ UNCHANGED <<sliceVars, until, aligned, fft_skip>>

Convolved ==
  /\ pc = "convolve" /\ at < 0
  /\ Emit(cells, until)
  /\ pc' = "leave"
  /\ cells' = <<>> /\ until' = 0 /\ at' = 0 /\ aligned' = TRUE
  /\ UNCHANGED <<checked, fft_skip>>

-----------------------------------------------------------------------------
\* With decimation.  The outputs are counted, and written, before their number
\* is CHECKed against the room; then the program is aborted.
DecimateStart ==
  /\ pc = "loop"
  /\ until' = Least(RoundDown(given, OutputBlock),
                    RoundDown(room * Rate + fft_skip + Rate - 1, OutputBlock))
  /\ checked' = (checked /\ until' >= OutputBlock)
  /\ pc' = "decimate"
  /\ UNCHANGED <<kind, taken, made, given, room, input_index, output_index,
                 cells, at, aligned, fft_skip>>

(* Mutant: every block starts with an output.                              *)
SkipForgotten(n) == 0

SkipAfter(n) == fft_skip + n * Rate - OutputBlock

DecimateBlock ==
  /\ pc = "decimate" /\ input_index < until
  /\ LET n == IF fft_skip < OutputBlock THEN (OutputBlock - fft_skip - 1) \div Rate + 1 ELSE 0
     IN /\ Emit([k \in 1..n |-> taken + input_index + fft_skip + (k - 1) * Rate], OutputBlock)
        /\ fft_skip' = SkipAfter(n)
  /\ UNCHANGED <<pc, checked, cells, until, at, aligned>>

Decimated ==
  /\ pc = "decimate" /\ input_index = until
  /\ pc' = IF output_index <= room THEN "leave" ELSE "aborted"
  /\ UNCHANGED <<kind, taken, made, given, room, input_index, output_index, checked, fftVars>>
=============================================================================
