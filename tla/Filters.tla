------------------------------- MODULE Filters -------------------------------
(***************************************************************************)
(* The filters of the receiver that keep a state from one slice to the     *)
(* next, each run by a block on slices of any sizes: what a filter makes   *)
(* of a stream must not depend on how the stream is cut.  And the graph    *)
(* that they are linked to.                                                *)
(***************************************************************************)
EXTENDS FftFilter, Devices, RdsBits, CmaEqualizer, ReceiverGraph

vars == <<sliceVars, samplerVars, fftVars, deviceVars, rdsVars, equalizerVars, graphVars>>

\* The states that the constructors set up; the sound device has as much room as
\* it has, and the source no input.
StatesOf == [
  sampler   |-> States(Rate, 1, 1, FALSE),
  windows   |-> States(1, 1, 0, FALSE),
  resampler |-> States(1, 1, 0, FALSE),
  fir       |-> States(Rate, 1, 1, FALSE),
  snr       |-> States(Rate, 1, 1, FALSE),
  demod     |-> States(1, 1, 1, FALSE),
  fft       |-> States(OutputBlock, OutputBlock, 1, FALSE),
  decimator |-> States(OutputBlock, (OutputBlock + Rate - 1) \div Rate, 1, FALSE),
  alsa      |-> States(1, 0, 0, TRUE),
  file      |-> States(0, 1, 1, TRUE),
  loop      |-> States(0, 1, 1, TRUE),
  bits      |-> States(1, 1, 0, FALSE),
  groups    |-> States(1, 1, 0, FALSE),
  air       |-> States(1, 1, 0, FALSE),
  cma       |-> States(1, 1, 1, FALSE)]

Kinds == DOMAIN StatesOf \cup {"graph"}

Init ==
  /\ kind \in Kinds
  /\ SlicesInit /\ SamplersInit /\ FftInit /\ DevicesInit /\ RdsInit /\ EqualizerInit /\ GraphInit

-----------------------------------------------------------------------------
\* A source at its end is not run again; like the samples that are taken, the
\* ones that are made are bounded.
Called ==
  /\ kind # "graph" /\ ~eof /\ Len(made) < Total
  /\ Enter(StatesOf[kind])
  /\ kind = "air" => taken = 0 /\ given' = 1 /\ room' = 1
  /\ kind = "cma" => given' <= 2 /\ room' = 2
  /\ UNCHANGED <<samplerVars, fftVars, deviceVars, rdsVars, equalizerVars, graphVars>>

Returns ==
  /\ Leave(StatesOf[kind], eof)
  /\ UNCHANGED <<samplerVars, fftVars, deviceVars, rdsVars, equalizerVars, graphVars>>

Reset ==
  /\ kind # "graph"
  /\ ResetSlices /\ SamplersReset /\ FftReset /\ DevicesReset /\ RdsReset /\ EqualizerReset
  /\ UNCHANGED graphVars

Sampling ==
  /\ \/ kind \in {"sampler", "fir"} /\ Pick
     \/ kind = "windows" /\ (SkipSamples \/ CopySamples \/ WindowDone)
     \/ kind = "resampler" /\ (NextSample \/ ApplyKernel \/ ResamplerDone)
     \/ kind = "snr" /\ (AddPower \/ SnrDone)
     \/ kind = "demod" /\ (KeepPhase \/ MeasurePhase \/ DemodulatorDone)
  /\ UNCHANGED <<fftVars, deviceVars, rdsVars, equalizerVars, graphVars>>

Convolving ==
  /\ \/ kind = "fft" /\ (FftStart \/ Convolve \/ Convolved)
     \/ kind = "decimator" /\ (DecimateStart \/ DecimateBlock \/ Decimated)
  /\ UNCHANGED <<samplerVars, deviceVars, rdsVars, equalizerVars, graphVars>>

Playing ==
  /\ kind = "alsa" /\ (AlsaWait \/ AlsaStart \/ AlsaWrite \/ AlsaWritten \/ AlsaThrows)
  /\ UNCHANGED <<samplerVars, fftVars, rdsVars, equalizerVars, graphVars>>

Reading ==
  /\ \/ kind = "file" /\ ReadFile(FALSE)
     \/ kind = "loop" /\ ReadFile(TRUE)
  /\ UNCHANGED <<samplerVars, fftVars, rdsVars, equalizerVars, graphVars>>

DecodingBits ==
  /\ \/ kind = "bits" /\ (NoCrossing \/ Crossing \/ BitsDone)
     \/ kind = "groups" /\ (Bit \/ BitsDone)
     \/ kind = "air" /\ (Air \/ BitsDone)
  /\ UNCHANGED <<samplerVars, fftVars, deviceVars, equalizerVars, graphVars>>

EqualizingTaps ==
  /\ kind = "cma" /\ (Equalize \/ Weigh \/ Adapt \/ EqualizerDone)
  /\ UNCHANGED <<samplerVars, fftVars, deviceVars, rdsVars, graphVars>>

Building ==
  /\ kind = "graph" /\ (FindFilter \/ LinkBlock)
  /\ UNCHANGED <<samplerVars, fftVars, deviceVars, rdsVars, equalizerVars>>

Next ==
  \/ Called \/ Returns \/ Reset
  \/ Sampling \/ Convolving \/ Playing \/ Reading \/ DecodingBits \/ EqualizingTaps
  \/ Building

Spec == Init /\ [][Next]_vars

-----------------------------------------------------------------------------
(* What a filter makes of the stream as a whole: its output number k, and  *)
(* the sample that this output is made for.                                *)

Whole(k) ==
  CASE kind \in {"sampler", "fir", "decimator"} -> k * Rate
    [] kind = "snr" -> LET first == Greatest(0, k * Rate - SumSize + 1)
                       IN <<k * Rate, first..(k * Rate), k * Rate - first + 1>>
    [] kind = "demod" -> <<k, IF k < SumSize THEN 0 ELSE (k - SumSize + 1) % (SkipRate + 1)>>
    [] kind = "windows" -> (k \div WindowSize) * WindowSize * Rate + (k % WindowSize)
    [] kind = "resampler" -> <<(k * Rate) \div Interpolation, (k * Rate) % Interpolation>>
    [] kind \in {"fft", "alsa", "cma"} -> k

SampleOf(out) == IF kind \in {"resampler", "snr", "demod"} THEN out[1] ELSE out

CutsDoNotShow ==
  kind \notin {"file", "loop", "bits", "groups", "air", "graph"} =>
    /\ \A k \in DOMAIN made : made[k] = Whole(k - 1)
    /\ pc = "idle" => SampleOf(Whole(Len(made))) >= taken

\* The source delivers the file in order and completely; in a loop the last
\* elements are left out, if they do not fill a slice.
FileInOrder ==
  kind \in {"file", "loop"} =>
    /\ \A k \in 1..(Len(made) - 1) :
         \/ made[k + 1] = made[k] + 1
         \/ kind = "loop" /\ made[k + 1] = 0 /\ made[k] > FileSize - 1 - MaxRoom
    /\ eof => kind = "file" /\ place = FileSize

\* Symbols are more than half a period apart, and with the clock changing at
\* will two and a half periods at most.
SymbolsApart ==
  kind = "bits" =>
    \A k \in 1..(Len(made) - 1) :
      LET gap == made[k + 1] - made[k]
      IN gap > Divider \div 2 /\ 2 * gap < 5 * Divider

\* A group is of bits that follow each other in the stream since reset(), no bit
\* is in two groups, and the ones in none are counted.
GroupsApart ==
  kind = "groups" =>
    /\ \A k \in DOMAIN made :
         /\ made[k][1] >= (IF k = 1 THEN 0 ELSE made[k - 1][GroupBits] + 1)
         /\ \A i \in 2..GroupBits : made[k][i] = made[k][i - 1] + 1
    /\ GroupBits * Len(made) + skipped + accumulated = taken + (IF pc = "idle" THEN 0 ELSE input_index)

\* A block that is said to be Valid after a burst of at most ten bits, or Corrected
\* after one of at most five, holds what was sent.  This is not so for the third
\* block when the second is not believed: of the two versions the later one is
\* preferred, and nothing contradicts it.
ReceivedAsSent ==
  kind = "air" =>
    \A k \in DOMAIN made : \A b \in 1..4 :
      LET group == made[k].group
      IN \/ group[b].data = made[k].sent[b - 1]
         \/ group[b].status = Uncorrectable
         \/ group[b].status = Valid /\ ~(made[k].burst \subseteq 0..(ParityBits - 1))
         \/ group[b].status = Corrected /\ ~(made[k].burst \subseteq 0..4)
         \/ b = 3 /\ group[2].status = Uncorrectable

\* The taps in the list are the enabled ones, in order and adjusted for the gain;
\* under them are the latest outputs, the last one first; and the decays of all
\* the samples in the sums are in the table.
Equalized ==
  kind = "cma" =>
    /\ taps.listed /\ Listed(taps)
    /\ \A k \in 0..(Enabled(taps) - 1) :
         /\ taps.adjusted[k] = taps.indices[k]
         /\ k > 0 => taps.indices[k - 1] < taps.indices[k]
    /\ \A k \in 1..Least(Len(made), TapsCount) : outputs[cursor + k] = made[Len(made) + 1 - k]
    /\ sums.samples <= MaxTapsInterval

\* All filters get blocks.  An input reads from one output, and that output knows of
\* it; no output is without a reader, whose buffer would fill up for ever.  The inputs
\* of a filter that joins two streams are in step: as many input samples to a sample,
\* and the same filters that let the signal lag; RDS symbols are matched at their end.
GraphLinked ==
  kind = "graph" /\ path = <<>> /\ linked = found =>
    /\ found = ReceiverFilters
    /\ \A c \in Connections : writerOf[c.to] = c.from
    /\ DOMAIN writerOf = UNION {{To(f, i) : i \in 0..(InputsCount(f) - 1)} : f \in found}
    /\ DOMAIN readersOf = UNION {{From(f, o) : o \in 0..(OutputsCount(f) - 1)} : f \in found}
    /\ \A o \in DOMAIN readersOf : readersOf[o] = {i \in DOMAIN writerOf : writerOf[i] = o}
    /\ \A f \in Joining :
         LET stream(i) == StreamOf[writerOf[To(f, i)].filter]
             late == IF f = "rds_bits_decoder" THEN Lag("rds_symbol_shape_filter") ELSE {}
         IN /\ stream(0).spacing = stream(1).spacing
            /\ stream(0).lags = stream(1).lags \cup late

\* However a stream is cut into slices, the same is made of it, and the filters are
\* linked so that the streams they make are in step.
AsWhole ==
  /\ CutsDoNotShow /\ FileInOrder /\ SymbolsApart /\ GroupsApart /\ ReceivedAsSent /\ Equalized
  /\ GraphLinked

\* The filters keep to the states they have declared, so that no CHECK of a block
\* or a filter fails, and do not write past the output slice.  The decimating FFT
\* filter does, by one sample, where the rate does not divide the block.
Excess == IF kind = "decimator" /\ OutputBlock % Rate # 0 THEN 1 ELSE 0

Accepted ==
  /\ checked
  /\ kind # "alsa" => output_index <= room + Excess
=============================================================================
