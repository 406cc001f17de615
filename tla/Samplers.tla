------------------------------ MODULE Samplers -------------------------------
(***************************************************************************)
(* The filters that put out less than they take: Sampler, Resampler, a     *)
(* decimating FirFilter, and FmSnrEstimator; and RdsDemodulator, that      *)
(* measures less than it takes.  An output is represented by the sample it *)
(* is made for (the first one under the taps); that of the resampler by    *)
(* the kernel as well, that of the estimator by what its sums are of, and  *)
(* that of the demodulator by the age of its phase.                        *)
(***************************************************************************)
EXTENDS Slices, RunningSum

CONSTANTS Rate,           \* rate_, decimation_rate_, DecimationRate, snr_step_
          WindowSize,     \* window_size_ of a sampler of windows
          Interpolation,  \* InterpolationRate
          SkipRate        \* SkipRate of RdsDemodulator

\* Sampler's loop CHECKs that there is something to skip after a window.  An
\* upsampling resampler may take nothing, which Block::process does not allow.
ASSUME SamplersAssumption ==
  /\ Rate \in Nat /\ Rate > 1
  /\ WindowSize \in Nat /\ WindowSize > 1
  /\ Interpolation \in 1..Rate
  /\ SkipRate \in Nat

VARIABLES skip,    \* remaining_skip_ of Sampler, remaining_snr_skip
          left,    \* remaining_output_
          kernel,  \* kernel_index_
          power,   \* power_signal_ and power_noise_, or the two amplitude_levels_
          phase    \* [found |-> best_phase_found_, skipped |-> skipped_samples_]

samplerVars == <<skip, left, kernel, power, phase>>

NoPhase == [found |-> FALSE, skipped |-> 0]

SamplersInit ==
  skip = 0 /\ left = WindowSize /\ kernel = 0 /\ power = Cleared /\ phase = NoPhase

SamplersReset ==
  skip' = 0 /\ left' = WindowSize /\ kernel' = 0 /\ power' = Cleared /\ phase' = NoPhase

-----------------------------------------------------------------------------
\* Sampler of single samples; FirFilter takes as much, and for its outputs.
PickSize == Least(given \div Rate, room)

Pick ==
  /\ pc = "loop"
  /\ Emit([k \in 1..PickSize |-> taken + (k - 1) * Rate], PickSize * Rate)
  /\ pc' = "leave"
  /\ UNCHANGED <<checked, samplerVars>>

-----------------------------------------------------------------------------
\* Sampler of windows.
Windowing == pc = "loop" /\ input_index < given /\ output_index < room

SkipSamples ==
  /\ Windowing /\ skip > 0
  /\ LET n == Least(skip, given - input_index)
     IN /\ Emit(<<>>, n)
        /\ skip' = skip - n
        /\ left' = IF n = skip THEN WindowSize ELSE left
  /\ checked' = (checked /\ left = 0)
  /\ UNCHANGED <<pc, kernel, power, phase>>

CopySamples ==
  /\ Windowing /\ skip = 0
  /\ LET n == Least(left, Least(given - input_index, room - output_index))
     IN /\ Emit([k \in 1..n |-> taken + input_index + k - 1], n)
        /\ left' = left - n
        /\ skip' = IF n = left THEN WindowSize * (Rate - 1) ELSE 0
  /\ checked' = (checked /\ left > 0)
  /\ UNCHANGED <<pc, kernel, power, phase>>

WindowDone ==
  /\ pc = "loop" /\ ~Windowing
  /\ Return
  /\ UNCHANGED <<checked, samplerVars>>

-----------------------------------------------------------------------------
\* Resampler: the kernels of a sample come before the next sample.
Behind == kernel >= Interpolation /\ input_index < given

NextSample ==
  /\ pc = "loop" /\ Behind
  /\ Emit(<<>>, 1)
  /\ kernel' = kernel - Interpolation
  /\ UNCHANGED <<pc, checked, skip, left, power, phase>>

ApplyKernel ==
  /\ pc = "loop" /\ ~Behind /\ input_index < given /\ output_index < room
  /\ Emit(<< <<taken + input_index, kernel>> >>, 0)
  /\ kernel' = kernel + Rate
  /\ UNCHANGED <<pc, checked, skip, left, power, phase>>

ResamplerDone ==
  /\ pc = "loop" /\ ~Behind
  /\ input_index = given \/ output_index = room
  /\ Return
  /\ UNCHANGED <<checked, samplerVars>>

-----------------------------------------------------------------------------
\* FmSnrEstimator: what remains to be skipped starts anew in every call.
(* Mutant: all that there is room for is taken.                            *)
SnrSizeNotRounded == Least(given, room * Rate)

SnrSize == RoundDown(Least(given, room * Rate), Rate)

AddPower ==
  /\ pc = "loop" /\ input_index < SnrSize
  /\ power' = Add(power, taken + input_index)
  /\ Emit(IF skip = 0 THEN << <<taken + input_index, power'.sum, power'.size>> >> ELSE <<>>, 1)
  /\ skip' = (IF skip = 0 THEN Rate ELSE skip) - 1
  /\ UNCHANGED <<pc, checked, left, kernel, phase>>

SnrDone ==
  /\ pc = "loop" /\ input_index = SnrSize
  /\ Return
  /\ skip' = 0
  /\ UNCHANGED <<checked, left, kernel, power, phase>>

-----------------------------------------------------------------------------
\* RdsDemodulator, by vectors: once the phase is found it is measured only now and
\* then.  An output is made for its sample, and with a phase of a certain age.
Demodulating == pc = "loop" /\ input_index < Least(given, room)

KeepPhase ==
  /\ Demodulating /\ phase.found /\ phase.skipped < SkipRate
  /\ phase' = [phase EXCEPT !.skipped = @ + 1]
  /\ Emit(<< <<taken + input_index, phase'.skipped>> >>, 1)
  /\ UNCHANGED <<pc, checked, skip, left, kernel, power>>

MeasurePhase ==
  /\ Demodulating /\ (phase.found => phase.skipped >= SkipRate)
  /\ power' = Add(power, taken + input_index)
  /\ phase' = [found |-> phase.found \/ power'.size = SumSize, skipped |-> 0]
  /\ Emit(<< <<taken + input_index, 0>> >>, 1)
  /\ UNCHANGED <<pc, checked, skip, left, kernel>>

DemodulatorDone ==
  /\ pc = "loop" /\ ~Demodulating
  /\ Return
  /\ UNCHANGED <<checked, samplerVars>>
=============================================================================
