---------------------------- MODULE ReceiverGraph ----------------------------
(***************************************************************************)
(* The filters of the live receiver as connect() has linked them, and      *)
(* Pipeline::add, which finds them from the source and links the blocks    *)
(* made for them.  A connection goes from an output channel of a filter to *)
(* an input channel of another.                                            *)
(***************************************************************************)
EXTENDS Slices, FiniteSets

From(f, o) == [filter |-> f, output |-> o]
To(f, i) == [filter |-> f, input |-> i]
Link(f, o, g, i) == [from |-> From(f, o), to |-> To(g, i)]
Chain(fs) == {Link(fs[k], 0, fs[k + 1], 0) : k \in 1..(Len(fs) - 1)}
Fan(f, gs) == {Link(f, 0, g, 0) : g \in gs}
Join(f0, f1, g) == {Link(f0, 0, g, 0), Link(f1, 0, g, 1)}

Front == Chain(<<"source", "fm_band_filter", "fm_equalizer", "fm_decoder", "decimator_interm">>)

Bands ==
  Fan("decimator_interm",
      {"audio_mono_decimator", "stereo_pilot_filter", "stereo_bandpass_filter",
       "rds_bandpass_filter", "noise_extractor_filter"})

Audio ==
  Chain(<<"stereo_pilot_filter", "pll_generator">>)
    \cup Join("pll_generator", "stereo_bandpass_filter", "fm_stereo_extractor")
    \cup Chain(<<"fm_stereo_extractor", "audio_stereo_decimator">>)
    \cup Join("audio_mono_decimator", "audio_stereo_decimator", "fm_stereo_demultiplexer")
    \cup {Link("fm_stereo_demultiplexer", 0, "deemphasizer_left", 0),
          Link("fm_stereo_demultiplexer", 1, "deemphasizer_right", 0)}
    \cup Chain(<<"deemphasizer_left", "resampler_left">>)
    \cup Chain(<<"deemphasizer_right", "resampler_right">>)
    \cup Join("resampler_left", "resampler_right", "sink")

Rds ==
  Chain(<<"pll_generator", "pilot_trippler">>)
    \cup Join("rds_bandpass_filter", "pilot_trippler", "rds_demodulator")
    \cup Chain(<<"rds_demodulator", "rds_demodulated_filter", "rds_symbol_shape_filter">>)
    \cup Join("rds_symbol_shape_filter", "pll_generator", "rds_bits_decoder")
    \cup Chain(<<"rds_bits_decoder", "rds_groups_decoder", "rds_messages_decoder">>)

Estimator(samples, sampler, estimator, recorder) ==
  Chain(<<samples, sampler>>) \cup Join(sampler, "noise_sampler", estimator)
    \cup Chain(<<estimator, recorder>>)

Noise ==
  Chain(<<"noise_extractor_filter", "noise_sampler">>)
    \cup Chain(<<"stereo_pilot_filter", "real_extractor">>)
    \cup Estimator("real_extractor", "pilot_sampler", "pilot_snr_estimator", "pilot_snr_recorder")
    \cup Estimator("audio_mono_decimator", "mono_sampler", "mono_snr_estimator", "mono_snr_recorder")
    \cup Estimator("stereo_bandpass_filter", "stereo_sampler", "stereo_snr_estimator", "stereo_snr_recorder")
    \cup Estimator("rds_bandpass_filter", "rds_sampler", "rds_snr_estimator", "rds_snr_recorder")

Connections == Front \cup Bands \cup Audio \cup Rds \cup Noise
ReceiverFilters == UNION {{c.from.filter, c.to.filter} : c \in Connections}

\* The channels that the filters' types have, as far as there is not one of each.
Joining ==
  {"fm_stereo_extractor", "fm_stereo_demultiplexer", "rds_demodulator", "rds_bits_decoder",
   "pilot_snr_estimator", "mono_snr_estimator", "stereo_snr_estimator", "rds_snr_estimator", "sink"}
InputsCount(f) == IF f = "source" THEN 0 ELSE IF f \in Joining THEN 2 ELSE 1

Recorders == {"pilot_snr_recorder", "mono_snr_recorder", "stereo_snr_recorder", "rds_snr_recorder"}
OutputsCount(f) ==
  IF f \in Recorders \cup {"rds_messages_decoder", "sink"} THEN 0
  ELSE IF f = "fm_stereo_demultiplexer" THEN 2 ELSE 1

-----------------------------------------------------------------------------
\* Input samples to an output, and the filters that let the signal lag: FIR
\* filters that do not compensate their delay.
Unit == 24   \* a sample of the source, so that the resamplers' are whole

IntermediateSamplingRate == 250000
IntermediateAudioSamplingRate == 50000
NoiseSamplingRate == 5000
SnrRate == 10

Ratio(f) ==
  CASE f = "decimator_interm" -> 4
    [] f \in {"audio_mono_decimator", "audio_stereo_decimator"} -> 5
    [] f = "mono_sampler" -> IntermediateAudioSamplingRate \div NoiseSamplingRate
    [] f \in {"noise_sampler", "pilot_sampler", "stereo_sampler", "rds_sampler"} ->
         IntermediateSamplingRate \div NoiseSamplingRate
    [] f \in {"pilot_snr_estimator", "mono_snr_estimator", "stereo_snr_estimator", "rds_snr_estimator"} ->
         NoiseSamplingRate \div SnrRate
    [] OTHER -> 1

SpacingAfter(f, spacing) ==
  IF f \in {"resampler_left", "resampler_right"} THEN (spacing * 25) \div 24 ELSE spacing * Ratio(f)

Lag(f) ==
  CASE f = "decimator_interm" -> {"FmDemodDecimatorTaps"}
    [] f = "rds_symbol_shape_filter" -> {"RdsSymbolShapeTaps"}
    [] f \in {"resampler_left", "resampler_right"} -> {"AudioResamplerTaps"}
    [] OTHER -> {}


-----------------------------------------------------------------------------
VARIABLES
  found,      \* filters: those that addLinkedFilters has found
  path,       \* the filters whose links are being followed
  linked,     \* filters whose blocks have been linked
  writerOf,   \* of the inputs that have one: the output they read from
  readersOf   \* of the outputs: the inputs that have been added to them

graphVars == <<found, path, linked, writerOf, readersOf>>

GraphInit ==
  /\ found = {"source"} /\ path = <<"source">> /\ linked = {}
  /\ writerOf = <<>> /\ readersOf = [c \in {d.from : d \in Connections} |-> {}]

Other(c, f) == IF c.from.filter = f THEN c.to.filter ELSE c.from.filter

Unseen(f) ==
  {Other(c, f) : c \in {d \in Connections : f \in {d.from.filter, d.to.filter}}} \ found

FindFilter ==
  /\ pc = "idle" /\ path # <<>>
  /\ IF Unseen(Head(path)) = {}
     THEN path' = Tail(path) /\ UNCHANGED found
     ELSE LET next == CHOOSE f \in Unseen(Head(path)) : TRUE
          IN path' = <<next>> \o path /\ found' = found \cup {next}
  /\ UNCHANGED <<linked, writerOf, readersOf, sliceVars>>

\* The order of a set of pointers is any; a block's links are not of another's.
LinkBlock ==
  /\ pc = "idle" /\ path = <<>> /\ linked # found
  /\ LET f == CHOOSE g \in found : g \notin linked
         into == {c \in Connections : c.to.filter = f}
         outOf == {c \in Connections : c.from.filter = f}
     IN /\ linked' = linked \cup {f}
        /\ writerOf' = [i \in DOMAIN writerOf \cup {c.to : c \in into} |->
                          IF i \in DOMAIN writerOf THEN writerOf[i]
                          ELSE (CHOOSE c \in into : c.to = i).from]
        /\ readersOf' = [o \in DOMAIN readersOf |->
                           readersOf[o] \cup {c.to : c \in {d \in outOf : d.from = o}}]
        /\ checked' = (checked /\ \A c \in into \cup outOf : Other(c, f) \in found)
  /\ UNCHANGED <<found, path, kind, taken, made, given, room, input_index, output_index, pc>>

\* The stream that a filter puts out, by way of the first inputs up to the source.
StreamOf[f \in ReceiverFilters] ==
  IF f = "source" THEN [spacing |-> Unit, lags |-> {}]
  ELSE LET stream == StreamOf[writerOf[To(f, 0)].filter]
       IN [spacing |-> SpacingAfter(f, stream.spacing), lags |-> stream.lags \cup Lag(f)]
=============================================================================
