---------------------------- MODULE CmaEqualizer -----------------------------
(***************************************************************************)
(* FmCmaEqualizer: the ring of past outputs under its taps, the list of    *)
(* the enabled taps, and the counters that say when the sums, the gain and *)
(* the taps are brought up to date.                                        *)
(*                                                                         *)
(* The values of samples, sums and taps are left out: an output is the     *)
(* place of its sample, an adjusted tap is the tap it is of.  Whether a    *)
(* tap is large enough to be enabled, and whether the gain and the taps    *)
(* have changed much, is left open.                                        *)
(***************************************************************************)
EXTENDS Slices, FiniteSets

CONSTANTS
  TapsCount,            \* taps_count_
  MinTapsInterval, MaxTapsInterval, TapsDivider,   \* TapsUpdateInterval, TapsFreqDivider
  MinGainInterval, MaxGainInterval,
  DisabledInterval,     \* DisabledTapsUpdateInterval
  MinWeight             \* in samples

\* The constructor asks only for a multiple of the vector's length; that the mask
\* of process() takes a power of two is left to the caller, which has 32.
ASSUME EqualizerAssumption ==
  /\ TapsCount \in {2, 4, 8, 16, 32, 64, 128, 256}
  /\ MinTapsInterval \in Nat \ {0} /\ MaxTapsInterval \in Nat /\ MinTapsInterval <= MaxTapsInterval
  /\ MinGainInterval \in Nat \ {0} /\ MaxGainInterval \in Nat /\ MinGainInterval <= MaxGainInterval
  /\ TapsDivider \in Nat \ {0} /\ DisabledInterval \in Nat \ {0} /\ MinWeight \in Nat

VARIABLES
  outputs,       \* outputs_: every output is in two cells
  cursor,        \* cur_output_index_
  taps,          \* [indices |-> taps_indices_, adjusted |-> adjusted_taps_, enabled |-> taps_enabled_,
                 \*  listed |-> history: the list held the enabled taps whenever it was read]
  sums,          \* [left |-> left_until_accum_updates_, every |-> accum_update_freq_,
                 \*  samples |-> accumulated_samples_, weight |-> cur_weight_, enough |-> min_samples_accumulated_]
  gain,          \* [left |-> left_until_gain_updates_, every |-> gain_update_freq_]
  tapping        \* [left |-> left_until_taps_updates_, every |-> taps_update_freq_,
                 \*  disabled |-> left_until_disabled_taps_updates_]

equalizerVars == <<outputs, cursor, taps, sums, gain, tapping>>

None == -1   \* an output from before reset(), an adjusted tap of another gain
Slots == 0..(TapsCount - 1)

EqualizerInit ==
  /\ outputs = [i \in 0..(2 * TapsCount - 1) |-> None]
  /\ cursor = 0
  /\ taps = [indices |-> [k \in Slots |-> 0], adjusted |-> [k \in Slots |-> IF k = 0 THEN 0 ELSE None],
             enabled |-> {0}, listed |-> TRUE]
  /\ sums = [left |-> 0, every |-> 1, samples |-> 0, weight |-> 0, enough |-> FALSE]
  /\ gain = [left |-> 0, every |-> MinGainInterval]
  /\ tapping = [left |-> MinTapsInterval - 1, every |-> MinTapsInterval, disabled |-> 0]

\* The equalizer has no reset: it goes on with what it has, of another stream.
EqualizerReset ==
  /\ outputs' = [i \in DOMAIN outputs |-> None]
  /\ UNCHANGED <<cursor, taps, sums, gain, tapping>>

-----------------------------------------------------------------------------
\* The lists of taps: slot says how many enabled taps come before the next one.
Enabled(t) == Cardinality(t.enabled)

Listed(t) == t.enabled = {t.indices[k] : k \in 0..(Enabled(t) - 1)}

\* Tap i is large; it takes the next slot, and a new one moves the others up.
Take(t, i, slot) ==
  LET moved == IF i \in t.enabled THEN t.indices
               ELSE [k \in Slots |-> IF k \in (slot + 1)..Enabled(t) THEN t.indices[k - 1] ELSE t.indices[k]]
  IN [indices |-> [moved EXCEPT ![slot] = i], adjusted |-> [t.adjusted EXCEPT ![slot] = i],
      enabled |-> t.enabled \cup {i}, listed |-> t.listed]

\* Tap i is small; the others move down on its slot.
Drop(t, i, slot) ==
  IF i \notin t.enabled THEN t
  ELSE [indices |-> [k \in Slots |-> IF k \in slot..(Enabled(t) - 2) THEN t.indices[k + 1] ELSE t.indices[k]],
        adjusted |-> t.adjusted, enabled |-> t.enabled \ {i}, listed |-> t.listed]

\* updateTaps, with these taps large: those that are disabled are looked at only
\* now and then.
UpdateTap(at, i, large, all) ==
  IF i \notin at.taps.enabled /\ ~all THEN at
  ELSE LET read == [at.taps EXCEPT !.listed = @ /\ Listed(at.taps)]
       IN IF i \in large
          THEN [taps |-> Take(read, i, at.slot), slot |-> at.slot + 1]
          ELSE [at EXCEPT !.taps = Drop(read, i, at.slot)]

After(t, large, all) ==
  LET after[i \in Slots] ==
        IF i = 0 THEN [taps |-> t, slot |-> 1] ELSE UpdateTap(after[i - 1], i, large, all)
  IN after

UpdateTaps(t, large, all) == After(t, large, all)[TapsCount - 1].taps

-----------------------------------------------------------------------------
\* getOutput, and updateIntermAccumulators for its result.
Equalizing == pc = "loop" /\ input_index < Least(given, room)

Shift1(c) == (c + TapsCount - 1) % TapsCount

Output ==
  /\ Emit(<<taken + input_index>>, 1)
  /\ outputs' = [outputs EXCEPT ![cursor] = taken + input_index, ![cursor + TapsCount] = taken + input_index]
  /\ cursor' = Shift1(cursor)

Accumulated ==
  IF sums.left = 0
  THEN [sums EXCEPT !.left = sums.every - 1, !.samples = @ + 1]
  ELSE [sums EXCEPT !.left = @ - 1]

\* An interval grows when little has changed, and shrinks otherwise.
Longer(every, most) == Least(most, every + 1)
Shorter(every, least) == Greatest(least, every - 1)

Equalize ==
  /\ Equalizing /\ tapping.left > 0
  /\ Output
  /\ sums' = Accumulated
  /\ tapping' = [tapping EXCEPT !.left = @ - 1]
  /\ UNCHANGED <<pc, checked, taps, gain>>

\* updateAccumulators: the sums of the samples are added, with their weight.
Gathered == [Accumulated EXCEPT !.samples = 0, !.weight = Least(MinWeight + 1, @ + Accumulated.samples)]

Weigh ==
  /\ Equalizing /\ tapping.left = 0 /\ ~sums.enough
  /\ Output
  /\ sums' = [Gathered EXCEPT !.enough = Gathered.weight > MinWeight]
  /\ tapping' = [tapping EXCEPT !.left = tapping.every - 1]
  /\ UNCHANGED <<pc, checked, taps, gain>>

\* With a new gain the adjusted taps are those of the old one until they are set.
UpdateGain ==
  IF gain.left = 0
  THEN /\ \E every \in {Longer(gain.every, MaxGainInterval), Shorter(gain.every, MinGainInterval)} :
            gain' = [left |-> every - 1, every |-> every]
  ELSE gain' = [gain EXCEPT !.left = @ - 1]

Adapt ==
  /\ Equalizing /\ tapping.left = 0 /\ sums.enough
  /\ Output
  /\ UpdateGain
  /\ \E large \in SUBSET (Slots \ {0}),
        every \in {Longer(tapping.every, MaxTapsInterval), Shorter(tapping.every, MinTapsInterval)} :
       LET often == Greatest(1, every \div TapsDivider)
           regained == [taps EXCEPT !.adjusted = [k \in Slots |-> IF gain.left = 0 /\ k > 0 THEN None ELSE @[k]]]
       IN /\ taps' = UpdateTaps(regained, large, tapping.disabled = 0)
          /\ sums' = [Gathered EXCEPT !.every = often, !.left = often - 1]
          /\ tapping' = [left |-> every - 1, every |-> every,
                         disabled |-> IF tapping.disabled = 0 THEN DisabledInterval - 1
                                      ELSE tapping.disabled - 1]
  /\ UNCHANGED <<pc, checked>>

EqualizerDone ==
  /\ pc = "loop" /\ ~Equalizing
  /\ Return
  /\ UNCHANGED <<checked, equalizerVars>>
=============================================================================
