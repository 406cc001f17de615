----------------------------- MODULE RdsFields ------------------------------
(***************************************************************************)
(* What each RDS group says: the decodeGroup* functions of filters/fm/     *)
(* rds_messages_decoder.cpp, as a table from a group to the sequence of    *)
(* RdsValue::set calls it leads to.                                        *)
(*                                                                         *)
(* A group is [data: 0..3 -> 16 bit words, status: 0..3 -> status].        *)
(* An item of RdsState is named by a path: <<name>> for a member,          *)
(* <<name, key>> for an element of a container, <<name, key, part>> for a  *)
(* member of an EonProgrammeInfo or a TmcChannel, and <<name, key, part,   *)
(* key2>> for an element of a container of those.  Frequencies are keyed   *)
(* by frequency, the way updateFrequency finds them.  Two characters of a  *)
(* word are two elements of their string.                                  *)
(***************************************************************************)
EXTENDS RdsValue, Sequences, SequencesExt

\* n bits of word d, from bit lo.
Bits(d, lo, n) == (d \div 2^lo) % 2^n

-----------------------------------------------------------------------------
(* One call of set: the item, the value, its check data and their status.  *)

Block(g, p, v, i) ==
  [p |-> p, v |-> v, c |-> <<g.data[i]>>, s |-> g.status[i]]

\* typedCheckData: block 1 gives block i its meaning.
Typed(g, p, v, i) ==
  [p |-> p, v |-> v, c |-> <<g.data[1], g.data[i]>>,
   s |-> Min({g.status[1], g.status[i]})]

\* typedCheckDataBoth
TypedBoth(g, p, v) ==
  [p |-> p, v |-> v, c |-> <<g.data[1], g.data[2], g.data[3]>>,
   s |-> Min({g.status[1], g.status[2], g.status[3]})]

\* The two characters of block i, at positions k and k + 1 of string name.
Chars(g, name, k, i) ==
  <<Typed(g, <<name, k>>, Bits(g.data[i], 8, 8), i),
    Typed(g, <<name, k + 1>>, Bits(g.data[i], 0, 8), i)>>

-----------------------------------------------------------------------------
CommonFields(g, i) ==
  <<Block(g, <<"programme_identification">>, g.data[i], i),
    Block(g, <<"traffic_programme">>, Bits(g.data[i + 1], 10, 1), i + 1),
    Block(g, <<"programme_type">>, Bits(g.data[i + 1], 5, 5), i + 1)>>

\* The "decoder identification" bit is the music/speech bit.
TuningInfo(g, i) ==
  LET flag == <<"stereo", "artificial_head", "compressed", "dynamic_pty">>
  IN <<Block(g, <<"traffic_announcement">>, Bits(g.data[i], 4, 1), i),
       Block(g, <<"music_speech">>, Bits(g.data[i], 3, 1), i),
       Block(g, <<flag[Bits(g.data[i], 0, 2) + 1]>>, Bits(g.data[i], 3, 1), i)>>

\* 0 when the code stands for no frequency.
ExtractFrequency(code, lfMf) ==
  CASE lfMf /\ code \in 1..15 -> 153000 + 9000 * (code - 1)
    [] lfMf /\ code \in 16..135 -> 531000 + 9000 * (code - 16)
    [] ~lfMf /\ code \in 1..204 -> 87600000 + 100000 * (code - 1)
    [] OTHER -> 0

\* updateFrequency for each frequency of block i, in container p.
AddFrequencies(g, p, i, both) ==
  LET d == g.data[i]
      Update(f) == IF f = 0 THEN <<>>
                   ELSE IF both THEN <<TypedBoth(g, Append(p, f), f)>>
                   ELSE <<Typed(g, Append(p, f), f, i)>>
  IN IF g.status[i] < Corrected THEN <<>>
     ELSE IF Bits(d, 8, 8) = 250 THEN Update(ExtractFrequency(Bits(d, 0, 8), TRUE))
     ELSE Update(ExtractFrequency(Bits(d, 0, 8), FALSE))
            \o Update(ExtractFrequency(Bits(d, 8, 8), FALSE))

StartTime(d) == <<Bits(d, 11, 5), Bits(d, 6, 5), Bits(d, 0, 6)>>

Type0(g, verB) ==
  LET seg == Bits(g.data[1], 0, 2)
  IN TuningInfo(g, 1)
       \o (IF verB THEN <<Block(g, <<"programme_identification">>, g.data[2], 2)>>
           ELSE AddFrequencies(g, <<"alternative_frequencies">>, 2, FALSE))
       \o Chars(g, "programme_service_name", 2 * seg, 3)

\* The scopes and modes a TMC service is offered in, from word 2.
TmcSystemInfo(g) ==
  LET M(name, lo, n) == Typed(g, <<name>>, Bits(g.data[2], lo, n), 2)
  IN <<M("tmc_ltn", 6, 6), M("tmc_afi", 5, 1), M("tmc_mode", 4, 1),
       M("tmc_scope_i13l", 3, 1), M("tmc_scope_national", 2, 1),
       M("tmc_scope_regional", 1, 1), M("tmc_scope_urban", 0, 1)>>

\* The value of country is its place in the table of countries.
SlowLabelling(g, pi) ==
  LET d == g.data[2]
      code == Bits(d, 12, 3)
      cc == Bits(pi.sentValue, 12, 4)
      ecc == Bits(d, 0, 8)
      country == 15 * (ecc - 224) + cc - 1
  IN CASE code = 0 /\ pi.sent /\ ecc \in 224..228 /\ cc > 0 ->
              <<Typed(g, <<"country">>, country, 2)>>
       [] code = 1 -> TmcSystemInfo(g)
       [] code = 3 /\ Bits(d, 0, 11) < 44 ->
              <<Typed(g, <<"language">>, Bits(d, 0, 11), 2)>>
       [] OTHER -> <<>>

\* pi: what is known of the programme identification when the group comes.
Type1(g, verB, pi) ==
  (IF verB THEN <<Block(g, <<"programme_identification">>, g.data[2], 2)>>
   ELSE IF g.status[2] < Corrected THEN <<>>
   ELSE <<Typed(g, <<"linkage_actuator">>, Bits(g.data[2], 15, 1), 2)>>
          \o SlowLabelling(g, pi))
    \o <<Typed(g, <<"programme_item_start_time">>, StartTime(g.data[3]), 3)>>

Type2(g, verB) ==
  LET seg == Bits(g.data[1], 0, 4)
      ab == <<Block(g, <<"text_ab">>, Bits(g.data[1], 4, 1), 1)>>
  IN IF verB
     THEN ab \o <<Block(g, <<"programme_identification">>, g.data[2], 2)>>
             \o Chars(g, "radio_text", 2 * seg, 3)
     ELSE ab \o Chars(g, "radio_text", 4 * seg, 2)
             \o Chars(g, "radio_text", 4 * seg + 2, 3)

\* TMC system information announced with the application identification.
TmcSystem(g, mode) ==
  LET variant == Bits(g.data[2], 14, 2)
      M(name, lo, n) == Typed(g, <<name>>, Bits(g.data[2], lo, n), 2)
      enhanced == mode.sent /\ mode.sentValue = 1
  IN CASE variant = 0 -> TmcSystemInfo(g)
       [] variant = 1 ->
            <<M("tmc_gap", 12, 2), M("tmc_sid", 6, 6)>>
              \o (IF enhanced THEN <<M("tmc_activity_time", 4, 2),
                                     M("tmc_window_time", 2, 2),
                                     M("tmc_delay_time", 0, 2)>> ELSE <<>>)
       [] OTHER -> <<>>

DabAid == 147
TmcAids == {52550, 52551}

Type3A(g, mode) ==
  (IF g.data[3] \in TmcAids THEN TmcSystem(g, mode) ELSE <<>>)
    \o (IF g.status[3] < Corrected THEN <<>>
        ELSE <<Typed(g, <<"oda_aids", Bits(g.data[1], 0, 5)>>, g.data[3], 3)>>)

\* The time is kept as the day, the hour and the minute it is computed from.
Type4A(g) ==
  IF g.status[2] < Corrected \/ g.status[3] < Corrected THEN <<>>
  ELSE LET day == 32768 * Bits(g.data[1], 0, 2) + Bits(g.data[2], 1, 15)
           hour == 16 * Bits(g.data[2], 0, 1) + Bits(g.data[3], 12, 4)
       IN <<TypedBoth(g, <<"current_time">>, <<day, hour, Bits(g.data[3], 6, 6)>>)>>

Type10A(g) ==
  LET seg == Bits(g.data[1], 0, 1)
  IN <<Block(g, <<"ptn_ab">>, Bits(g.data[1], 4, 1), 1)>>
       \o Chars(g, "programme_type_name", 4 * seg, 2)
       \o Chars(g, "programme_type_name", 4 * seg + 2, 3)

\* Enhanced other networks: word 3 names the network the rest is about.
Type14(g, verB) ==
  LET pi == g.data[3]
      d == g.data[2]
      variant == Bits(g.data[1], 0, 4)
      M(name, lo, n) == TypedBoth(g, <<"eon_mapping", pi, name>>, Bits(d, lo, n))
      Freq(f) == IF f = 0 THEN <<>>
                 ELSE <<TypedBoth(g, <<"eon_mapping", pi, "frequencies", f>>, f)>>
      Char(k, lo) == TypedBoth(g, <<"eon_mapping", pi, "programme_service_name", k>>,
                               Bits(d, lo, 8))
  IN IF g.status[3] < Corrected \/ verB \/ g.status[2] < Corrected THEN <<>>
     ELSE <<Block(g, <<"eon_mapping", pi, "traffic_programme">>,
                  Bits(g.data[1], 4, 1), 1)>>
          \o CASE variant \in 0..3 -> <<Char(2 * variant, 8), Char(2 * variant + 1, 0)>>
               [] variant = 4 -> AddFrequencies(g, <<"eon_mapping", pi, "frequencies">>, 2, TRUE)
               [] variant \in 5..8 -> Freq(ExtractFrequency(Bits(d, 0, 8), FALSE))
               [] variant = 9 -> Freq(ExtractFrequency(Bits(d, 0, 8), TRUE))
               [] variant = 12 -> <<M("linkage_actuator", 15, 1), M("extended_generic", 14, 1),
                                    M("i13l_linkage_set", 13, 1), M("linkage_set_number", 0, 12)>>
               [] variant = 13 -> <<M("programme_type", 11, 5), M("traffic_announcement", 0, 1)>>
               [] variant = 14 -> <<TypedBoth(g, <<"eon_mapping", pi, "programme_item_start_time">>,
                                              StartTime(d))>>
               [] OTHER -> <<>>

Type15B(g) == CommonFields(g, 2) \o TuningInfo(g, 3)

\* DAB linkage (an open data application).  Frequencies are in units of 16 kHz.
DabReference(g) ==
  LET M(name, v, i) == Typed(g, <<name>>, v, i)
      variant == Bits(g.data[1], 0, 4)
      d == g.data[2]
  IN IF Bits(g.data[1], 4, 1) = 1
     THEN (CASE variant = 0 -> <<M("dab_eid", d, 2)>>
             [] variant = 1 -> <<M("dab_link_linkage_actuator", Bits(d, 14, 1), 2),
                                 M("dab_link_soft_hard", Bits(d, 13, 1), 2),
                                 M("dab_link_i13l_linkage_set", Bits(d, 12, 1), 2),
                                 M("dab_link_linkage_set_number", Bits(d, 0, 12), 2)>>
             [] OTHER -> <<>>)
          \o <<M("dab_sid", g.data[3], 3)>>
     ELSE <<Block(g, <<"dab_mode">>, Bits(g.data[1], 2, 2), 1),
            M("dab_freq", 65536 * Bits(g.data[1], 0, 2) + d, 2),
            M("dab_eid", g.data[3], 3)>>

\* Other channels that carry TMC: ensureTmcChannel sets the channel's PI.
TmcTuning(g) ==
  LET variant == Bits(g.data[1], 0, 4)
      d == g.data[2]
      Channel(i) == Typed(g, <<"tmc_channels", g.data[i], "programme_identification">>,
                          g.data[i], i)
      M(name, lo, n) == Typed(g, <<"tmc_channels", g.data[3], name>>, Bits(d, lo, n), 2)
      frequencies == <<"tmc_channels", g.data[3], "frequencies">>
      tuned == ExtractFrequency(Bits(d, 0, 8), FALSE)
      Spn(k, i) == Chars(g, "tmc_service_provider_name", k, i)
  IN CASE variant \in 4..5 -> Spn(4 * (variant - 4), 2) \o Spn(4 * (variant - 4) + 2, 3)
       [] variant = 6 -> <<Channel(3)>> \o AddFrequencies(g, frequencies, 2, FALSE)
       [] variant = 7 -> <<Channel(3), Typed(g, Append(frequencies, tuned), tuned, 2)>>
       [] variant = 8 -> (IF d # 0 THEN <<Channel(2)>> ELSE <<>>)
                           \o (IF g.data[3] # 0 THEN <<Channel(3)>> ELSE <<>>)
       [] variant = 9 -> <<Channel(3), M("ltn", 10, 6), M("scope_i13l", 9, 1),
                           M("scope_national", 8, 1), M("scope_regional", 7, 1),
                           M("scope_urban", 6, 1), M("sid", 0, 6)>>
=============================================================================
