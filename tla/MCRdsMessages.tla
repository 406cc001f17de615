--------------------------- MODULE MCRdsMessages ----------------------------
(***************************************************************************)
(* Instances of RdsMessages for TLC.  Times are scaled down: the order of  *)
(* the validity times is that of the code.                                 *)
(***************************************************************************)
EXTENDS RdsMessages

MCValidity == [tag \in Tags |-> CASE tag \in {"Programme", "Clock"} -> 2
                                  [] tag = "Text" -> 1
                                  [] tag = "Current" -> 0]

V == Valid
C == Corrected
U == Uncorrectable

PI == 53506                       \* 0xD102: country code 13
Other == 53510

\* Block 1: group type, traffic programme, programme type, the low five bits.
Word1(type, tp, pty, low) == 2048 * type + 1024 * tp + 32 * pty + low

Group(b1, b2, b3) == <<PI, b1, b2, b3>>
Data(g) == [i \in 0..3 |-> g[i + 1]]
Received(gs, ss) == {[data |-> Data(g), status |-> Data(s)] : g \in gs, s \in ss}

\* 2A radio text of both A/B flags; 2B, 10A the same for short and type names.
Text ==
  Received({Group(Word1(4, 0, 0, 0), 16705, 16705)}, {<<U, V, V, U>>, <<U, C, C, U>>})
    \cup Received({Group(Word1(4, 0, 0, 16), 16706, 16705)}, {<<U, V, V, U>>, <<U, V, C, U>>})

ShortText ==
  Received({Group(Word1(5, 0, 0, 0), PI, 16705)}, {<<U, V, C, V>>})
    \cup Received({Group(Word1(5, 0, 0, 16), PI, 16706)}, {<<U, V, C, C>>, <<U, C, U, V>>})

TypeName ==
  Received({Group(Word1(20, 0, 0, 0), 16705, 16705)}, {<<U, V, V, U>>})
    \cup Received({Group(Word1(20, 0, 0, 17), 16706, 16705)}, {<<V, C, U, V>>, <<U, V, U, V>>})

\* 0A, 0B, 15B: tuning information and alternative frequencies.
Tuning ==
  Received({Group(Word1(0, 0, 1, 0), 514, 16705)}, {<<U, V, V, U>>, <<U, C, C, U>>})
    \cup Received({Group(Word1(0, 1, 1, 25), 64001, 16705)}, {<<U, C, C, U>>})

TuningB ==
  Received({Group(Word1(1, 0, 2, 2), PI, 16705)}, {<<U, V, C, V>>})
    \cup Received({Group(Word1(31, 0, 1, 1), PI, Word1(31, 0, 1, 3))},
                  {<<U, U, C, C>>, <<C, V, C, U>>, <<U, V, U, C>>})

\* 1A, 1B: slow labelling codes, programme item start time.
SlowLabels ==
  Received({Group(Word1(2, 0, 0, 0), 32768 + 224, 2049)}, {<<V, V, V, U>>, <<U, C, C, C>>})
    \cup Received({Group(Word1(2, 0, 0, 0), 12288 + 9, 0)}, {<<U, V, V, U>>})

SlowLabelsTmc ==
  Received({Group(Word1(2, 0, 0, 0), 4096 + 80, 0)}, {<<V, V, V, U>>})
    \cup Received({Group(Word1(3, 0, 0, 0), PI, 2050)}, {<<U, V, U, C>>, <<U, U, V, V>>})

\* 14A, 14B: another network; 4A: the time.
Eon ==
  Received({Group(Word1(28, 0, 0, 0), 16705, Other), Group(Word1(28, 0, 0, 20), 514, Other)},
           {<<U, V, V, V>>, <<U, V, C, C>>})

EonFrequencies ==
  Received({Group(Word1(28, 0, 0, v), 1, Other) : v \in {5, 9}}, {<<U, V, V, V>>, <<U, V, V, C>>})
    \cup Received({Group(Word1(29, 0, 0, 0), PI, Other)}, {<<U, V, V, V>>})

EonDetails ==
  Received({Group(Word1(28, 0, 0, v), 43009, Other) : v \in {12, 13, 14}}, {<<U, V, V, V>>})

ClockTime ==
  Received({Group(Word1(8, 0, 0, 1), 2, 4160), Group(Word1(8, 0, 0, 1), 2, 8256)},
           {<<U, V, V, V>>, <<U, C, C, C>>})

\* 3A: applications are announced; 11A carries DAB linkage, 8A carries TMC.
Dab ==
  Received({Group(Word1(6, 0, 0, 22), 0, DabAid)}, {<<U, V, U, V>>, <<U, V, U, C>>})
    \cup Received({Group(Word1(22, 0, 0, 16), 7, 9), Group(Word1(22, 0, 0, 17), 8, 9)},
                  {<<U, V, V, V>>})

DabFrequency ==
  Received({Group(Word1(6, 0, 0, 22), 0, DabAid)}, {<<U, V, U, V>>})
    \cup Received({Group(Word1(22, 0, 0, 16), 7, 9), Group(Word1(22, 0, 0, 5), 6, 7)},
                  {<<U, V, V, V>>})

TmcAid == 52550

TmcServices ==
  Received({Group(Word1(6, 0, 0, 16), 16, TmcAid), Group(Word1(6, 0, 0, 16), 16384 + 64, TmcAid)},
           {<<U, V, V, V>>})
    \cup Received({Group(Word1(16, 0, 0, 20), 16705, 16705)}, {<<U, V, V, C>>})

TmcChannels ==
  Received({Group(Word1(16, 0, 0, 25), 1088, Other)}, {<<U, V, V, C>>, <<U, V, V, V>>})
    \cup Received({Group(Word1(16, 0, 0, 22), 514, Other)}, {<<U, V, V, C>>})
    \cup Received({Group(Word1(16, 0, 0, 24), Other, 0)}, {<<U, V, C, C>>})

TmcRetuning ==
  Received({Group(Word1(16, 0, 0, 23), 1, Other)}, {<<U, V, C, C>>, <<U, V, V, C>>})
    \cup Received({Group(Word1(6, 0, 0, 16), 0, 1)}, {<<U, V, U, C>>, <<U, V, U, V>>})

\* Two messages of two groups and one of four, the same continuity index.
First(b3) == Data(Group(Word1(16, 0, 0, 1), 32768 + 5, b3))
Second(remaining, b3) == Data(Group(Word1(16, 0, 0, 1), 16384 + 4096 * remaining, b3))
Later(remaining, b3) == Data(Group(Word1(16, 0, 0, 1), 4096 * remaining, b3))

Message1 == {First(1), Second(0, 11)}
Message2 == {First(2), Second(0, 12)}
Message3 == {First(3), Second(2, 13), Later(1, 14), Later(0, 15)}
Message4 == {Data(Group(Word1(16, 0, 0, 2), 32768 + 5, 1)), Data(Group(Word1(16, 0, 0, 2), 16384, 11))}
MCTmcSent == {Message1, Message2, Message3, Message4}

Heard(ds, ss) == {[data |-> d, status |-> Data(s)] : d \in ds, s \in ss}

TrafficShort ==
  Heard(Message1, {<<U, V, V, V>>, <<U, V, V, C>>}) \cup Heard(Message2, {<<U, V, C, V>>})
TrafficAgain ==
  Heard(Message1, {<<U, V, V, C>>}) \cup Heard(Message4, {<<U, V, C, V>>})
TrafficLong ==
  Heard({First(3), Second(2, 13), Later(1, 14)}, {<<U, V, V, C>>}) \cup Heard({Second(0, 11)}, {<<U, V, V, V>>})
TrafficLost ==
  Heard({First(3), Second(2, 13)}, {<<U, V, V, V>>})
    \cup Heard({Later(1, 14), Later(0, 15)}, {<<U, V, C, V>>})
TrafficSingle ==
  Received({Group(Word1(16, 0, 0, 8), 5, 1), Group(Word1(16, 0, 0, 9), 5, 1)},
           {<<U, V, V, V>>, <<U, V, C, C>>, <<U, V, C, U>>})

MCProgrammes ==
  {Text, ShortText, TypeName, Tuning, TuningB, SlowLabels, SlowLabelsTmc,
   Eon, EonFrequencies, EonDetails, ClockTime, Dab, DabFrequency, TmcServices, TmcChannels,
   TmcRetuning,
   TrafficShort, TrafficAgain, TrafficLong, TrafficLost, TrafficSingle}

\* The traffic programme flag changes while the blocks are only Corrected, and
\* no two of them in a row are equal.
Flag(tp, low, status) ==
  Received({Group(Word1(0, tp, 1, low), 0, 16705)}, {<<V, status, U, U>>})
MCFlagChanges == {Flag(0, 0, V) \cup Flag(1, 1, C) \cup Flag(1, 2, C)}

\* Another channel that carries TMC, and nothing else.
MCOneChannel == {Received({Group(Word1(16, 0, 0, 25), 1088, Other)}, {<<U, V, V, V>>})}
=============================================================================
