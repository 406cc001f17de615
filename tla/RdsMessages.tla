---------------------------- MODULE RdsMessages -----------------------------
(***************************************************************************)
(* RdsMessagesDecoder and RdsState of filters/fm: the groups of a          *)
(* programme are received with errors, in any order and at any time; what  *)
(* they say is believed, shown, and forgotten when it gets old.  Another   *)
(* thread asks for the state (and dumps it), or resets the decoder when    *)
(* the receiver is tuned to another frequency; the mutex of the decoder    *)
(* makes each of the three operations one step.  The clock does not wait   *)
(* for the mutex: every call of set reads it, and it may move on between   *)
(* two calls of one group.                                                 *)
(*                                                                         *)
(* The sender picks its groups from one programme.  It uses a continuity   *)
(* index of TMC for one message at a time, as the protocol demands.        *)
(***************************************************************************)
EXTENDS TmcMessages

CONSTANTS Programmes,  \* sets of groups, one of which is on the air
          TmcSent,     \* the multi-group messages: sets of groups
          MaxTime,     \* bound: the time at which the clock stops
          MaxPause,    \* bound: how long the decoding of one group may take
          Pauses,      \* bound: after how many calls of set the clock may move
          MaxCount     \* bound: how often a TMC group is counted

\* A group is four blocks of 16 bits, each with its status.
Words == 0..65535
Groups == [data : [0..3 -> Words], status : [0..3 -> {Uncorrectable, Corrected, Valid}]]

ASSUME UnsetAssumption == Unset \notin Seq(Nat)
ASSUME BoundsAssumption ==
  MaxTime \in Nat /\ MaxPause \in Nat /\ Pauses \subseteq Nat /\ MaxCount \in Nat
ASSUME ProgrammesAssumption == \A programme \in Programmes : programme \subseteq Groups

VARIABLES
  values,     \* the items of RdsState: path -> RdsValue, see RdsFields
  tmc,        \* its TMC collector
  now,        \* std::time
  reported,   \* the items of the state the last step returned, if it did
  said,       \* the TMC messages announced by the last step
  failed,     \* the items whose CHECK, for a value they do not have, has failed
  onAir,      \* the programme being sent
  onIndex,    \* continuity index -> [groups, time]: the sender's last use of it
  evidence,   \* history: what a TMC group says -> 1 if once Corrected, 2 if more
  heard,      \* history: path -> [last: <<check, value>>, at: value -> what is known
              \* of its last reception: its time, first word, status and whether
              \* it was Valid or repeated the reception of the item before
  torn        \* history: the identifications of channels that were set last in
              \* a group in which the clock moved on after that

vars == <<values, tmc, now, reported, said, failed, onAir, onIndex, evidence, heard, torn>>

Nothing == [p \in {} |-> Unset]

Item(vs, p) == IF p \in DOMAIN vs THEN vs[p] ELSE NewValue

\* The paths ending in these names are elements erased with their value.
Erasable == {"alternative_frequencies", "oda_aids", "frequencies"}

Name(p) == IF Len(p) <= 2 THEN p[1] ELSE p[3]

Tag(p) ==
  CASE Name(p) \in {"traffic_announcement", "music_speech", "stereo",
                    "artificial_head", "compressed", "dynamic_pty"} -> "Current"
    [] Name(p) \in {"programme_service_name", "radio_text", "text_ab",
                    "programme_type_name", "ptn_ab"} -> "Text"
    [] Name(p) = "current_time" -> "Clock"
    [] OTHER -> "Programme"

-----------------------------------------------------------------------------
(* RdsState::clear: every item but one expires; elements of containers are *)
(* erased with their last value.                                           *)

(* Mutant: an element stays in its container until it expires.             *)
ClearExpired(vs, everything, t) ==
  LET old == {p \in DOMAIN vs : p # <<"dab_freq">> /\ Expired(vs[p], Tag(p), everything, t)}
  IN [p \in {q \in DOMAIN vs : q \in old => ~(Name(q) \in Erasable /\ vs[q].sent)} |->
        IF p \in old THEN Invalidate(vs[p]) ELSE vs[p]]

Clear(vs, everything, t) ==
  LET left == [p \in DOMAIN vs |->
                 IF p # <<"dab_freq">> /\ Expired(vs[p], Tag(p), everything, t)
                 THEN Invalidate(vs[p]) ELSE vs[p]]
      Kept(p) == IF Name(p) \in Erasable THEN left[p].sent
                 ELSE Len(p) >= 3 =>
                        \E q \in DOMAIN left : /\ Len(q) >= 3 /\ left[q].sent
                                               /\ SubSeq(q, 1, 2) = SubSeq(p, 1, 2)
  IN [p \in {q \in DOMAIN left : Kept(q)} |-> left[p]]

TextOf == [flag \in {<<"text_ab">>, <<"ptn_ab">>} |->
             IF flag = <<"text_ab">> THEN "radio_text" ELSE "programme_type_name"]

\* A change of an A/B flag wipes the text it belongs to.
(* Mutant: the two flags are mixed up.                                     *)
WipedOther(p) ==
  CASE p = <<"text_ab">> -> {"programme_type_name"}
    [] p = <<"ptn_ab">> -> {"radio_text"}
    [] OTHER -> {}

Wiped(p) == IF p \in DOMAIN TextOf THEN {TextOf[p]} ELSE {}

Assign(vs, w, t) ==
  LET wiped == IF Changing(Item(vs, w.p), w.v, w.c, w.s) THEN Wiped(w.p) ELSE {}
      others == [p \in DOMAIN vs |-> IF p[1] \in wiped THEN Invalidate(vs[p]) ELSE vs[p]]
  IN IF w.s = Uncorrectable THEN vs
     ELSE With(others, w.p, SetValue(Item(vs, w.p), w.v, w.c, w.s, t))

\* The items after none, one, two ... of the calls of set, and after all; ts
\* says when each of them reads the clock.
Assigned(vs, ws, ts) ==
  LET after[k \in 0..Len(ws)] == IF k = 0 THEN vs ELSE Assign(after[k - 1], ws[k], ts[k])
  IN after

AssignAll(vs, ws, ts) == Assigned(vs, ws, ts)[Len(ws)]

\* What n calls may read if the clock moves on between two of them, or not.
Readings(from, to, n) ==
  {[k \in 1..n |-> IF k <= before THEN from ELSE to] : before \in Pauses}

-----------------------------------------------------------------------------
(* decodeGroup                                                             *)

Type(g) == Bits(g.data[1], 11, 5)
KnownTypes == {0, 1, 2, 3, 4, 5, 6, 8, 20, 28, 29, 30, 31}

OdaPath(g) == <<"oda_aids", Type(g)>>
IsOda(vs, g) == Type(g) \notin KnownTypes /\ OdaPath(g) \in DOMAIN vs

\* 8A groups carry TMC when no application is announced for them.
IsTmc(vs, g) ==
  /\ \A i \in 1..3 : g.status[i] >= Corrected
  /\ IF IsOda(vs, g) THEN vs[OdaPath(g)].sentValue \in TmcAids ELSE Type(g) = 16

TypeFields(vs, g) ==
  LET type == Type(g)
  IN CASE type \in {0, 1} -> Type0(g, type = 1)
       [] type \in {2, 3} -> Type1(g, type = 3, Item(vs, <<"programme_identification">>))
       [] type \in {4, 5} -> Type2(g, type = 5)
       [] type = 6 -> Type3A(g, Item(vs, <<"tmc_mode">>))
       [] type = 8 -> Type4A(g)
       [] type = 20 -> Type10A(g)
       [] type \in {28, 29} -> Type14(g, type = 29)
       [] type = 31 -> Type15B(g)
       [] OTHER ->
            IF IsTmc(vs, g) THEN IF Bits(g.data[1], 0, 5) \in 20..25 THEN TmcTuning(g) ELSE <<>>
            ELSE IF IsOda(vs, g) /\ vs[OdaPath(g)].sentValue = DabAid THEN DabReference(g)
            ELSE <<>>

\* What the fields of a type depend on was set at any time.
Fields(vs, g) ==
  LET common == CommonFields(g, 0)
  IN common \o IF g.status[1] < Corrected THEN <<>>
               ELSE TypeFields(AssignAll(vs, common, [k \in 1..3 |-> 0]), g)

Channel(pi) == <<"tmc_channels", pi, "programme_identification">>
IsChannel(p) == p[1] = "tmc_channels" /\ p[3] = "programme_identification"

\* The channels tuning information looks for: ensureTmcChannel.
Sought(vs, g) ==
  LET variant == Bits(g.data[1], 0, 4)
  IN IF ~(IsTmc(vs, g) /\ Bits(g.data[1], 0, 5) \in 20..25) THEN {}
     ELSE CASE variant \in {6, 7, 9} -> {Channel(g.data[3])}
            [] variant = 8 -> {Channel(g.data[i]) : i \in {j \in 2..3 : g.data[j] # 0}}
            [] OTHER -> {}

\* Those that are asked for what they do not have: lastValue() of channels and
\* of frequencies, in searches; value() of the application of the group.
Missing(vs, g) ==
  LET channels == IF Sought(vs, g) = {} THEN {} ELSE {p \in DOMAIN vs : IsChannel(p)}
      frequencies == {p \in DOMAIN vs : Name(p) \in {"alternative_frequencies", "frequencies"}}
  IN {p \in channels \cup frequencies : ~HasLastValue(vs[p])}
       \cup {p \in {OdaPath(g)} : g.status[1] >= Corrected /\ IsOda(vs, g) /\ ~HasValue(vs[p])}

\* What may come of a group: it sets all its fields, or the CHECK of one that is
\* missing fails.  A search ends at the channel it is for, which may stand before
\* the missing ones.  Channels are sought before anything but the common fields
\* is set (a group of two channels may have set the first: left out).
Outcomes(vs, g) ==
  LET missing == Missing(vs, g)
      found == /\ Sought(vs, g) # {}
               /\ \A p \in Sought(vs, g) : p \in DOMAIN vs /\ HasLastValue(vs[p])
  IN {[failed |-> {p}, sets |-> CommonFields(g, 0)] : p \in missing}
       \cup IF missing = {} \/ found THEN {[failed |-> {}, sets |-> Fields(vs, g)]} ELSE {}

-----------------------------------------------------------------------------
(* What the sender of TMC may do: a message may use an index whose last    *)
(* message has been off the air for longer than parts are kept.            *)

Sends(g) == {m \in TmcSent : g.data \in m}
Index(g) == Bits(g.data[1], 0, 3) - 1

\* One of several groups; it says the same under every continuity index.
IsPart(g) == Bits(g.data[1], 0, 5) \in 1..6
Says(g) == IF IsPart(g) THEN Tail(TmcWords(g)) ELSE TmcWords(g)

Announces(g, type) ==
  Type(g) = 6 /\ Bits(g.data[1], 0, 5) = type /\ g.data[3] \in TmcAids

\* The parts on the air are parts of the messages.
ASSUME SentAssumption ==
  \A programme \in Programmes : \A g \in programme :
    /\ IsPart(g)
    /\ Type(g) = 16 \/ \E a \in programme : Announces(a, Type(g))
    => Sends(g) # {}

SenderMay(g) ==
  \A m \in Sends(g) :
    \/ onIndex[Index(g)].groups \in {m, {}}
    \/ now - onIndex[Index(g)].time > TmcImmediateTimeout

\* No part of a message says that three more follow it: after the second there
\* are two at most, and remaining_groups is used as an index without a test.
ASSUME RemainingAssumption ==
  \A programme \in Programmes : \A g \in programme :
    IsPart(g) /\ Bits(g.data[2], 14, 2) = 0 => Bits(g.data[2], 12, 2) \in Remaining

CountsBounded(collector) ==
  \A i \in ContinuityIndices :
    \A parts \in {collector.first[i], collector.second[i]}
                   \cup {collector.next[i][r] : r \in Remaining} :
      \A k \in DOMAIN parts : parts[k].count <= MaxCount

\* Within one group, since some time, what was believed of an item stays so.
Hears(h, w, t, since) ==
  LET known == w.p \in DOMAIN h
      old == IF known THEN h[w.p].at ELSE Nothing
      grounds == \/ w.s = Valid
                 \/ known /\ h[w.p].last = <<w.c, w.v>>
                 \/ w.v \in DOMAIN old /\ old[w.v].time >= since /\ old[w.v].grounds
  IN IF w.s = Uncorrectable THEN h
     ELSE With(h, w.p, [last |-> <<w.c, w.v>>,
                        at |-> With(old, w.v, [time |-> t, word |-> w.c[1],
                                               status |-> w.s, grounds |-> grounds])])

HeardAfter(h, ws, ts, since) ==
  LET after[k \in 0..Len(ws)] ==
        IF k = 0 THEN h ELSE Hears(after[k - 1], ws[k], ts[k], since)
  IN after

\* The channels a group has set, and those after which the clock moved on.
ChannelsIn(ws) == {p \in {ws[k].p : k \in DOMAIN ws} : IsChannel(p)}
TornIn(ws, ts) ==
  {p \in ChannelsIn(ws) : \E k \in DOMAIN ws : ws[k].p = p /\ ts[k] < ts[Len(ws)]}

-----------------------------------------------------------------------------
Init ==
  /\ values = Nothing
  /\ tmc = NewCollector
  /\ now = 0
  /\ reported = Nothing
  /\ said = <<>>
  /\ failed = {}
  /\ onAir \in Programmes
  /\ onIndex = [i \in ContinuityIndices |-> [groups |-> {}, time |-> 0]]
  /\ evidence = Nothing
  /\ heard = Nothing
  /\ torn = {}

\* process, for one group of its input: old items go before the group speaks,
\* by a reading of the clock of their own; the clock may then move on between
\* two calls of set.  A CHECK that fails aborts: no group follows.
Process(g) ==
  /\ failed = {}
  /\ SenderMay(g)
  /\ \E vs \in {Clear(values, FALSE, now)}, c \in ClearTmc(tmc, FALSE, now) :
     \E later \in {t \in now..MaxTime : t - now <= MaxPause}, o \in Outcomes(vs, g) :
       /\ now' = later
       /\ failed' = o.failed
       /\ \E ts \in Readings(now, later, Len(o.sets)) :
            /\ values' = AssignAll(vs, o.sets, ts)
            /\ heard' = HeardAfter(heard, o.sets, ts, now)[Len(o.sets)]
            /\ torn' = (torn \ ChannelsIn(o.sets)) \cup TornIn(o.sets, ts)
       /\ \E d \in IF IsTmc(vs, g) THEN TmcGroup(c.tmc, g, later)
                  ELSE {[tmc |-> c.tmc, said |-> <<>>]} :
            /\ CountsBounded(d.tmc)
            /\ tmc' = d.tmc
            /\ said' = c.said \o d.said
       /\ onIndex' = IF Sends(g) = {} THEN onIndex
                     ELSE [onIndex EXCEPT ![Index(g)] =
                             [groups |-> CHOOSE m \in Sends(g) : TRUE, time |-> later]]
       /\ evidence' = IF IsTmc(vs, g)
                      THEN With(evidence, Says(g),
                                IF Says(g) \in DOMAIN evidence \/ GroupStatus(g) = Valid
                                THEN 2 ELSE 1)
                      ELSE evidence
  /\ reported' = Nothing
  /\ UNCHANGED onAir

(* Mutant: the copy is returned as it is.                                  *)
StateUncleared ==
  /\ reported' = values
  /\ \E c \in ClearTmc(tmc, FALSE, now) : said' = c.said
  /\ UNCHANGED <<values, tmc, now, failed, onAir, onIndex, evidence, heard, torn>>

\* state(): a copy is cleared and returned, the decoder's own is left alone.
State ==
  /\ reported' = Clear(values, FALSE, now)
  /\ \E c \in ClearTmc(tmc, FALSE, now) : said' = c.said
  /\ UNCHANGED <<values, tmc, now, failed, onAir, onIndex, evidence, heard, torn>>

\* reset(): nothing is shown any more.
Reset ==
  /\ values' = Clear(values, TRUE, 0)
  /\ \E c \in ClearTmc(tmc, TRUE, 0) : tmc' = c.tmc /\ said' = c.said
  /\ reported' = Nothing
  /\ UNCHANGED <<now, failed, onAir, onIndex, evidence, heard, torn>>

Tick ==
  /\ now < MaxTime
  /\ now' = now + 1
  /\ reported' = Nothing
  /\ said' = <<>>
  /\ UNCHANGED <<values, tmc, failed, onAir, onIndex, evidence, heard, torn>>

Next ==
  \/ \E g \in onAir : Process(g)
  \/ State
  \/ Reset
  \/ Tick

Spec == Init /\ [][Next]_vars

-----------------------------------------------------------------------------
(* dump(): items that are printed because another one is valid.            *)

ReadWith ==
  {<<<<"programme_type">>, <<"traffic_programme">>>>}
    \cup {<<<<"tmc_ltn">>, <<name>>>> :
            name \in {"tmc_afi", "tmc_mode", "tmc_scope_i13l", "tmc_scope_national",
                      "tmc_scope_regional", "tmc_scope_urban"}}
    \cup {<<<<"tmc_gap">>, <<"tmc_sid">>>>}
    \cup {<<<<"tmc_activity_time">>, <<name>>>> : name \in {"tmc_window_time", "tmc_delay_time"}}
    \cup {<<<<"dab_link_linkage_actuator">>, <<name>>>> :
            name \in {"dab_link_soft_hard", "dab_link_i13l_linkage_set",
                      "dab_link_linkage_set_number"}}

PartsReadWith ==
  {<<"ltn", name>> : name \in {"sid", "scope_i13l", "scope_national",
                               "scope_regional", "scope_urban"}}
    \cup {<<"linkage_actuator", name>> :
            name \in {"extended_generic", "i13l_linkage_set", "linkage_set_number"}}

\* Everything is printed under the programme identification, and the TMC and
\* DAB details under tmc_ltn, tmc_gap and dab_eid.
PrintedUnder(p) ==
  {<<"programme_identification">>}
    \cup (IF p[1] \in {"tmc_gap", "tmc_activity_time"} THEN {<<"tmc_ltn">>} ELSE {})
    \cup (IF p[1] = "tmc_activity_time" THEN {<<"tmc_gap">>} ELSE {})
    \cup (IF p[1] = "dab_link_linkage_actuator" THEN {<<"dab_eid">>} ELSE {})
    \cup (IF p[1] = "tmc_channels" THEN {<<p[1], p[2], "programme_identification">>} ELSE {})

DumpReads(vs) ==
  LET Shown(p) == Item(vs, p).sent /\ \A q \in PrintedUnder(p) : Item(vs, q).sent
  IN {r[2] : r \in {rw \in ReadWith : Shown(rw[1])}}
       \cup UNION {{<<p[1], p[2], r[2]>> : r \in {rw \in PartsReadWith : rw[1] = p[3]}} :
                   p \in {q \in DOMAIN vs : Len(q) = 3 /\ Shown(q)}}

-----------------------------------------------------------------------------
\* The items are RdsValue objects, nothing in them is from the future, and
\* what waits for confirmation was heard but not believed.
TypeOK ==
  /\ \A p \in DOMAIN values :
       /\ DOMAIN values[p] = DOMAIN NewValue
       /\ values[p].sent \in BOOLEAN /\ values[p].hasCorrected \in BOOLEAN
       /\ values[p].lastUpdate \in 0..now
       /\ HasLastValue(values[p]) => values[p].lastCheck # Unset
  /\ DOMAIN tmc = DOMAIN NewCollector
  /\ now \in 0..MaxTime
  /\ failed \subseteq DOMAIN heard
  /\ torn \subseteq DOMAIN heard
  /\ onAir \in Programmes

\* No CHECK of the decoder fails: an application that is looked up has been
\* believed, although one heard once is in the table too, and the frequencies
\* and channels that are searched have a last value, although each of their
\* members is invalidated on its own.
NoCheckFails == failed = {}

\* The same, but for a channel whose last group the clock has torn: one second
\* for its identification, the next for its details, which outlive it.
NoCheckFailsUnlessTorn == failed \subseteq torn

\* An item the user is shown was received, with that very value, not longer
\* ago than its kind may be shown.  dab_freq is not in RdsState::clear.
ReportedFresh ==
  \A p \in DOMAIN reported \ {<<"dab_freq">>} :
    reported[p].sent =>
      /\ reported[p].sentValue \in DOMAIN heard[p].at
      /\ now - heard[p].at[reported[p].sentValue].time <= Validity[Tag(p)]

\* dump() never asks a value of an item that has none: the CHECK in value().
DumpReadsValid == \A p \in DumpReads(reported) : HasValue(Item(reported, p))

\* A TMC message of several groups is put together from groups of one message
\* (or cut short, or padded), however many of them are lost and although the
\* continuity indices are used again.
AnnouncedWhole ==
  \A k \in DOMAIN said :
    said[k].extra # <<>> =>
      \E m \in TmcSent :
        /\ \E d \in m : said[k].words = <<Bits(d[1], 0, 3), d[2], d[3]>>
        /\ \A n \in DOMAIN said[k].extra :
             \/ said[k].extra[n] = <<0, 0>>
             \/ \E d \in m : said[k].extra[n] = <<Bits(d[2], 0, 12), d[3]>>

\* No TMC message is announced whose first group was heard only once and only
\* Corrected, be it in one group, flushed when its time is over, or confirmed
\* by a later transmission of the same.
AnnouncedOnEvidence ==
  \A k \in DOMAIN said :
    evidence[IF said[k].extra = <<>> THEN said[k].words ELSE Tail(said[k].words)] = 2

\* Radio text and programme type name are never shown from the text before the
\* A/B flag changed: what a Valid group said of a position had the flag that is
\* shown, although flag and text expire and are believed one by one.
TextOfOneFlag ==
  \A p \in DOMAIN values :
    \A flag \in DOMAIN TextOf :
      (/\ p[1] = TextOf[flag]
       /\ values[p].sent /\ Item(values, flag).sent
       /\ heard[p].at[values[p].sentValue].status = Valid)
         => Bits(heard[p].at[values[p].sentValue].word, 4, 1) = values[flag].sentValue

\* An item starts to show a value only on a Valid reception, or when two
\* receptions in a row of that item carried it in the same bits.  (A country is
\* looked up with the programme identification of the moment: the same bits
\* may then stand for another one.)
BelievedOnEvidence ==
  [][\A p \in DOMAIN values' \ {<<"country">>} :
       LET v == values'[p].sentValue
           starts == values'[p].sent /\ ~(Item(values, p).sent /\ values[p].sentValue = v)
       IN starts => heard'[p].at[v].time \in now..now' /\ heard'[p].at[v].grounds]_vars
=============================================================================
