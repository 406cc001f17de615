----------------------------- MODULE RdsProofs ------------------------------
(***************************************************************************)
(* Proofs about RdsMessages: what the items of RdsState hold after any     *)
(* groups in any order, whatever is lost.                                  *)
(***************************************************************************)
EXTENDS RdsMessages, Inductions, SequenceTheorems

-----------------------------------------------------------------------------
(* Sequences, whatever their elements are.                                 *)

IsSeq(s) == \E S : s \in Seq(S)

LEMMA Tuples ==
  ASSUME NEW a, NEW b, NEW c, NEW d
  PROVE  /\ <<a>> \in Seq({a}) /\ <<a, b>> \in Seq({a, b})
         /\ <<a, b, c>> \in Seq({a, b, c}) /\ <<a, b, c, d>> \in Seq({a, b, c, d})
  OBVIOUS

LEMMA TuplesAre ==
  ASSUME NEW a, NEW b, NEW c, NEW d
  PROVE  IsSeq(<<>>) /\ IsSeq(<<a>>) /\ IsSeq(<<a, b>>) /\ IsSeq(<<a, b, c>>) /\ IsSeq(<<a, b, c, d>>)
<1>1. <<>> \in Seq({})
  OBVIOUS
<1> QED BY <1>1, Tuples DEF IsSeq

LEMMA Joined ==
  ASSUME NEW s, NEW t, IsSeq(s), IsSeq(t)
  PROVE  /\ IsSeq(s \o t) /\ Len(s) \in Nat /\ Len(t) \in Nat /\ Len(s \o t) = Len(s) + Len(t)
         /\ \A k \in 1..Len(s) : (s \o t)[k] = s[k]
         /\ \A k \in 1..Len(t) : (s \o t)[Len(s) + k] = t[k]
<1>1. PICK S : s \in Seq(S)
  BY DEF IsSeq
<1>2. PICK T : t \in Seq(T)
  BY DEF IsSeq
<1> DEFINE U == S \cup T
<1>3. s \in Seq(U) /\ t \in Seq(U)
  BY <1>1, <1>2
<1> HIDE DEF U
<1>4. s \o t \in Seq(U)
  BY <1>3
<1>5. /\ Len(s) \in Nat /\ Len(t) \in Nat /\ Len(s \o t) = Len(s) + Len(t)
      /\ \A k \in 1..Len(s) : (s \o t)[k] = s[k]
      /\ \A k \in 1..Len(t) : (s \o t)[Len(s) + k] = t[k]
  BY <1>3
<1> QED BY <1>4, <1>5 DEF IsSeq

LEMMA Leading ==
  ASSUME NEW w, NEW s, NEW t, IsSeq(s), IsSeq(t)
  PROVE  /\ Len(<<w>> \o s) >= 1 /\ (<<w>> \o s)[1] = w
         /\ Len(<<w>> \o s \o t) >= 1 /\ (<<w>> \o s \o t)[1] = w
<1> DEFINE o == <<w>>
<1>1. IsSeq(o) /\ Len(o) = 1 /\ o[1] = w
  BY TuplesAre
<1> HIDE DEF o
<1>2. /\ IsSeq(o \o s) /\ Len(s) \in Nat /\ Len(o \o s) = Len(o) + Len(s)
      /\ \A k \in 1..Len(o) : (o \o s)[k] = o[k]
  BY <1>1, Joined
<1> DEFINE u == o \o s
<1> HIDE DEF u
<1>3. /\ IsSeq(u) /\ Len(u) \in Nat /\ Len(u) >= 1 /\ u[1] = w
  BY <1>1, <1>2 DEF u
<1>4. /\ Len(t) \in Nat /\ Len(u \o t) = Len(u) + Len(t)
      /\ \A k \in 1..Len(u) : (u \o t)[k] = u[k]
  BY <1>3, Joined
<1>5. Len(u \o t) >= 1 /\ (u \o t)[1] = w
  BY <1>3, <1>4
<1> QED BY <1>3, <1>5 DEF u, o

LEMMA Appended ==
  ASSUME NEW s, NEW e, IsSeq(s)
  PROVE  /\ IsSeq(Append(s, e)) /\ Len(s) \in Nat /\ Len(Append(s, e)) = Len(s) + 1
         /\ \A k \in 1..Len(s) : Append(s, e)[k] = s[k]
         /\ Append(s, e)[Len(s) + 1] = e
<1>1. PICK S : s \in Seq(S)
  BY DEF IsSeq
<1> DEFINE U == S \cup {e}
<1>2. s \in Seq(U) /\ e \in U
  BY <1>1
<1> HIDE DEF U
<1>3. Append(s, e) \in Seq(U)
  BY <1>2
<1>4. /\ Len(s) \in Nat /\ Len(Append(s, e)) = Len(s) + 1
      /\ \A k \in 1..Len(s) : Append(s, e)[k] = s[k]
      /\ Append(s, e)[Len(s) + 1] = e
  BY <1>2
<1> QED BY <1>3, <1>4 DEF IsSeq

LEMMA Sliced ==
  ASSUME NEW s, NEW t, IsSeq(s), IsSeq(t), Len(s) >= 2, Len(t) >= 2
  PROVE  SubSeq(s, 1, 2) = SubSeq(t, 1, 2) <=> (s[1] = t[1] /\ s[2] = t[2])
<1>1. PICK S : s \in Seq(S)
  BY DEF IsSeq
<1>2. PICK T : t \in Seq(T)
  BY DEF IsSeq
<1> DEFINE U == S \cup T
<1>3. s \in Seq(U) /\ t \in Seq(U)
  BY <1>1, <1>2
<1> HIDE DEF U
<1>4. /\ SubSeq(s, 1, 2) \in Seq(U) /\ Len(SubSeq(s, 1, 2)) = 2
      /\ SubSeq(s, 1, 2)[1] = s[1] /\ SubSeq(s, 1, 2)[2] = s[2]
  BY <1>3
<1>5. /\ SubSeq(t, 1, 2) \in Seq(U) /\ Len(SubSeq(t, 1, 2)) = 2
      /\ SubSeq(t, 1, 2)[1] = t[1] /\ SubSeq(t, 1, 2)[2] = t[2]
  BY <1>3
<1>6. ASSUME s[1] = t[1], s[2] = t[2] PROVE SubSeq(s, 1, 2) = SubSeq(t, 1, 2)
  <2>1. \A k \in 1..2 : SubSeq(s, 1, 2)[k] = SubSeq(t, 1, 2)[k]
    BY <1>4, <1>5, <1>6
  <2> QED BY <1>4, <1>5, <2>1, SeqEqual
<1> QED BY <1>4, <1>5, <1>6

-----------------------------------------------------------------------------
(* Bits and statuses                                                       *)

(* The fields that are used as numbers.                                    *)
LEMMA BitsNat ==
  ASSUME NEW d \in Nat
  PROVE  /\ Bits(d, 0, 1) \in 0..1 /\ Bits(d, 0, 2) \in 0..3 /\ Bits(d, 0, 3) \in 0..7
         /\ Bits(d, 0, 4) \in 0..15 /\ Bits(d, 0, 5) \in 0..31 /\ Bits(d, 0, 8) \in 0..255
         /\ Bits(d, 8, 8) \in 0..255 /\ Bits(d, 12, 2) \in 0..3
<1>1. /\ 2^0 = 1 /\ 2^1 = 2 /\ 2^2 = 4 /\ 2^3 = 8 /\ 2^4 = 16 /\ 2^5 = 32 /\ 2^8 = 256
      /\ 2^12 = 4096
  OBVIOUS
<1>2. /\ (d \div 1) % 2 \in 0..1 /\ (d \div 1) % 4 \in 0..3 /\ (d \div 1) % 8 \in 0..7
      /\ (d \div 1) % 16 \in 0..15 /\ (d \div 1) % 32 \in 0..31
      /\ (d \div 1) % 256 \in 0..255 /\ (d \div 256) % 256 \in 0..255
      /\ (d \div 4096) % 4 \in 0..3
  OBVIOUS
<1>3. Bits(d, 0, 1) \in 0..1
  BY <1>1, <1>2 DEF Bits
<1>4. Bits(d, 0, 2) \in 0..3
  BY <1>1, <1>2 DEF Bits
<1>5. Bits(d, 0, 3) \in 0..7
  BY <1>1, <1>2 DEF Bits
<1>6. Bits(d, 0, 4) \in 0..15
  BY <1>1, <1>2 DEF Bits
<1>7. Bits(d, 0, 5) \in 0..31
  BY <1>1, <1>2 DEF Bits
<1>8. Bits(d, 0, 8) \in 0..255
  BY <1>1, <1>2 DEF Bits
<1>9. Bits(d, 8, 8) \in 0..255
  BY <1>1, <1>2 DEF Bits
<1>10. Bits(d, 12, 2) \in 0..3
  BY <1>1, <1>2 DEF Bits
<1> QED BY <1>3, <1>4, <1>5, <1>6, <1>7, <1>8, <1>9, <1>10

LEMMA LowBits ==
  ASSUME NEW d \in Nat
  PROVE  Bits(d, 0, 4) = d % 16 /\ Bits(d, 0, 5) = d % 32 /\ Bits(d, 0, 3) = d % 8
<1>1. 2^0 = 1 /\ 2^4 = 16 /\ 2^5 = 32 /\ 2^3 = 8
  OBVIOUS
<1>2. d \div 1 = d
  OBVIOUS
<1>3. Bits(d, 0, 4) = d % 16
  BY <1>1, <1>2 DEF Bits
<1>4. Bits(d, 0, 5) = d % 32
  BY <1>1, <1>2 DEF Bits
<1>5. Bits(d, 0, 3) = d % 8
  BY <1>1, <1>2 DEF Bits
<1> QED BY <1>3, <1>4, <1>5

LEMMA MinTwo ==
  ASSUME NEW a \in 0..2, NEW b \in 0..2
  PROVE  LET m == Min({a, b}) IN m \in {a, b} /\ m <= a /\ m <= b
<1>1. \E m \in {a, b} : \A y \in {a, b} : m <= y
  OBVIOUS
<1> QED BY <1>1 DEF Min

LEMMA MinThree ==
  ASSUME NEW a \in 0..2, NEW b \in 0..2, NEW c \in 0..2
  PROVE  LET m == Min({a, b, c}) IN m \in {a, b, c} /\ m <= a /\ m <= b /\ m <= c
<1>1. \E m \in {a, b, c} : \A y \in {a, b, c} : m <= y
  <2>1. (a <= b /\ a <= c) \/ (b <= a /\ b <= c) \/ (c <= a /\ c <= b)
    OBVIOUS
  <2> QED BY <2>1
<1> QED BY <1>1 DEF Min

-----------------------------------------------------------------------------
(* What the bits that carry an item mean, for every item but the country.  *)

\* A character is in the upper or in the lower byte, by its position.
CharOf(k, d) == IF k % 2 = 0 THEN Bits(d, 8, 8) ELSE Bits(d, 0, 8)

EonMeaning(p, c) ==
  CASE p[3] = "traffic_programme" -> Bits(c[1], 4, 1)
    [] p[3] = "programme_service_name" -> CharOf(p[4], c[2])
    [] p[3] = "frequencies" -> p[4]
    [] p[3] = "linkage_actuator" -> Bits(c[2], 15, 1)
    [] p[3] = "extended_generic" -> Bits(c[2], 14, 1)
    [] p[3] = "i13l_linkage_set" -> Bits(c[2], 13, 1)
    [] p[3] = "linkage_set_number" -> Bits(c[2], 0, 12)
    [] p[3] = "programme_type" -> Bits(c[2], 11, 5)
    [] p[3] = "traffic_announcement" -> Bits(c[2], 0, 1)
    [] OTHER -> StartTime(c[2])

ChannelMeaning(p, c) ==
  CASE p[3] = "programme_identification" -> c[2]
    [] p[3] = "frequencies" -> p[4]
    [] p[3] = "ltn" -> Bits(c[2], 10, 6)
    [] p[3] = "scope_i13l" -> Bits(c[2], 9, 1)
    [] p[3] = "scope_national" -> Bits(c[2], 8, 1)
    [] p[3] = "scope_regional" -> Bits(c[2], 7, 1)
    [] p[3] = "scope_urban" -> Bits(c[2], 6, 1)
    [] OTHER -> Bits(c[2], 0, 6)

TmcMeaning(p, c) ==
  CASE p[1] = "tmc_ltn" -> Bits(c[2], 6, 6)
    [] p[1] = "tmc_afi" -> Bits(c[2], 5, 1)
    [] p[1] = "tmc_mode" -> Bits(c[2], 4, 1)
    [] p[1] = "tmc_scope_i13l" -> Bits(c[2], 3, 1)
    [] p[1] = "tmc_scope_national" -> Bits(c[2], 2, 1)
    [] p[1] = "tmc_scope_regional" -> Bits(c[2], 1, 1)
    [] p[1] = "tmc_scope_urban" -> Bits(c[2], 0, 1)
    [] p[1] = "tmc_gap" -> Bits(c[2], 12, 2)
    [] p[1] = "tmc_sid" -> Bits(c[2], 6, 6)
    [] p[1] = "tmc_activity_time" -> Bits(c[2], 4, 2)
    [] p[1] = "tmc_window_time" -> Bits(c[2], 2, 2)
    [] OTHER -> Bits(c[2], 0, 2)

DabMeaning(p, c) ==
  CASE p[1] = "dab_link_linkage_actuator" -> Bits(c[2], 14, 1)
    [] p[1] = "dab_link_soft_hard" -> Bits(c[2], 13, 1)
    [] p[1] = "dab_link_i13l_linkage_set" -> Bits(c[2], 12, 1)
    [] p[1] = "dab_link_linkage_set_number" -> Bits(c[2], 0, 12)
    [] p[1] = "dab_mode" -> Bits(c[1], 2, 2)
    [] p[1] = "dab_freq" -> 65536 * Bits(c[1], 0, 2) + c[2]
    [] OTHER -> c[2]

CurrentTime(c) ==
  <<32768 * Bits(c[1], 0, 2) + Bits(c[2], 1, 15),
    16 * Bits(c[2], 0, 1) + Bits(c[3], 12, 4), Bits(c[3], 6, 6)>>

Strings == {"programme_service_name", "radio_text", "programme_type_name",
            "tmc_service_provider_name"}

Flags == {"text_ab", "ptn_ab"}

TmcNames == {"tmc_ltn", "tmc_afi", "tmc_mode", "tmc_scope_i13l", "tmc_scope_national",
             "tmc_scope_regional", "tmc_scope_urban", "tmc_gap", "tmc_sid",
             "tmc_activity_time", "tmc_window_time", "tmc_delay_time"}

DabNames == {"dab_link_linkage_actuator", "dab_link_soft_hard", "dab_link_i13l_linkage_set",
             "dab_link_linkage_set_number", "dab_mode", "dab_freq", "dab_eid", "dab_sid"}

Meaning(p, c) ==
  CASE p[1] = "programme_identification" -> c[1]
    [] p[1] = "traffic_programme" -> Bits(c[1], 10, 1)
    [] p[1] = "programme_type" -> Bits(c[1], 5, 5)
    [] p[1] \in {"traffic_announcement", "text_ab", "ptn_ab"} -> Bits(c[1], 4, 1)
    [] p[1] \in {"music_speech", "stereo", "artificial_head", "compressed", "dynamic_pty"} ->
         Bits(c[1], 3, 1)
    [] p[1] = "linkage_actuator" -> Bits(c[2], 15, 1)
    [] p[1] = "language" -> Bits(c[2], 0, 11)
    [] p[1] = "programme_item_start_time" -> StartTime(c[2])
    [] p[1] = "oda_aids" -> c[2]
    [] p[1] = "alternative_frequencies" -> p[2]
    [] p[1] = "current_time" -> CurrentTime(c)
    [] p[1] \in Strings -> CharOf(p[2], c[2])
    [] p[1] \in TmcNames -> TmcMeaning(p, c)
    [] p[1] \in DabNames -> DabMeaning(p, c)
    [] p[1] = "eon_mapping" -> EonMeaning(p, c)
    [] p[1] = "tmc_channels" -> ChannelMeaning(p, c)

LEMMA OwnMeanings ==
  ASSUME NEW c
  PROVE  /\ Meaning(<<"programme_identification">>, c) = c[1]
         /\ Meaning(<<"traffic_programme">>, c) = Bits(c[1], 10, 1)
         /\ Meaning(<<"programme_type">>, c) = Bits(c[1], 5, 5)
         /\ Meaning(<<"traffic_announcement">>, c) = Bits(c[1], 4, 1)
         /\ Meaning(<<"text_ab">>, c) = Bits(c[1], 4, 1)
         /\ Meaning(<<"ptn_ab">>, c) = Bits(c[1], 4, 1)
         /\ Meaning(<<"linkage_actuator">>, c) = Bits(c[2], 15, 1)
         /\ Meaning(<<"language">>, c) = Bits(c[2], 0, 11)
         /\ Meaning(<<"programme_item_start_time">>, c) = StartTime(c[2])
         /\ Meaning(<<"current_time">>, c) = CurrentTime(c)
         /\ \A n \in {"music_speech", "stereo", "artificial_head", "compressed", "dynamic_pty"} :
              Meaning(<<n>>, c) = Bits(c[1], 3, 1)
         /\ \A k : Meaning(<<"oda_aids", k>>, c) = c[2]
  BY DEF Meaning, Strings, TmcNames, DabNames

LEMMA TmcMeanings ==
  ASSUME NEW c
  PROVE  \A n \in TmcNames : Meaning(<<n>>, c) = TmcMeaning(<<n>>, c)
  BY DEF Meaning, Strings, TmcNames, DabNames

LEMMA DabMeanings ==
  ASSUME NEW c
  PROVE  \A n \in DabNames : Meaning(<<n>>, c) = DabMeaning(<<n>>, c)
  BY DEF Meaning, Strings, TmcNames, DabNames

LEMMA ManyMeanings ==
  ASSUME NEW c, NEW p
  PROVE  /\ p[1] \in Strings => Meaning(p, c) = CharOf(p[2], c[2])
         /\ p[1] = "alternative_frequencies" => Meaning(p, c) = p[2]
         /\ p[1] = "eon_mapping" => Meaning(p, c) = EonMeaning(p, c)
         /\ p[1] = "tmc_channels" => Meaning(p, c) = ChannelMeaning(p, c)
  BY DEF Meaning, Strings, TmcNames, DabNames

LEMMA TextFlags ==
  /\ DOMAIN TextOf = {<<"text_ab">>, <<"ptn_ab">>}
  /\ TextOf[<<"text_ab">>] = "radio_text" /\ TextOf[<<"ptn_ab">>] = "programme_type_name"
  BY DEF TextOf

-----------------------------------------------------------------------------
(* What every call of set is like that a group leads to.                   *)

Texts == {"radio_text", "programme_type_name"}

InChannel(p) ==
  /\ Len(p) >= 3 /\ Tag(p) = "Programme"
  /\ p[3] = "programme_identification" => p = Channel(p[2])

\* A TMC group that says more of the channel it names than that there is one.
Details(g) ==
  /\ Type(g) \notin KnownTypes /\ Bits(g.data[1], 0, 5) \in 20..25
  /\ Bits(g.data[1], 0, 4) \in {6, 7, 9}

\* A text is only sent together with its flag.
Carries(g, name) ==
  /\ name = "radio_text" => Type(g) \in {4, 5}
  /\ name = "programme_type_name" => Type(g) = 20

IsWrite(g, w) ==
  /\ IsSeq(w.p) /\ Len(w.p) >= 1
  /\ w.s \in {Uncorrectable, Corrected, Valid}
  /\ w.c \in Seq(Nat)
  /\ w.p[1] # "country" => w.v = Meaning(w.p, w.c)
  /\ w.p[1] = "country" => w.p = <<"country">>
  /\ w.p[1] \in Flags => w.p = <<w.p[1]>> /\ w.s = g.status[1] /\ w.v = Bits(g.data[1], 4, 1)
  /\ w.p[1] \in Texts => /\ Carries(g, w.p[1])
                         /\ w.c[1] = g.data[1] /\ (w.s = Valid => g.status[1] = Valid)
  /\ w.p[1] = "oda_aids" => /\ w.p = <<"oda_aids", Bits(g.data[1], 0, 5)>>
                            /\ Type(g) = 6 /\ w.v = g.data[3]
  /\ w.p[1] = "tmc_channels" =>
       /\ InChannel(w.p)
       /\ w.p = Channel(w.p[2]) => w.s # Uncorrectable /\ w.v = w.p[2]
       /\ w.p # Channel(w.p[2]) => Details(g) /\ w.p[2] = g.data[3]

Plain(p) ==
  /\ IsSeq(p) /\ Len(p) >= 1
  /\ p[1] \notin Flags \cup Texts \cup {"country", "oda_aids", "tmc_channels"}

LEMMA GroupWords ==
  ASSUME NEW g \in Groups, NEW i \in 0..3
  PROVE  /\ g.data[i] \in Nat /\ g.status[i] \in {Uncorrectable, Corrected, Valid}
         /\ g.status[i] \in 0..2
<1>1. g.data[i] \in Words /\ g.status[i] \in {Uncorrectable, Corrected, Valid}
  BY DEF Groups
<1>2. Words \subseteq Nat
  BY DEF Words
<1>3. {Uncorrectable, Corrected, Valid} \subseteq 0..2
  BY DEF Uncorrectable, Corrected, Valid
<1> QED BY <1>1, <1>2, <1>3

\* The records themselves.
LEMMA Carried ==
  ASSUME NEW g \in Groups, NEW p, NEW v, NEW i \in 0..3
  PROVE  /\ LET w == Block(g, p, v, i)
            IN /\ w.p = p /\ w.v = v /\ w.c = <<g.data[i]>> /\ w.s = g.status[i]
               /\ w.c \in Seq(Nat) /\ w.s \in {Uncorrectable, Corrected, Valid}
         /\ LET w == Typed(g, p, v, i)
            IN /\ w.p = p /\ w.v = v /\ w.c = <<g.data[1], g.data[i]>>
               /\ w.c[1] = g.data[1] /\ w.c[2] = g.data[i]
               /\ w.c \in Seq(Nat) /\ w.s \in {Uncorrectable, Corrected, Valid}
               /\ w.s = Valid => g.status[1] = Valid
               /\ g.status[1] >= Corrected /\ g.status[i] >= Corrected => w.s # Uncorrectable
         /\ LET w == TypedBoth(g, p, v)
            IN /\ w.p = p /\ w.v = v /\ w.c = <<g.data[1], g.data[2], g.data[3]>>
               /\ w.c \in Seq(Nat) /\ w.s \in {Uncorrectable, Corrected, Valid}
<1>1. /\ g.data[1] \in Nat /\ g.data[2] \in Nat /\ g.data[3] \in Nat /\ g.data[i] \in Nat
      /\ g.status[1] \in 0..2 /\ g.status[2] \in 0..2 /\ g.status[3] \in 0..2
      /\ g.status[i] \in 0..2
  BY GroupWords
<1>2. LET m == Min({g.status[1], g.status[i]})
      IN m \in {g.status[1], g.status[i]} /\ m <= g.status[1] /\ m <= g.status[i]
  BY <1>1, MinTwo
<1>3. LET m == Min({g.status[1], g.status[2], g.status[3]})
      IN m \in {g.status[1], g.status[2], g.status[3]}
  BY <1>1, MinThree
<1>4. /\ <<g.data[i]>> \in Seq(Nat) /\ <<g.data[1], g.data[i]>> \in Seq(Nat)
      /\ <<g.data[1], g.data[2], g.data[3]>> \in Seq(Nat)
  BY <1>1
<1>5. Block(g, p, v, i) = [p |-> p, v |-> v, c |-> <<g.data[i]>>, s |-> g.status[i]]
  BY DEF Block
<1>6. Typed(g, p, v, i) = [p |-> p, v |-> v, c |-> <<g.data[1], g.data[i]>>,
                           s |-> Min({g.status[1], g.status[i]})]
  BY DEF Typed
<1>7. TypedBoth(g, p, v) = [p |-> p, v |-> v, c |-> <<g.data[1], g.data[2], g.data[3]>>,
                            s |-> Min({g.status[1], g.status[2], g.status[3]})]
  BY DEF TypedBoth
<1>8. LET w == Block(g, p, v, i)
      IN /\ w.p = p /\ w.v = v /\ w.c = <<g.data[i]>> /\ w.s = g.status[i]
         /\ w.c \in Seq(Nat) /\ w.s \in {Uncorrectable, Corrected, Valid}
  BY <1>1, <1>4, <1>5 DEF Uncorrectable, Corrected, Valid
<1>9. LET w == Typed(g, p, v, i)
      IN /\ w.p = p /\ w.v = v /\ w.c = <<g.data[1], g.data[i]>>
         /\ w.c[1] = g.data[1] /\ w.c[2] = g.data[i]
         /\ w.c \in Seq(Nat) /\ w.s \in {Uncorrectable, Corrected, Valid}
         /\ w.s = Valid => g.status[1] = Valid
         /\ g.status[1] >= Corrected /\ g.status[i] >= Corrected => w.s # Uncorrectable
  BY <1>1, <1>2, <1>4, <1>6 DEF Uncorrectable, Corrected, Valid
<1>10. LET w == TypedBoth(g, p, v)
       IN /\ w.p = p /\ w.v = v /\ w.c = <<g.data[1], g.data[2], g.data[3]>>
          /\ w.c \in Seq(Nat) /\ w.s \in {Uncorrectable, Corrected, Valid}
  BY <1>1, <1>3, <1>4, <1>7 DEF Uncorrectable, Corrected, Valid
<1> QED BY <1>8, <1>9, <1>10

LEMMA PlainWrite ==
  ASSUME NEW g, NEW w, Plain(w.p), w.c \in Seq(Nat), w.s \in {Uncorrectable, Corrected, Valid},
         w.v = Meaning(w.p, w.c)
  PROVE  IsWrite(g, w)
  BY DEF IsWrite, Plain, Flags, Texts

LEMMA PlainWrites ==
  ASSUME NEW g \in Groups, NEW p, NEW v, NEW i \in 0..3, Plain(p)
  PROVE  /\ v = Meaning(p, <<g.data[i]>>) => IsWrite(g, Block(g, p, v, i))
         /\ v = Meaning(p, <<g.data[1], g.data[i]>>) => IsWrite(g, Typed(g, p, v, i))
         /\ v = Meaning(p, <<g.data[1], g.data[2], g.data[3]>>) => IsWrite(g, TypedBoth(g, p, v))
<1>1. ASSUME v = Meaning(p, <<g.data[i]>>) PROVE IsWrite(g, Block(g, p, v, i))
  <2> DEFINE w == Block(g, p, v, i)
  <2>1. /\ w.p = p /\ w.v = v /\ w.c = <<g.data[i]>>
        /\ w.c \in Seq(Nat) /\ w.s \in {Uncorrectable, Corrected, Valid}
    BY Carried
  <2> HIDE DEF w
  <2>2. IsWrite(g, w)
    BY <1>1, <2>1, PlainWrite
  <2> QED BY <2>2 DEF w
<1>2. ASSUME v = Meaning(p, <<g.data[1], g.data[i]>>) PROVE IsWrite(g, Typed(g, p, v, i))
  <2> DEFINE w == Typed(g, p, v, i)
  <2>1. /\ w.p = p /\ w.v = v /\ w.c = <<g.data[1], g.data[i]>>
        /\ w.c \in Seq(Nat) /\ w.s \in {Uncorrectable, Corrected, Valid}
    BY Carried
  <2> HIDE DEF w
  <2>2. IsWrite(g, w)
    BY <1>2, <2>1, PlainWrite
  <2> QED BY <2>2 DEF w
<1>3. ASSUME v = Meaning(p, <<g.data[1], g.data[2], g.data[3]>>)
      PROVE  IsWrite(g, TypedBoth(g, p, v))
  <2> DEFINE w == TypedBoth(g, p, v)
  <2>1. /\ w.p = p /\ w.v = v /\ w.c = <<g.data[1], g.data[2], g.data[3]>>
        /\ w.c \in Seq(Nat) /\ w.s \in {Uncorrectable, Corrected, Valid}
    BY Carried
  <2> HIDE DEF w
  <2>2. IsWrite(g, w)
    BY <1>3, <2>1, PlainWrite
  <2> QED BY <2>2 DEF w
<1> QED BY <1>1, <1>2, <1>3

-----------------------------------------------------------------------------
(* Every group leads to such calls only.                                   *)

Proper(g, ws) == \E S : ws \in Seq(S) /\ \A w \in S : IsWrite(g, w)

LEMMA ProperSeq ==
  ASSUME NEW g, NEW ws, Proper(g, ws)
  PROVE  /\ IsSeq(ws) /\ Len(ws) \in Nat
         /\ \A k \in 1..Len(ws) : IsWrite(g, ws[k])
<1>1. PICK S : ws \in Seq(S) /\ \A w \in S : IsWrite(g, w)
  BY DEF Proper
<1>2. Len(ws) \in Nat /\ \A k \in 1..Len(ws) : ws[k] \in S
  BY <1>1
<1> QED BY <1>1, <1>2 DEF IsSeq

LEMMA ProperJoin ==
  ASSUME NEW g, NEW us, NEW ws, Proper(g, us), Proper(g, ws)
  PROVE  Proper(g, us \o ws)
<1>1. PICK S : us \in Seq(S) /\ \A w \in S : IsWrite(g, w)
  BY DEF Proper
<1>2. PICK T : ws \in Seq(T) /\ \A w \in T : IsWrite(g, w)
  BY DEF Proper
<1> DEFINE U == S \cup T
<1>3. us \in Seq(U) /\ ws \in Seq(U) /\ \A w \in U : IsWrite(g, w)
  BY <1>1, <1>2
<1> HIDE DEF U
<1>4. us \o ws \in Seq(U)
  BY <1>3
<1> QED BY <1>3, <1>4 DEF Proper

LEMMA ProperIn ==
  ASSUME NEW g, NEW S, NEW ws \in Seq(S), \A w \in S : IsWrite(g, w)
  PROVE  Proper(g, ws)
  BY DEF Proper

LEMMA ProperNone ==
  ASSUME NEW g
  PROVE  Proper(g, <<>>)
<1> DEFINE S == {}
<1>1. <<>> \in Seq(S)
  OBVIOUS
<1>2. \A w \in S : IsWrite(g, w)
  OBVIOUS
<1> HIDE DEF S
<1> QED BY <1>1, <1>2, ProperIn

LEMMA ProperOne ==
  ASSUME NEW g, NEW a, IsWrite(g, a)
  PROVE  Proper(g, <<a>>)
<1> DEFINE S == {a}
<1>1. <<a>> \in Seq(S)
  OBVIOUS
<1>2. \A w \in S : IsWrite(g, w)
  OBVIOUS
<1> HIDE DEF S
<1> QED BY <1>1, <1>2, ProperIn

LEMMA ProperTwo ==
  ASSUME NEW g, NEW a, NEW b, IsWrite(g, a), IsWrite(g, b)
  PROVE  Proper(g, <<a, b>>)
<1> DEFINE S == {a, b}
<1>1. <<a, b>> \in Seq(S)
  OBVIOUS
<1>2. \A w \in S : IsWrite(g, w)
  OBVIOUS
<1> HIDE DEF S
<1> QED BY <1>1, <1>2, ProperIn

LEMMA ProperThree ==
  ASSUME NEW g, NEW a, NEW b, NEW c, IsWrite(g, a), IsWrite(g, b), IsWrite(g, c)
  PROVE  Proper(g, <<a, b, c>>)
<1> DEFINE S == {a, b, c}
<1>1. <<a, b, c>> \in Seq(S)
  OBVIOUS
<1>2. \A w \in S : IsWrite(g, w)
  OBVIOUS
<1> HIDE DEF S
<1> QED BY <1>1, <1>2, ProperIn

LEMMA ProperFour ==
  ASSUME NEW g, NEW a, NEW b, NEW c, NEW d,
         IsWrite(g, a), IsWrite(g, b), IsWrite(g, c), IsWrite(g, d)
  PROVE  Proper(g, <<a, b, c, d>>)
<1> DEFINE S == {a, b, c, d}
<1>1. <<a, b, c, d>> \in Seq(S)
  OBVIOUS
<1>2. \A w \in S : IsWrite(g, w)
  OBVIOUS
<1> HIDE DEF S
<1> QED BY <1>1, <1>2, ProperIn

LEMMA PlainPaths ==
  ASSUME NEW n, n \notin Flags \cup Texts \cup {"country", "oda_aids", "tmc_channels"}
  PROVE  Plain(<<n>>)
<1>1. IsSeq(<<n>>) /\ Len(<<n>>) = 1 /\ <<n>>[1] = n
  BY TuplesAre
<1>2. <<n>>[1] \notin Flags \cup Texts \cup {"country", "oda_aids", "tmc_channels"}
  BY <1>1
<1>3. Len(<<n>>) >= 1
  BY <1>1
<1> QED BY <1>1, <1>2, <1>3 DEF Plain

LEMMA ProperCommon ==
  ASSUME NEW g \in Groups, NEW i \in {0, 2}
  PROVE  Proper(g, CommonFields(g, i))
<1>1. i \in 0..3 /\ i + 1 \in 0..3
  OBVIOUS
<1>2. /\ Plain(<<"programme_identification">>) /\ Plain(<<"traffic_programme">>)
      /\ Plain(<<"programme_type">>)
  BY PlainPaths DEF Flags, Texts
<1>3. IsWrite(g, Block(g, <<"programme_identification">>, g.data[i], i))
  <2>1. g.data[i] = Meaning(<<"programme_identification">>, <<g.data[i]>>)
    BY OwnMeanings
  <2> QED BY <1>1, <1>2, <2>1, PlainWrites
<1>4. IsWrite(g, Block(g, <<"traffic_programme">>, Bits(g.data[i + 1], 10, 1), i + 1))
  <2>1. Bits(g.data[i + 1], 10, 1) = Meaning(<<"traffic_programme">>, <<g.data[i + 1]>>)
    BY OwnMeanings
  <2> QED BY <1>1, <1>2, <2>1, PlainWrites
<1>5. IsWrite(g, Block(g, <<"programme_type">>, Bits(g.data[i + 1], 5, 5), i + 1))
  <2>1. Bits(g.data[i + 1], 5, 5) = Meaning(<<"programme_type">>, <<g.data[i + 1]>>)
    BY OwnMeanings
  <2> QED BY <1>1, <1>2, <2>1, PlainWrites
<1> QED BY <1>3, <1>4, <1>5, ProperThree DEF CommonFields

LEMMA ProperTuning ==
  ASSUME NEW g \in Groups, NEW i \in {1, 3}
  PROVE  Proper(g, TuningInfo(g, i))
<1> DEFINE flag == <<"stereo", "artificial_head", "compressed", "dynamic_pty">>
           n == flag[Bits(g.data[i], 0, 2) + 1]
<1>1. i \in 0..3
  OBVIOUS
<1>2. n \in {"stereo", "artificial_head", "compressed", "dynamic_pty"}
  <2>1. Bits(g.data[i], 0, 2) \in 0..3
    BY <1>1, GroupWords, BitsNat
  <2>2. \A k \in 0..3 : flag[k + 1] \in {"stereo", "artificial_head", "compressed", "dynamic_pty"}
    OBVIOUS
  <2> HIDE DEF flag
  <2> QED BY <2>1, <2>2
<1> HIDE DEF flag, n
<1>3. Plain(<<"traffic_announcement">>) /\ Plain(<<"music_speech">>) /\ Plain(<<n>>)
  <2>1. n \notin Flags \cup Texts \cup {"country", "oda_aids", "tmc_channels"}
    BY <1>2 DEF Flags, Texts
  <2> QED BY <2>1, PlainPaths DEF Flags, Texts
<1>4. IsWrite(g, Block(g, <<"traffic_announcement">>, Bits(g.data[i], 4, 1), i))
  <2>1. Bits(g.data[i], 4, 1) = Meaning(<<"traffic_announcement">>, <<g.data[i]>>)
    BY OwnMeanings
  <2> QED BY <1>1, <1>3, <2>1, PlainWrites
<1>5. IsWrite(g, Block(g, <<"music_speech">>, Bits(g.data[i], 3, 1), i))
  <2>1. Bits(g.data[i], 3, 1) = Meaning(<<"music_speech">>, <<g.data[i]>>)
    BY OwnMeanings
  <2> QED BY <1>1, <1>3, <2>1, PlainWrites
<1>6. IsWrite(g, Block(g, <<n>>, Bits(g.data[i], 3, 1), i))
  <2>1. Bits(g.data[i], 3, 1) = Meaning(<<n>>, <<g.data[i]>>)
    BY <1>2, OwnMeanings
  <2> QED BY <1>1, <1>3, <2>1, PlainWrites
<1>7. TuningInfo(g, i) =
        <<Block(g, <<"traffic_announcement">>, Bits(g.data[i], 4, 1), i),
          Block(g, <<"music_speech">>, Bits(g.data[i], 3, 1), i),
          Block(g, <<n>>, Bits(g.data[i], 3, 1), i)>>
  BY DEF TuningInfo, n, flag
<1> QED BY <1>4, <1>5, <1>6, <1>7, ProperThree

LEMMA CharWrite ==
  ASSUME NEW g \in Groups, NEW name \in Strings, NEW j \in Nat, NEW i \in 2..3, Carries(g, name)
  PROVE  IsWrite(g, Typed(g, <<name, j>>, CharOf(j, g.data[i]), i))
<1> DEFINE p == <<name, j>>
           v == CharOf(j, g.data[i])
           w == Typed(g, p, v, i)
<1>1. IsSeq(p) /\ Len(p) = 2 /\ p[1] = name /\ p[2] = j
  BY TuplesAre
<1>2. name \notin Flags \cup {"country", "oda_aids", "tmc_channels"}
  BY DEF Strings, Flags
<1> HIDE DEF p
<1>3. /\ w.p = p /\ w.v = v /\ w.c[1] = g.data[1] /\ w.c[2] = g.data[i]
      /\ w.c \in Seq(Nat) /\ w.s \in {Uncorrectable, Corrected, Valid}
      /\ w.s = Valid => g.status[1] = Valid
  <2>1. i \in 0..3
    OBVIOUS
  <2> QED BY <2>1, Carried
<1>4. Meaning(p, w.c) = v
  <2>1. Meaning(p, w.c) = CharOf(p[2], w.c[2])
    BY <1>1, ManyMeanings
  <2> QED BY <2>1, <1>1, <1>3
<1> HIDE DEF w, v
<1>5. IsSeq(w.p) /\ Len(w.p) >= 1 /\ w.p[1] = name /\ w.v = Meaning(w.p, w.c)
  <2>1. w.p = p /\ w.v = v
    BY <1>3
  <2>2. IsSeq(p) /\ Len(p) >= 1 /\ p[1] = name
    BY <1>1
  <2> QED BY <1>4, <2>1, <2>2, Zenon
<1>6. /\ w.p[1] \notin Flags /\ w.p[1] # "country" /\ w.p[1] # "oda_aids"
      /\ w.p[1] # "tmc_channels"
  BY <1>2, <1>5
<1>7. Carries(g, w.p[1])
  BY <1>5
<1>8. IsWrite(g, w)
  BY <1>3, <1>5, <1>6, <1>7 DEF IsWrite
<1> QED BY <1>8 DEF w, v, p

LEMMA ProperChars ==
  ASSUME NEW g \in Groups, NEW name \in Strings, NEW k \in Nat, k % 2 = 0, NEW i \in 2..3,
         Carries(g, name)
  PROVE  Proper(g, Chars(g, name, k, i))
<1>1. CharOf(k, g.data[i]) = Bits(g.data[i], 8, 8)
  BY DEF CharOf
<1>2. k + 1 \in Nat /\ (k + 1) % 2 # 0
  OBVIOUS
<1>3. CharOf(k + 1, g.data[i]) = Bits(g.data[i], 0, 8)
  BY <1>2 DEF CharOf
<1>4. /\ IsWrite(g, Typed(g, <<name, k>>, Bits(g.data[i], 8, 8), i))
      /\ IsWrite(g, Typed(g, <<name, k + 1>>, Bits(g.data[i], 0, 8), i))
  BY <1>1, <1>2, <1>3, CharWrite
<1> QED BY <1>4, ProperTwo DEF Chars

\* The frequencies of a programme and of another network.
LEMMA ProperFrequencies ==
  ASSUME NEW g \in Groups, NEW p, NEW i \in 2..3, NEW both \in BOOLEAN,
         \A f : /\ IsWrite(g, Typed(g, Append(p, f), f, i))
                /\ both => IsWrite(g, TypedBoth(g, Append(p, f), f))
  PROVE  Proper(g, AddFrequencies(g, p, i, both))
<1> DEFINE Update(f) == IF f = 0 THEN <<>>
                        ELSE IF both THEN <<TypedBoth(g, Append(p, f), f)>>
                        ELSE <<Typed(g, Append(p, f), f, i)>>
<1>1. ASSUME NEW f PROVE Proper(g, Update(f))
  <2>1. CASE f = 0
    BY <2>1, ProperNone
  <2>2. CASE f # 0 /\ both
    <3>1. Proper(g, <<TypedBoth(g, Append(p, f), f)>>)
      BY <2>2, ProperOne
    <3> QED BY <2>2, <3>1
  <2>3. CASE f # 0 /\ ~both
    <3>1. Proper(g, <<Typed(g, Append(p, f), f, i)>>)
      BY <2>3, ProperOne
    <3> QED BY <2>3, <3>1
  <2> QED BY <2>1, <2>2, <2>3
<1> HIDE DEF Update
<1>2. ASSUME NEW e, NEW f PROVE Proper(g, Update(e) \o Update(f))
  BY <1>1, ProperJoin
<1>3. AddFrequencies(g, p, i, both) =
        IF g.status[i] < Corrected THEN <<>>
        ELSE IF Bits(g.data[i], 8, 8) = 250 THEN Update(ExtractFrequency(Bits(g.data[i], 0, 8), TRUE))
        ELSE Update(ExtractFrequency(Bits(g.data[i], 0, 8), FALSE))
               \o Update(ExtractFrequency(Bits(g.data[i], 8, 8), FALSE))
  BY DEF AddFrequencies, Update
<1> QED BY <1>1, <1>2, <1>3, ProperNone

LEMMA ProperType0 ==
  ASSUME NEW g \in Groups, NEW verB \in BOOLEAN
  PROVE  Proper(g, Type0(g, verB))
<1> DEFINE seg == Bits(g.data[1], 0, 2)
           alternative == AddFrequencies(g, <<"alternative_frequencies">>, 2, FALSE)
           identity == <<Block(g, <<"programme_identification">>, g.data[2], 2)>>
<1>1. Proper(g, TuningInfo(g, 1))
  BY ProperTuning
<1>2. Proper(g, Chars(g, "programme_service_name", 2 * seg, 3))
  <2>1. seg \in Nat
    <3>1. g.data[1] \in Nat
      BY GroupWords
    <3> QED BY <3>1, BitsNat
  <2>2. 2 * seg \in Nat /\ (2 * seg) % 2 = 0
    BY <2>1
  <2> QED BY <2>2, ProperChars DEF Strings, Carries
<1>3. Proper(g, identity)
  <2>1. g.data[2] = Meaning(<<"programme_identification">>, <<g.data[2]>>)
    BY OwnMeanings
  <2>2. Plain(<<"programme_identification">>)
    BY PlainPaths DEF Flags, Texts
  <2>3. 2 \in 0..3
    OBVIOUS
  <2>4. IsWrite(g, Block(g, <<"programme_identification">>, g.data[2], 2))
    BY <2>1, <2>2, <2>3, PlainWrites
  <2> QED BY <2>4, ProperOne
<1>4. Proper(g, alternative)
  <2> DEFINE p(f) == Append(<<"alternative_frequencies">>, f)
  <2>1. ASSUME NEW f PROVE IsWrite(g, Typed(g, p(f), f, 2))
    <3>1. IsSeq(p(f)) /\ Len(p(f)) = 2 /\ p(f)[1] = "alternative_frequencies" /\ p(f)[2] = f
      <4> DEFINE q == <<"alternative_frequencies">>
      <4>1. IsSeq(q) /\ Len(q) = 1 /\ q[1] = "alternative_frequencies"
        BY TuplesAre
      <4> HIDE DEF q
      <4>2. /\ IsSeq(Append(q, f)) /\ Len(Append(q, f)) = Len(q) + 1
            /\ \A k \in 1..Len(q) : Append(q, f)[k] = q[k]
            /\ Append(q, f)[Len(q) + 1] = f
        BY <4>1, Appended
      <4>3. Append(q, f)[1] = q[1] /\ Append(q, f)[2] = f /\ Len(Append(q, f)) = 2
        BY <4>1, <4>2
      <4> QED BY <4>1, <4>2, <4>3 DEF q
    <3> HIDE DEF p
    <3>2. Plain(p(f))
      BY <3>1 DEF Plain, Flags, Texts
    <3>3. f = Meaning(p(f), <<g.data[1], g.data[2]>>)
      BY <3>1, ManyMeanings
    <3>4. 2 \in 0..3
      OBVIOUS
    <3> QED BY <3>2, <3>3, <3>4, PlainWrites
  <2>2. \A f : /\ IsWrite(g, Typed(g, p(f), f, 2))
               /\ FALSE => IsWrite(g, TypedBoth(g, p(f), f))
    BY <2>1
  <2>3. 2 \in 2..3 /\ FALSE \in BOOLEAN
    OBVIOUS
  <2> QED BY <2>2, <2>3, ProperFrequencies
<1>5. Type0(g, verB) = TuningInfo(g, 1) \o (IF verB THEN identity ELSE alternative)
                         \o Chars(g, "programme_service_name", 2 * seg, 3)
  BY DEF Type0
<1> HIDE DEF alternative, identity, seg
<1> QED BY <1>1, <1>2, <1>3, <1>4, <1>5, ProperJoin

LEMMA ProperSeven ==
  ASSUME NEW g, NEW a, NEW b, NEW c, NEW d, NEW e, NEW f, NEW h,
         IsWrite(g, a), IsWrite(g, b), IsWrite(g, c), IsWrite(g, d),
         IsWrite(g, e), IsWrite(g, f), IsWrite(g, h)
  PROVE  Proper(g, <<a, b, c, d, e, f, h>>)
<1> DEFINE S == {a, b, c, d, e, f, h}
<1>1. <<a, b, c, d, e, f, h>> \in Seq(S)
  OBVIOUS
<1>2. \A w \in S : IsWrite(g, w)
  OBVIOUS
<1> HIDE DEF S
<1> QED BY <1>1, <1>2, ProperIn

\* An item of its own, from a block that block 1 gives its meaning.
LEMMA NamedWrite ==
  ASSUME NEW g \in Groups, NEW n, NEW v, NEW i \in 0..3,
         n \notin Flags \cup Texts \cup {"country", "oda_aids", "tmc_channels"},
         v = Meaning(<<n>>, <<g.data[1], g.data[i]>>)
  PROVE  IsWrite(g, Typed(g, <<n>>, v, i))
<1>1. Plain(<<n>>)
  BY PlainPaths
<1> QED BY <1>1, PlainWrites

LEMMA TmcFields ==
  ASSUME NEW g \in Groups
  PROVE  LET M(name, lo, n) == Typed(g, <<name>>, Bits(g.data[2], lo, n), 2)
         IN /\ IsWrite(g, M("tmc_ltn", 6, 6)) /\ IsWrite(g, M("tmc_afi", 5, 1))
            /\ IsWrite(g, M("tmc_mode", 4, 1)) /\ IsWrite(g, M("tmc_scope_i13l", 3, 1))
            /\ IsWrite(g, M("tmc_scope_national", 2, 1))
            /\ IsWrite(g, M("tmc_scope_regional", 1, 1))
            /\ IsWrite(g, M("tmc_scope_urban", 0, 1))
            /\ IsWrite(g, M("tmc_gap", 12, 2)) /\ IsWrite(g, M("tmc_sid", 6, 6))
            /\ IsWrite(g, M("tmc_activity_time", 4, 2))
            /\ IsWrite(g, M("tmc_window_time", 2, 2)) /\ IsWrite(g, M("tmc_delay_time", 0, 2))
<1> DEFINE c == <<g.data[1], g.data[2]>>
           d == g.data[2]
<1>1. c[2] = d
  OBVIOUS
<1> HIDE DEF c, d
<1>2. /\ TmcMeaning(<<"tmc_ltn">>, c) = Bits(d, 6, 6)
      /\ TmcMeaning(<<"tmc_afi">>, c) = Bits(d, 5, 1)
      /\ TmcMeaning(<<"tmc_mode">>, c) = Bits(d, 4, 1)
      /\ TmcMeaning(<<"tmc_scope_i13l">>, c) = Bits(d, 3, 1)
      /\ TmcMeaning(<<"tmc_scope_national">>, c) = Bits(d, 2, 1)
      /\ TmcMeaning(<<"tmc_scope_regional">>, c) = Bits(d, 1, 1)
      /\ TmcMeaning(<<"tmc_scope_urban">>, c) = Bits(d, 0, 1)
      /\ TmcMeaning(<<"tmc_gap">>, c) = Bits(d, 12, 2)
      /\ TmcMeaning(<<"tmc_sid">>, c) = Bits(d, 6, 6)
      /\ TmcMeaning(<<"tmc_activity_time">>, c) = Bits(d, 4, 2)
      /\ TmcMeaning(<<"tmc_window_time">>, c) = Bits(d, 2, 2)
      /\ TmcMeaning(<<"tmc_delay_time">>, c) = Bits(d, 0, 2)
  BY <1>1 DEF TmcMeaning
<1>3. ASSUME NEW n \in TmcNames
      PROVE  IsWrite(g, Typed(g, <<n>>, TmcMeaning(<<n>>, c), 2))
  <2>1. n \notin Flags \cup Texts \cup {"country", "oda_aids", "tmc_channels"}
    BY DEF TmcNames, Flags, Texts
  <2>2. TmcMeaning(<<n>>, c) = Meaning(<<n>>, <<g.data[1], g.data[2]>>)
    BY TmcMeanings DEF c
  <2>3. 2 \in 0..3
    OBVIOUS
  <2> QED BY <2>1, <2>2, <2>3, NamedWrite
<1>4. /\ IsWrite(g, Typed(g, <<"tmc_ltn">>, Bits(d, 6, 6), 2))
      /\ IsWrite(g, Typed(g, <<"tmc_afi">>, Bits(d, 5, 1), 2))
      /\ IsWrite(g, Typed(g, <<"tmc_mode">>, Bits(d, 4, 1), 2))
      /\ IsWrite(g, Typed(g, <<"tmc_scope_i13l">>, Bits(d, 3, 1), 2))
      /\ IsWrite(g, Typed(g, <<"tmc_scope_national">>, Bits(d, 2, 1), 2))
      /\ IsWrite(g, Typed(g, <<"tmc_scope_regional">>, Bits(d, 1, 1), 2))
      /\ IsWrite(g, Typed(g, <<"tmc_scope_urban">>, Bits(d, 0, 1), 2))
      /\ IsWrite(g, Typed(g, <<"tmc_gap">>, Bits(d, 12, 2), 2))
      /\ IsWrite(g, Typed(g, <<"tmc_sid">>, Bits(d, 6, 6), 2))
      /\ IsWrite(g, Typed(g, <<"tmc_activity_time">>, Bits(d, 4, 2), 2))
      /\ IsWrite(g, Typed(g, <<"tmc_window_time">>, Bits(d, 2, 2), 2))
      /\ IsWrite(g, Typed(g, <<"tmc_delay_time">>, Bits(d, 0, 2), 2))
  BY <1>2, <1>3 DEF TmcNames
<1> QED BY <1>4 DEF d

LEMMA ProperTmcSystem ==
  ASSUME NEW g \in Groups, NEW mode
  PROVE  Proper(g, TmcSystemInfo(g)) /\ Proper(g, TmcSystem(g, mode))
<1> DEFINE M(name, lo, n) == Typed(g, <<name>>, Bits(g.data[2], lo, n), 2)
<1>1. /\ IsWrite(g, M("tmc_ltn", 6, 6)) /\ IsWrite(g, M("tmc_afi", 5, 1))
      /\ IsWrite(g, M("tmc_mode", 4, 1)) /\ IsWrite(g, M("tmc_scope_i13l", 3, 1))
      /\ IsWrite(g, M("tmc_scope_national", 2, 1)) /\ IsWrite(g, M("tmc_scope_regional", 1, 1))
      /\ IsWrite(g, M("tmc_scope_urban", 0, 1))
  BY TmcFields
<1>2. /\ IsWrite(g, M("tmc_gap", 12, 2)) /\ IsWrite(g, M("tmc_sid", 6, 6))
      /\ IsWrite(g, M("tmc_activity_time", 4, 2)) /\ IsWrite(g, M("tmc_window_time", 2, 2))
      /\ IsWrite(g, M("tmc_delay_time", 0, 2))
  BY TmcFields
<1>3. TmcSystemInfo(g) =
        <<M("tmc_ltn", 6, 6), M("tmc_afi", 5, 1), M("tmc_mode", 4, 1),
          M("tmc_scope_i13l", 3, 1), M("tmc_scope_national", 2, 1),
          M("tmc_scope_regional", 1, 1), M("tmc_scope_urban", 0, 1)>>
  BY DEF TmcSystemInfo
<1> DEFINE a == <<M("tmc_gap", 12, 2), M("tmc_sid", 6, 6)>>
           b == <<M("tmc_activity_time", 4, 2), M("tmc_window_time", 2, 2),
                  M("tmc_delay_time", 0, 2)>>
           enhanced == mode.sent /\ mode.sentValue = 1
<1>4. TmcSystem(g, mode) =
        CASE Bits(g.data[2], 14, 2) = 0 -> TmcSystemInfo(g)
          [] Bits(g.data[2], 14, 2) = 1 -> a \o (IF enhanced THEN b ELSE <<>>)
          [] OTHER -> <<>>
  BY DEF TmcSystem
<1>5. Proper(g, a) /\ Proper(g, b)
  <2> HIDE DEF M
  <2> QED BY <1>2, ProperTwo, ProperThree
<1> HIDE DEF a, b, enhanced
<1>6. Proper(g, a \o (IF enhanced THEN b ELSE <<>>))
  BY <1>5, ProperNone, ProperJoin
<1>7. Proper(g, TmcSystemInfo(g))
  <2> HIDE DEF M
  <2> QED BY <1>1, <1>3, ProperSeven
<1> QED BY <1>4, <1>6, <1>7, ProperNone

LEMMA CountryWrite ==
  ASSUME NEW g \in Groups, NEW v
  PROVE  IsWrite(g, Typed(g, <<"country">>, v, 2))
<1> DEFINE w == Typed(g, <<"country">>, v, 2)
<1>1. /\ IsSeq(<<"country">>) /\ Len(<<"country">>) = 1 /\ <<"country">>[1] = "country"
  BY TuplesAre
<1>2. /\ w.p = <<"country">> /\ w.c \in Seq(Nat) /\ w.s \in {Uncorrectable, Corrected, Valid}
  <2>1. 2 \in 0..3
    OBVIOUS
  <2> QED BY <2>1, Carried
<1> HIDE DEF w
<1>3. IsSeq(w.p) /\ Len(w.p) >= 1 /\ w.p[1] = "country"
  BY <1>1, <1>2
<1>4. IsWrite(g, w)
  BY <1>2, <1>3 DEF IsWrite, Flags, Texts
<1> QED BY <1>4 DEF w

LEMMA ProperType1 ==
  ASSUME NEW g \in Groups, NEW verB \in BOOLEAN, NEW pi
  PROVE  Proper(g, Type1(g, verB, pi))
<1> DEFINE identity == <<Block(g, <<"programme_identification">>, g.data[2], 2)>>
           linkage == <<Typed(g, <<"linkage_actuator">>, Bits(g.data[2], 15, 1), 2)>>
           start == <<Typed(g, <<"programme_item_start_time">>, StartTime(g.data[3]), 3)>>
           language == <<Typed(g, <<"language">>, Bits(g.data[2], 0, 11), 2)>>
<1>1. 2 \in 0..3 /\ 3 \in 0..3
  OBVIOUS
<1>2. Proper(g, identity)
  <2>1. g.data[2] = Meaning(<<"programme_identification">>, <<g.data[2]>>)
    BY OwnMeanings
  <2>2. Plain(<<"programme_identification">>)
    BY PlainPaths DEF Flags, Texts
  <2>3. IsWrite(g, Block(g, <<"programme_identification">>, g.data[2], 2))
    BY <1>1, <2>1, <2>2, PlainWrites
  <2> QED BY <2>3, ProperOne
<1>3. Proper(g, linkage)
  <2>1. Bits(g.data[2], 15, 1) = Meaning(<<"linkage_actuator">>, <<g.data[1], g.data[2]>>)
    BY OwnMeanings
  <2>2. IsWrite(g, Typed(g, <<"linkage_actuator">>, Bits(g.data[2], 15, 1), 2))
    BY <1>1, <2>1, NamedWrite DEF Flags, Texts
  <2> QED BY <2>2, ProperOne
<1>4. Proper(g, start)
  <2>1. StartTime(g.data[3]) = Meaning(<<"programme_item_start_time">>, <<g.data[1], g.data[3]>>)
    BY OwnMeanings
  <2>2. IsWrite(g, Typed(g, <<"programme_item_start_time">>, StartTime(g.data[3]), 3))
    BY <1>1, <2>1, NamedWrite DEF Flags, Texts
  <2> QED BY <2>2, ProperOne
<1>5. Proper(g, language)
  <2>1. Bits(g.data[2], 0, 11) = Meaning(<<"language">>, <<g.data[1], g.data[2]>>)
    BY OwnMeanings
  <2>2. IsWrite(g, Typed(g, <<"language">>, Bits(g.data[2], 0, 11), 2))
    BY <1>1, <2>1, NamedWrite DEF Flags, Texts
  <2> QED BY <2>2, ProperOne
<1>6. Proper(g, SlowLabelling(g, pi))
  <2> DEFINE v == 15 * (Bits(g.data[2], 0, 8) - 224) + Bits(pi.sentValue, 12, 4) - 1
  <2>1. Proper(g, <<Typed(g, <<"country">>, v, 2)>>)
    BY CountryWrite, ProperOne
  <2>2. \/ SlowLabelling(g, pi) = <<Typed(g, <<"country">>, v, 2)>>
        \/ SlowLabelling(g, pi) = TmcSystemInfo(g)
        \/ SlowLabelling(g, pi) = language
        \/ SlowLabelling(g, pi) = <<>>
    BY DEF SlowLabelling
  <2> QED BY <1>5, <2>1, <2>2, ProperTmcSystem, ProperNone
<1>7. Type1(g, verB, pi) =
        (IF verB THEN identity ELSE IF g.status[2] < Corrected THEN <<>>
         ELSE linkage \o SlowLabelling(g, pi)) \o start
  BY DEF Type1
<1> HIDE DEF identity, linkage, start
<1>8. Proper(g, linkage \o SlowLabelling(g, pi))
  BY <1>3, <1>6, ProperJoin
<1> QED BY <1>2, <1>4, <1>7, <1>8, ProperJoin, ProperNone

LEMMA FlagWrite ==
  ASSUME NEW g \in Groups, NEW n \in Flags
  PROVE  IsWrite(g, Block(g, <<n>>, Bits(g.data[1], 4, 1), 1))
<1> DEFINE p == <<n>>
           v == Bits(g.data[1], 4, 1)
           w == Block(g, p, v, 1)
<1>1. IsSeq(p) /\ Len(p) = 1 /\ p[1] = n
  BY TuplesAre
<1>2. v = Meaning(p, <<g.data[1]>>)
  BY OwnMeanings DEF Flags
<1>3. /\ w.p = p /\ w.v = v /\ w.c = <<g.data[1]>> /\ w.s = g.status[1]
      /\ w.c \in Seq(Nat) /\ w.s \in {Uncorrectable, Corrected, Valid}
  <2>1. 1 \in 0..3
    OBVIOUS
  <2> QED BY <2>1, Carried
<1>4. p = <<p[1]>> /\ p[1] \in Flags
  BY <1>1
<1>5. p[1] \notin Texts /\ p[1] # "oda_aids" /\ p[1] # "tmc_channels"
  BY <1>1 DEF Flags, Texts
<1> HIDE DEF w, p
<1>6. /\ IsSeq(w.p) /\ Len(w.p) >= 1 /\ w.v = Meaning(w.p, w.c) /\ w.p = <<w.p[1]>>
      /\ w.p[1] \notin Texts /\ w.p[1] # "oda_aids" /\ w.p[1] # "tmc_channels"
  <2>1. IsSeq(p) /\ Len(p) >= 1
    BY <1>1
  <2> QED BY <1>2, <1>3, <1>4, <1>5, <2>1, Zenon
<1>7. IsWrite(g, w)
  BY <1>3, <1>6 DEF IsWrite
<1> QED BY <1>7 DEF w, p

LEMMA ProperType2 ==
  ASSUME NEW g \in Groups, NEW verB \in BOOLEAN, Type(g) \in {4, 5}
  PROVE  Proper(g, Type2(g, verB))
<1> DEFINE seg == Bits(g.data[1], 0, 4)
           ab == <<Block(g, <<"text_ab">>, Bits(g.data[1], 4, 1), 1)>>
           identity == <<Block(g, <<"programme_identification">>, g.data[2], 2)>>
<1>1. Proper(g, ab)
  BY FlagWrite, ProperOne DEF Flags
<1>2. Proper(g, identity)
  <2>1. g.data[2] = Meaning(<<"programme_identification">>, <<g.data[2]>>)
    BY OwnMeanings
  <2>2. Plain(<<"programme_identification">>)
    BY PlainPaths DEF Flags, Texts
  <2>3. 2 \in 0..3
    OBVIOUS
  <2>4. IsWrite(g, Block(g, <<"programme_identification">>, g.data[2], 2))
    BY <2>1, <2>2, <2>3, PlainWrites
  <2> QED BY <2>4, ProperOne
<1>3. /\ 2 * seg \in Nat /\ (2 * seg) % 2 = 0 /\ 4 * seg \in Nat /\ (4 * seg) % 2 = 0
      /\ 4 * seg + 2 \in Nat /\ (4 * seg + 2) % 2 = 0
  <2>1. g.data[1] \in Nat
    BY GroupWords
  <2>2. seg \in Nat
    BY <2>1, BitsNat
  <2> HIDE DEF seg
  <2> QED BY <2>2
<1>4. /\ Proper(g, Chars(g, "radio_text", 2 * seg, 3))
      /\ Proper(g, Chars(g, "radio_text", 4 * seg, 2))
      /\ Proper(g, Chars(g, "radio_text", 4 * seg + 2, 3))
  <2>1. "radio_text" \in Strings /\ Carries(g, "radio_text")
    BY DEF Strings, Carries
  <2> HIDE DEF seg
  <2> QED BY <1>3, <2>1, ProperChars
<1>5. Type2(g, verB) =
        IF verB THEN ab \o identity \o Chars(g, "radio_text", 2 * seg, 3)
        ELSE ab \o Chars(g, "radio_text", 4 * seg, 2) \o Chars(g, "radio_text", 4 * seg + 2, 3)
  BY DEF Type2
<1> HIDE DEF ab, identity, seg
<1> QED BY <1>1, <1>2, <1>4, <1>5, ProperJoin

LEMMA ProperType10A ==
  ASSUME NEW g \in Groups, Type(g) = 20
  PROVE  Proper(g, Type10A(g))
<1> DEFINE seg == Bits(g.data[1], 0, 1)
           ab == <<Block(g, <<"ptn_ab">>, Bits(g.data[1], 4, 1), 1)>>
<1>1. Proper(g, ab)
  BY FlagWrite, ProperOne DEF Flags
<1>2. /\ 4 * seg \in Nat /\ (4 * seg) % 2 = 0
      /\ 4 * seg + 2 \in Nat /\ (4 * seg + 2) % 2 = 0
  <2>1. g.data[1] \in Nat
    BY GroupWords
  <2>2. seg \in Nat
    BY <2>1, BitsNat
  <2> HIDE DEF seg
  <2> QED BY <2>2
<1>3. /\ Proper(g, Chars(g, "programme_type_name", 4 * seg, 2))
      /\ Proper(g, Chars(g, "programme_type_name", 4 * seg + 2, 3))
  <2>1. "programme_type_name" \in Strings /\ Carries(g, "programme_type_name")
    BY DEF Strings, Carries
  <2> HIDE DEF seg
  <2> QED BY <1>2, <2>1, ProperChars
<1>4. Type10A(g) = ab \o Chars(g, "programme_type_name", 4 * seg, 2)
                     \o Chars(g, "programme_type_name", 4 * seg + 2, 3)
  BY DEF Type10A
<1> HIDE DEF ab, seg
<1> QED BY <1>1, <1>3, <1>4, ProperJoin

LEMMA ProperType3A ==
  ASSUME NEW g \in Groups, NEW mode, Type(g) = 6
  PROVE  Proper(g, Type3A(g, mode))
<1> DEFINE k == Bits(g.data[1], 0, 5)
           p == <<"oda_aids", k>>
           w == Typed(g, p, g.data[3], 3)
<1>1. /\ IsSeq(p) /\ Len(p) >= 1 /\ p[1] = "oda_aids"
  <2> HIDE DEF k
  <2>1. IsSeq(p) /\ Len(p) = 2 /\ p[1] = "oda_aids"
    BY TuplesAre
  <2> QED BY <2>1
<1>2. /\ w.p = p /\ w.v = g.data[3] /\ w.c[2] = g.data[3]
      /\ w.c \in Seq(Nat) /\ w.s \in {Uncorrectable, Corrected, Valid}
  <2>1. 3 \in 0..3
    OBVIOUS
  <2> QED BY <2>1, Carried
<1>3. Meaning(p, w.c) = g.data[3]
  BY <1>2, OwnMeanings
<1>4. /\ p[1] \notin Flags /\ p[1] \notin Texts /\ p[1] # "country" /\ p[1] # "tmc_channels"
      /\ p = <<"oda_aids", Bits(g.data[1], 0, 5)>>
  BY <1>1 DEF Flags, Texts
<1> HIDE DEF w, p
<1>5. /\ IsSeq(w.p) /\ Len(w.p) >= 1 /\ w.v = Meaning(w.p, w.c)
      /\ w.p = <<"oda_aids", Bits(g.data[1], 0, 5)>>
      /\ w.p[1] \notin Flags /\ w.p[1] \notin Texts /\ w.p[1] # "country" /\ w.p[1] # "tmc_channels"
  BY <1>1, <1>2, <1>3, <1>4, Zenon
<1>6. IsWrite(g, w)
  BY <1>2, <1>5 DEF IsWrite
<1>7. Proper(g, <<w>>)
  BY <1>6, ProperOne
<1>8. Type3A(g, mode) = (IF g.data[3] \in TmcAids THEN TmcSystem(g, mode) ELSE <<>>)
                          \o (IF g.status[3] < Corrected THEN <<>> ELSE <<w>>)
  BY DEF Type3A, w, p
<1>9. Proper(g, IF g.data[3] \in TmcAids THEN TmcSystem(g, mode) ELSE <<>>)
  BY ProperTmcSystem, ProperNone
<1>10. Proper(g, IF g.status[3] < Corrected THEN <<>> ELSE <<w>>)
  BY <1>7, ProperNone
<1> QED BY <1>8, <1>9, <1>10, ProperJoin

LEMMA ProperType4A ==
  ASSUME NEW g \in Groups
  PROVE  Proper(g, Type4A(g))
<1> DEFINE v == <<32768 * Bits(g.data[1], 0, 2) + Bits(g.data[2], 1, 15),
                  16 * Bits(g.data[2], 0, 1) + Bits(g.data[3], 12, 4), Bits(g.data[3], 6, 6)>>
           c == <<g.data[1], g.data[2], g.data[3]>>
<1>1. Plain(<<"current_time">>)
  BY PlainPaths DEF Flags, Texts
<1>2. v = Meaning(<<"current_time">>, c)
  <2>1. Meaning(<<"current_time">>, c) = CurrentTime(c)
    BY OwnMeanings
  <2>2. c[1] = g.data[1] /\ c[2] = g.data[2] /\ c[3] = g.data[3]
    OBVIOUS
  <2> HIDE DEF c
  <2> QED BY <2>1, <2>2 DEF CurrentTime
<1>3. IsWrite(g, TypedBoth(g, <<"current_time">>, v))
  <2>1. 1 \in 0..3
    OBVIOUS
  <2> HIDE DEF v
  <2> QED BY <1>1, <1>2, <2>1, PlainWrites
<1>4. Type4A(g) = IF g.status[2] < Corrected \/ g.status[3] < Corrected THEN <<>>
                  ELSE <<TypedBoth(g, <<"current_time">>, v)>>
  BY DEF Type4A
<1> HIDE DEF v
<1> QED BY <1>3, <1>4, ProperNone, ProperOne

LEMMA ProperType15B ==
  ASSUME NEW g \in Groups
  PROVE  Proper(g, Type15B(g))
<1>1. 2 \in {0, 2} /\ 3 \in {1, 3}
  OBVIOUS
<1>2. Proper(g, CommonFields(g, 2))
  BY <1>1, ProperCommon
<1>3. Proper(g, TuningInfo(g, 3))
  BY <1>1, ProperTuning
<1> QED BY <1>2, <1>3, ProperJoin DEF Type15B

\* What is said of another network.
LEMMA EonWrite ==
  ASSUME NEW g \in Groups, NEW p, NEW v, IsSeq(p), Len(p) >= 3, p[1] = "eon_mapping",
         v = EonMeaning(p, <<g.data[1], g.data[2], g.data[3]>>)
  PROVE  IsWrite(g, TypedBoth(g, p, v))
<1>1. Plain(p)
  BY DEF Plain, Flags, Texts
<1>2. v = Meaning(p, <<g.data[1], g.data[2], g.data[3]>>)
  BY ManyMeanings
<1>3. 2 \in 0..3
  OBVIOUS
<1> QED BY <1>1, <1>2, <1>3, PlainWrites

LEMMA EonMember ==
  ASSUME NEW g \in Groups, NEW k, NEW n, NEW v, 
         \A p, c : /\ Len(p) = 3 /\ p[3] = n
                   /\ c[2] = g.data[2]
                  => EonMeaning(p, c) = v
  PROVE  IsWrite(g, TypedBoth(g, <<"eon_mapping", k, n>>, v))
<1> DEFINE p == <<"eon_mapping", k, n>>
           c == <<g.data[1], g.data[2], g.data[3]>>
<1>1. IsSeq(p) /\ Len(p) = 3 /\ p[1] = "eon_mapping" /\ p[3] = n
  BY TuplesAre
<1>2. c[2] = g.data[2]
  OBVIOUS
<1> HIDE DEF p, c
<1>3. v = EonMeaning(p, c)
  BY <1>1, <1>2
<1>4. IsWrite(g, TypedBoth(g, p, v))
  BY <1>1, <1>3, EonWrite DEF c
<1> QED BY <1>4 DEF p

LEMMA EonElement ==
  ASSUME NEW g \in Groups, NEW k, NEW n, NEW e, NEW v,
         \A p, c : /\ Len(p) = 4 /\ p[3] = n /\ p[4] = e
                   /\ c[2] = g.data[2]
                  => EonMeaning(p, c) = v
  PROVE  IsWrite(g, TypedBoth(g, <<"eon_mapping", k, n, e>>, v))
<1> DEFINE p == <<"eon_mapping", k, n, e>>
           c == <<g.data[1], g.data[2], g.data[3]>>
<1>1. IsSeq(p) /\ Len(p) = 4 /\ p[1] = "eon_mapping" /\ p[3] = n /\ p[4] = e
  BY TuplesAre
<1>2. c[2] = g.data[2]
  OBVIOUS
<1> HIDE DEF p, c
<1>3. v = EonMeaning(p, c)
  BY <1>1, <1>2
<1>4. IsWrite(g, TypedBoth(g, p, v))
  BY <1>1, <1>3, EonWrite DEF c
<1> QED BY <1>4 DEF p

LEMMA EonFrequencies ==
  ASSUME NEW g \in Groups, NEW k
  PROVE  LET p == <<"eon_mapping", k, "frequencies">>
         IN /\ Proper(g, AddFrequencies(g, p, 2, TRUE))
            /\ \A f : IsWrite(g, TypedBoth(g, <<"eon_mapping", k, "frequencies", f>>, f))
<1> DEFINE p == <<"eon_mapping", k, "frequencies">>
<1>1. IsSeq(p) /\ Len(p) = 3 /\ p[1] = "eon_mapping" /\ p[3] = "frequencies"
  BY TuplesAre
<1> HIDE DEF p
<1>2. ASSUME NEW f
      PROVE  /\ IsWrite(g, Typed(g, Append(p, f), f, 2))
             /\ IsWrite(g, TypedBoth(g, Append(p, f), f))
  <2> DEFINE q == Append(p, f)
  <2>1. /\ IsSeq(q) /\ Len(q) = 4 /\ q[1] = "eon_mapping" /\ q[3] = "frequencies" /\ q[4] = f
    <3>1. /\ IsSeq(q) /\ Len(q) = Len(p) + 1 /\ \A j \in 1..Len(p) : q[j] = p[j]
          /\ q[Len(p) + 1] = f
      BY <1>1, Appended
    <3> HIDE DEF q
    <3> QED BY <1>1, <3>1
  <2> HIDE DEF q
  <2>2. Plain(q)
    BY <2>1 DEF Plain, Flags, Texts
  <2>3. \A c : Meaning(q, c) = f
    BY <2>1, ManyMeanings DEF EonMeaning
  <2>4. 2 \in 0..3
    OBVIOUS
  <2>5. IsWrite(g, Typed(g, q, f, 2)) /\ IsWrite(g, TypedBoth(g, q, f))
    BY <2>2, <2>3, <2>4, PlainWrites
  <2> QED BY <2>5 DEF q
<1>3. Proper(g, AddFrequencies(g, p, 2, TRUE))
  <2>1. 2 \in 2..3 /\ TRUE \in BOOLEAN
    OBVIOUS
  <2> QED BY <1>2, <2>1, ProperFrequencies
<1>4. ASSUME NEW f
      PROVE  IsWrite(g, TypedBoth(g, <<"eon_mapping", k, "frequencies", f>>, f))
  BY EonElement DEF EonMeaning
<1> QED BY <1>3, <1>4 DEF p

LEMMA ProperType14 ==
  ASSUME NEW g \in Groups, NEW verB \in BOOLEAN
  PROVE  Proper(g, Type14(g, verB))
<1> DEFINE pi == g.data[3]
           d == g.data[2]
           variant == Bits(g.data[1], 0, 4)
           M(name, lo, n) == TypedBoth(g, <<"eon_mapping", pi, name>>, Bits(d, lo, n))
           Freq(f) == IF f = 0 THEN <<>>
                      ELSE <<TypedBoth(g, <<"eon_mapping", pi, "frequencies", f>>, f)>>
           Char(k, lo) == TypedBoth(g, <<"eon_mapping", pi, "programme_service_name", k>>,
                                    Bits(d, lo, 8))
           tp == <<Block(g, <<"eon_mapping", pi, "traffic_programme">>, Bits(g.data[1], 4, 1), 1)>>
           chars == <<Char(2 * variant, 8), Char(2 * variant + 1, 0)>>
           linkage == <<M("linkage_actuator", 15, 1), M("extended_generic", 14, 1),
                        M("i13l_linkage_set", 13, 1), M("linkage_set_number", 0, 12)>>
           programme == <<M("programme_type", 11, 5), M("traffic_announcement", 0, 1)>>
           start == <<TypedBoth(g, <<"eon_mapping", pi, "programme_item_start_time">>, StartTime(d))>>
           frequencies == AddFrequencies(g, <<"eon_mapping", pi, "frequencies">>, 2, TRUE)
           ofD == Freq(ExtractFrequency(Bits(d, 0, 8), FALSE))
           ofAm == Freq(ExtractFrequency(Bits(d, 0, 8), TRUE))
<1>1. Proper(g, tp)
  <2> DEFINE p == <<"eon_mapping", pi, "traffic_programme">>
  <2>1. IsSeq(p) /\ Len(p) = 3 /\ p[1] = "eon_mapping" /\ p[3] = "traffic_programme"
    BY TuplesAre
  <2> HIDE DEF p
  <2>2. Plain(p)
    BY <2>1 DEF Plain, Flags, Texts
  <2>3. Bits(g.data[1], 4, 1) = Meaning(p, <<g.data[1]>>)
    BY <2>1, ManyMeanings DEF EonMeaning
  <2>4. 1 \in 0..3
    OBVIOUS
  <2>5. IsWrite(g, Block(g, p, Bits(g.data[1], 4, 1), 1))
    BY <2>2, <2>3, <2>4, PlainWrites
  <2> QED BY <2>5, ProperOne DEF p
<1>2. Proper(g, chars)
  <2>1. variant \in Nat
    <3>1. g.data[1] \in Nat
      BY GroupWords
    <3> QED BY <3>1, BitsNat
  <2> DEFINE k == 2 * variant
             l == 2 * variant + 1
  <2>2. k % 2 = 0 /\ l % 2 # 0
    <3> HIDE DEF variant
    <3> QED BY <2>1
  <2>3. CharOf(k, d) = Bits(d, 8, 8) /\ CharOf(l, d) = Bits(d, 0, 8)
    BY <2>2 DEF CharOf
  <2> HIDE DEF k, l
  <2>4. IsWrite(g, TypedBoth(g, <<"eon_mapping", pi, "programme_service_name", k>>, CharOf(k, d)))
    BY EonElement DEF EonMeaning
  <2>5. IsWrite(g, TypedBoth(g, <<"eon_mapping", pi, "programme_service_name", l>>, CharOf(l, d)))
    BY EonElement DEF EonMeaning
  <2>6. IsWrite(g, Char(k, 8)) /\ IsWrite(g, Char(l, 0))
    BY <2>3, <2>4, <2>5
  <2> HIDE DEF Char
  <2>7. Proper(g, <<Char(k, 8), Char(l, 0)>>)
    BY <2>6, ProperTwo
  <2> QED BY <2>7 DEF k, l
<1>3. Proper(g, linkage)
  <2>1. /\ IsWrite(g, M("linkage_actuator", 15, 1)) /\ IsWrite(g, M("extended_generic", 14, 1))
        /\ IsWrite(g, M("i13l_linkage_set", 13, 1)) /\ IsWrite(g, M("linkage_set_number", 0, 12))
    BY EonMember DEF EonMeaning
  <2> HIDE DEF M
  <2> QED BY <2>1, ProperFour
<1>4. Proper(g, programme)
  <2>1. IsWrite(g, M("programme_type", 11, 5)) /\ IsWrite(g, M("traffic_announcement", 0, 1))
    BY EonMember DEF EonMeaning
  <2> HIDE DEF M
  <2> QED BY <2>1, ProperTwo
<1>5. Proper(g, start)
  <2>1. IsWrite(g, TypedBoth(g, <<"eon_mapping", pi, "programme_item_start_time">>, StartTime(d)))
    BY EonMember DEF EonMeaning
  <2> QED BY <2>1, ProperOne
<1>6. Proper(g, frequencies)
  BY EonFrequencies
<1>7. ASSUME NEW f PROVE Proper(g, Freq(f))
  <2>1. Proper(g, <<TypedBoth(g, <<"eon_mapping", pi, "frequencies", f>>, f)>>)
    BY EonFrequencies, ProperOne
  <2> QED BY <2>1, ProperNone
<1> DEFINE rest == CASE variant \in 0..3 -> chars
                     [] variant = 4 -> frequencies
                     [] variant \in 5..8 -> ofD
                     [] variant = 9 -> ofAm
                     [] variant = 12 -> linkage
                     [] variant = 13 -> programme
                     [] variant = 14 -> start
                     [] OTHER -> <<>>
<1>8. Type14(g, verB) =
        IF g.status[3] < Corrected \/ verB \/ g.status[2] < Corrected THEN <<>>
        ELSE tp \o rest
  BY DEF Type14
<1>9. Proper(g, ofD) /\ Proper(g, ofAm)
  <2> HIDE DEF Freq
  <2> QED BY <1>7
<1> HIDE DEF tp, chars, linkage, programme, start, frequencies, ofD, ofAm
<1>10. Proper(g, rest)
  <2> HIDE DEF variant
  <2> QED BY <1>2, <1>3, <1>4, <1>5, <1>6, <1>9, ProperNone
<1> HIDE DEF rest
<1> QED BY <1>1, <1>8, <1>10, ProperJoin, ProperNone

LEMMA ProperDab ==
  ASSUME NEW g \in Groups
  PROVE  Proper(g, DabReference(g))
<1> DEFINE variant == Bits(g.data[1], 0, 4)
           d == g.data[2]
           M(name, v, i) == Typed(g, <<name>>, v, i)
           f == 65536 * Bits(g.data[1], 0, 2) + d
           eid == <<M("dab_eid", d, 2)>>
           link == <<M("dab_link_linkage_actuator", Bits(d, 14, 1), 2),
                     M("dab_link_soft_hard", Bits(d, 13, 1), 2),
                     M("dab_link_i13l_linkage_set", Bits(d, 12, 1), 2),
                     M("dab_link_linkage_set_number", Bits(d, 0, 12), 2)>>
           sid == <<M("dab_sid", g.data[3], 3)>>
           ensemble == <<Block(g, <<"dab_mode">>, Bits(g.data[1], 2, 2), 1),
                         M("dab_freq", f, 2), M("dab_eid", g.data[3], 3)>>
<1>1. ASSUME NEW n \in DabNames, NEW v, NEW i \in 2..3,
             \A c : c[1] = g.data[1] /\ c[2] = g.data[i] => DabMeaning(<<n>>, c) = v
      PROVE  IsWrite(g, Typed(g, <<n>>, v, i))
  <2> DEFINE c == <<g.data[1], g.data[i]>>
  <2>1. c[1] = g.data[1] /\ c[2] = g.data[i]
    OBVIOUS
  <2>2. n \notin Flags \cup Texts \cup {"country", "oda_aids", "tmc_channels"}
    BY DEF DabNames, Flags, Texts
  <2>3. i \in 0..3
    OBVIOUS
  <2> HIDE DEF c
  <2>4. v = Meaning(<<n>>, c)
    BY <1>1, <2>1, DabMeanings
  <2> QED BY <2>2, <2>3, <2>4, NamedWrite DEF c
<1>2. 2 \in 2..3 /\ 3 \in 2..3
  OBVIOUS
<1>3. /\ "dab_link_linkage_actuator" \in DabNames /\ "dab_link_soft_hard" \in DabNames
      /\ "dab_link_i13l_linkage_set" \in DabNames /\ "dab_link_linkage_set_number" \in DabNames
      /\ "dab_eid" \in DabNames /\ "dab_sid" \in DabNames /\ "dab_freq" \in DabNames
      /\ "dab_mode" \in DabNames
  BY DEF DabNames
<1>4. Proper(g, eid)
  <2>1. IsWrite(g, M("dab_eid", d, 2))
    BY <1>1, <1>2, <1>3 DEF DabMeaning
  <2> QED BY <2>1, ProperOne
<1>5. Proper(g, sid)
  <2>1. IsWrite(g, M("dab_sid", g.data[3], 3))
    BY <1>1, <1>2, <1>3 DEF DabMeaning
  <2> QED BY <2>1, ProperOne
<1>6. Proper(g, link)
  <2>1. IsWrite(g, M("dab_link_linkage_actuator", Bits(d, 14, 1), 2))
    BY <1>1, <1>2, <1>3 DEF DabMeaning
  <2>2. IsWrite(g, M("dab_link_soft_hard", Bits(d, 13, 1), 2))
    BY <1>1, <1>2, <1>3 DEF DabMeaning
  <2>3. IsWrite(g, M("dab_link_i13l_linkage_set", Bits(d, 12, 1), 2))
    BY <1>1, <1>2, <1>3 DEF DabMeaning
  <2>4. IsWrite(g, M("dab_link_linkage_set_number", Bits(d, 0, 12), 2))
    BY <1>1, <1>2, <1>3 DEF DabMeaning
  <2> HIDE DEF M
  <2> QED BY <2>1, <2>2, <2>3, <2>4, ProperFour
<1>7. Proper(g, ensemble)
  <2>1. IsWrite(g, Block(g, <<"dab_mode">>, Bits(g.data[1], 2, 2), 1))
    <3>1. Plain(<<"dab_mode">>)
      BY PlainPaths DEF Flags, Texts
    <3> DEFINE c == <<g.data[1]>>
    <3>2. c[1] = g.data[1]
      OBVIOUS
    <3> HIDE DEF c
    <3>3. Bits(g.data[1], 2, 2) = Meaning(<<"dab_mode">>, c)
      BY <1>3, <3>2, DabMeanings DEF DabMeaning
    <3>4. 1 \in 0..3
      OBVIOUS
    <3> QED BY <3>1, <3>3, <3>4, PlainWrites DEF c
  <2>2. IsWrite(g, M("dab_freq", f, 2))
    BY <1>1, <1>2, <1>3 DEF DabMeaning
  <2>3. IsWrite(g, M("dab_eid", g.data[3], 3))
    BY <1>1, <1>2, <1>3 DEF DabMeaning
  <2> HIDE DEF M, f
  <2> QED BY <2>1, <2>2, <2>3, ProperThree
<1> DEFINE first == CASE variant = 0 -> eid [] variant = 1 -> link [] OTHER -> <<>>
<1>8. DabReference(g) = IF Bits(g.data[1], 4, 1) = 1 THEN first \o sid ELSE ensemble
  BY DEF DabReference
<1> HIDE DEF eid, link, sid, ensemble
<1>9. Proper(g, first)
  <2> HIDE DEF variant
  <2> QED BY <1>4, <1>6, ProperNone
<1> HIDE DEF first
<1> QED BY <1>5, <1>7, <1>8, <1>9, ProperJoin

-----------------------------------------------------------------------------
(* TMC channels                                                            *)

ChannelNames == {"programme_identification", "frequencies", "ltn", "scope_i13l",
                 "scope_national", "scope_regional", "scope_urban", "sid"}

LEMMA CorrectedAtLeast ==
  ASSUME NEW g \in Groups, NEW p, NEW v, NEW i \in 2..3, g.status[1] >= Corrected,
         g.status[i] >= Corrected
  PROVE  LET w == Typed(g, p, v, i)
         IN /\ w.p = p /\ w.v = v /\ w.c[1] = g.data[1] /\ w.c[2] = g.data[i]
            /\ w.c \in Seq(Nat) /\ w.s \in {Uncorrectable, Corrected, Valid} /\ w.s # Uncorrectable
<1>1. i \in 0..3
  OBVIOUS
<1> QED BY <1>1, Carried

LEMMA ChannelWrite ==
  ASSUME NEW g \in Groups, NEW p, NEW v, NEW i \in 2..3,
         IsSeq(p), Len(p) >= 3, p[1] = "tmc_channels", p[3] \in ChannelNames,
         p[3] = "programme_identification" => p = Channel(p[2]) /\ v = p[2],
         g.status[1] >= Corrected, g.status[i] >= Corrected,
         p[3] # "programme_identification" => Details(g) /\ p[2] = g.data[3],
         \A c : c[1] = g.data[1] /\ c[2] = g.data[i] => v = ChannelMeaning(p, c)
  PROVE  IsWrite(g, Typed(g, p, v, i))
<1> DEFINE w == Typed(g, p, v, i)
<1>1. /\ w.p = p /\ w.v = v /\ w.c[1] = g.data[1] /\ w.c[2] = g.data[i]
      /\ w.c \in Seq(Nat) /\ w.s \in {Uncorrectable, Corrected, Valid} /\ w.s # Uncorrectable
  <2>1. g \in Groups /\ i \in 2..3 /\ g.status[1] >= Corrected /\ g.status[i] >= Corrected
    OBVIOUS
  <2> QED BY ONLY <2>1, CorrectedAtLeast
<1>2. v = Meaning(p, w.c)
  BY <1>1, ManyMeanings
<1>3. InChannel(p)
  <2>1. IsSeq(p) => Len(p) \in Nat
    BY Appended
  <2>2. Name(p) = p[3]
    BY <2>1 DEF Name
  <2>3. Tag(p) = "Programme"
    BY <2>2 DEF Tag, ChannelNames
  <2> QED BY <2>3 DEF InChannel
<1>4. /\ p = Channel(p[2]) => v = p[2]
      /\ p # Channel(p[2]) => Details(g) /\ p[2] = g.data[3]
  BY TuplesAre DEF Channel
<1> HIDE DEF w
<1>5. Len(p) >= 1
  <2>1. IsSeq(p) => Len(p) \in Nat
    BY Appended
  <2> QED BY <2>1
<1>6. w.p[1] \notin Flags /\ w.p[1] \notin Texts /\ w.p[1] # "oda_aids"
  <2>1. "tmc_channels" \notin Flags /\ "tmc_channels" \notin Texts /\ "tmc_channels" # "oda_aids"
    BY DEF Flags, Texts
  <2> QED BY <1>1, <2>1
<1>7. IsSeq(w.p) /\ Len(w.p) >= 1 /\ w.v = Meaning(w.p, w.c) /\ InChannel(w.p)
      /\ (w.p = Channel(w.p[2]) => w.v = w.p[2])
      /\ (w.p # Channel(w.p[2]) => Details(g) /\ w.p[2] = g.data[3])
  <2>1. w.p = p /\ w.v = v
    BY <1>1
  <2> QED BY <1>2, <1>3, <1>4, <1>5, <2>1, Zenon
<1>8. IsWrite(g, w)
  BY <1>1, <1>6, <1>7 DEF IsWrite
<1> QED BY <1>8 DEF w

LEMMA ChannelWrites ==
  ASSUME NEW g \in Groups, NEW i \in 2..3, g.status[1] >= Corrected, g.status[i] >= Corrected
  PROVE  IsWrite(g, Typed(g, Channel(g.data[i]), g.data[i], i))
<1> DEFINE p == Channel(g.data[i])
<1>1. /\ IsSeq(p) /\ Len(p) = 3 /\ p[1] = "tmc_channels" /\ p[2] = g.data[i]
      /\ p[3] = "programme_identification"
  BY TuplesAre DEF Channel
<1>2. p = Channel(p[2]) /\ g.data[i] = p[2]
  BY <1>1
<1> HIDE DEF p
<1>3. p[3] \in ChannelNames /\ Len(p) >= 3
  BY <1>1 DEF ChannelNames
<1>4. \A c : c[1] = g.data[1] /\ c[2] = g.data[i] => g.data[i] = ChannelMeaning(p, c)
  BY <1>1 DEF ChannelMeaning
<1>5. IsWrite(g, Typed(g, p, g.data[i], i))
  BY <1>1, <1>2, <1>3, <1>4, ChannelWrite
<1> QED BY <1>5 DEF p

LEMMA ChannelMember ==
  ASSUME NEW g \in Groups, NEW k, NEW n \in ChannelNames \ {"programme_identification"}, NEW v,
         Details(g), k = g.data[3], g.status[1] >= Corrected, g.status[2] >= Corrected,
         \A p, c : Len(p) = 3 /\ p[3] = n /\ c[2] = g.data[2] => ChannelMeaning(p, c) = v
  PROVE  IsWrite(g, Typed(g, <<"tmc_channels", k, n>>, v, 2))
<1> DEFINE p == <<"tmc_channels", k, n>>
<1>1. IsSeq(p) /\ Len(p) = 3 /\ p[1] = "tmc_channels" /\ p[2] = k /\ p[3] = n
  BY TuplesAre
<1> HIDE DEF p
<1>2. p[3] \in ChannelNames /\ Len(p) >= 3 /\ p[3] # "programme_identification"
  BY <1>1
<1>3. 2 \in 2..3
  OBVIOUS
<1>4. \A c : c[1] = g.data[1] /\ c[2] = g.data[2] => v = ChannelMeaning(p, c)
  BY <1>1
<1>5. IsWrite(g, Typed(g, p, v, 2))
  BY <1>1, <1>2, <1>3, <1>4, ChannelWrite
<1> QED BY <1>5 DEF p

LEMMA ChannelFrequency ==
  ASSUME NEW g \in Groups, NEW k, NEW f, Details(g), k = g.data[3],
         g.status[1] >= Corrected, g.status[2] >= Corrected
  PROVE  LET q == Append(<<"tmc_channels", k, "frequencies">>, f)
         IN /\ IsWrite(g, Typed(g, q, f, 2))
            /\ q[1] = "tmc_channels" /\ q[2] = k
<1> DEFINE p == <<"tmc_channels", k, "frequencies">>
           q == Append(p, f)
<1>1. IsSeq(p) /\ Len(p) = 3 /\ p[1] = "tmc_channels" /\ p[2] = k /\ p[3] = "frequencies"
  BY TuplesAre
<1> HIDE DEF p
<1>2. /\ IsSeq(q) /\ Len(q) = Len(p) + 1 /\ \A j \in 1..Len(p) : q[j] = p[j]
      /\ q[Len(p) + 1] = f
  <2>1. IsSeq(p)
    BY <1>1
  <2> QED BY <2>1, Appended, Zenon
<1> HIDE DEF q
<1>3. Len(q) = 4 /\ q[1] = "tmc_channels" /\ q[2] = k /\ q[3] = "frequencies" /\ q[4] = f
  BY <1>1, <1>2
<1>4. q[3] \in ChannelNames /\ Len(q) >= 3 /\ q[3] # "programme_identification"
  BY <1>3 DEF ChannelNames
<1>5. \A c : c[1] = g.data[1] /\ c[2] = g.data[2] => f = ChannelMeaning(q, c)
  BY <1>3 DEF ChannelMeaning
<1>6. 2 \in 2..3
  OBVIOUS
<1>7. IsWrite(g, Typed(g, q, f, 2))
  BY <1>2, <1>3, <1>4, <1>5, <1>6, ChannelWrite
<1> QED BY <1>3, <1>7 DEF p, q

LEMMA ProperTmcTuning ==
  ASSUME NEW g \in Groups, \A i \in 1..3 : g.status[i] >= Corrected,
         Type(g) \notin KnownTypes, Bits(g.data[1], 0, 5) \in 20..25
  PROVE  Proper(g, TmcTuning(g))
<1> DEFINE variant == Bits(g.data[1], 0, 4)
           d == g.data[2]
           k == g.data[3]
           M(name, lo, n) == Typed(g, <<"tmc_channels", k, name>>, Bits(d, lo, n), 2)
           frequencies == <<"tmc_channels", k, "frequencies">>
           tuned == ExtractFrequency(Bits(d, 0, 8), FALSE)
           a == 4 * (variant - 4)
           provider == Chars(g, "tmc_service_provider_name", a, 2)
                         \o Chars(g, "tmc_service_provider_name", a + 2, 3)
           channel(i) == Typed(g, <<"tmc_channels", g.data[i], "programme_identification">>,
                               g.data[i], i)
           alternative == <<channel(3)>> \o AddFrequencies(g, frequencies, 2, FALSE)
           retuned == <<channel(3), Typed(g, Append(frequencies, tuned), tuned, 2)>>
           channels == (IF d # 0 THEN <<channel(2)>> ELSE <<>>)
                         \o (IF k # 0 THEN <<channel(3)>> ELSE <<>>)
           details == <<channel(3), M("ltn", 10, 6), M("scope_i13l", 9, 1),
                        M("scope_national", 8, 1), M("scope_regional", 7, 1),
                        M("scope_urban", 6, 1), M("sid", 0, 6)>>
<1>1. g.status[1] >= Corrected /\ g.status[2] >= Corrected /\ g.status[3] >= Corrected
  OBVIOUS
<1>2. /\ IsWrite(g, Typed(g, Channel(g.data[2]), g.data[2], 2))
      /\ IsWrite(g, Typed(g, Channel(g.data[3]), g.data[3], 3))
  <2>1. 2 \in 2..3 /\ 3 \in 2..3
    OBVIOUS
  <2> QED BY <1>1, <2>1, ChannelWrites
<1>3. IsWrite(g, channel(2)) /\ IsWrite(g, channel(3))
  BY <1>2 DEF Channel
<1>4. ASSUME variant \in 4..5 PROVE Proper(g, provider)
  <2>1. variant = 4 \/ variant = 5
    BY <1>4
  <2>2. a \in Nat /\ a % 2 = 0 /\ a + 2 \in Nat /\ (a + 2) % 2 = 0
    <3> HIDE DEF variant
    <3> QED BY <2>1
  <2>3. "tmc_service_provider_name" \in Strings /\ Carries(g, "tmc_service_provider_name")
    BY DEF Strings, Carries
  <2> HIDE DEF a
  <2>4. /\ Proper(g, Chars(g, "tmc_service_provider_name", a, 2))
        /\ Proper(g, Chars(g, "tmc_service_provider_name", a + 2, 3))
    <3>1. 2 \in 2..3 /\ 3 \in 2..3
      OBVIOUS
    <3> QED BY <2>2, <2>3, <3>1, ProperChars
  <2> QED BY <2>4, ProperJoin
<1>5. ASSUME variant = 6 PROVE Proper(g, alternative)
  <2>1. Details(g)
    BY <1>5 DEF Details
  <2>2. \A f : /\ IsWrite(g, Typed(g, Append(frequencies, f), f, 2))
               /\ FALSE => IsWrite(g, TypedBoth(g, Append(frequencies, f), f))
    BY <1>1, <2>1, ChannelFrequency
  <2>3. 2 \in 2..3 /\ FALSE \in BOOLEAN
    OBVIOUS
  <2> HIDE DEF frequencies, channel
  <2>4. Proper(g, AddFrequencies(g, frequencies, 2, FALSE))
    BY <2>2, <2>3, ProperFrequencies
  <2>5. Proper(g, <<channel(3)>>)
    BY <1>3, ProperOne
  <2> QED BY <2>4, <2>5, ProperJoin
<1>6. ASSUME variant = 7 PROVE Proper(g, retuned)
  <2>1. Details(g)
    BY <1>6 DEF Details
  <2>2. IsWrite(g, Typed(g, Append(frequencies, tuned), tuned, 2))
    BY <1>1, <2>1, ChannelFrequency
  <2> HIDE DEF frequencies, channel
  <2> QED BY <1>3, <2>2, ProperTwo
<1>7. Proper(g, channels)
  <2> HIDE DEF channel
  <2>1. Proper(g, IF d # 0 THEN <<channel(2)>> ELSE <<>>)
    BY <1>3, ProperOne, ProperNone
  <2>2. Proper(g, IF k # 0 THEN <<channel(3)>> ELSE <<>>)
    BY <1>3, ProperOne, ProperNone
  <2> QED BY <2>1, <2>2, ProperJoin
<1>8. ASSUME variant = 9 PROVE Proper(g, details)
  <2>1. Details(g)
    BY <1>8 DEF Details
  <2> DEFINE names == ChannelNames \ {"programme_identification"}
  <2>2. /\ "ltn" \in names /\ "scope_i13l" \in names /\ "scope_national" \in names
        /\ "scope_regional" \in names /\ "scope_urban" \in names /\ "sid" \in names
    BY DEF ChannelNames
  <2> HIDE DEF names
  <2>3. ASSUME NEW n \in names, NEW v,
               \A p, c : Len(p) = 3 /\ p[3] = n /\ c[2] = d => ChannelMeaning(p, c) = v
        PROVE  IsWrite(g, Typed(g, <<"tmc_channels", k, n>>, v, 2))
    BY <1>1, <2>1, <2>3, ChannelMember DEF names
  <2>4. IsWrite(g, M("ltn", 10, 6)) /\ IsWrite(g, M("scope_i13l", 9, 1))
    BY <2>2, <2>3 DEF ChannelMeaning
  <2>5. IsWrite(g, M("scope_national", 8, 1)) /\ IsWrite(g, M("scope_regional", 7, 1))
    BY <2>2, <2>3 DEF ChannelMeaning
  <2>6. IsWrite(g, M("scope_urban", 6, 1)) /\ IsWrite(g, M("sid", 0, 6))
    BY <2>2, <2>3 DEF ChannelMeaning
  <2> HIDE DEF M, channel
  <2> QED BY <1>3, <2>4, <2>5, <2>6, ProperSeven
<1>9. TmcTuning(g) = CASE variant \in 4..5 -> provider
                       [] variant = 6 -> alternative
                       [] variant = 7 -> retuned
                       [] variant = 8 -> channels
                       [] variant = 9 -> details
  BY DEF TmcTuning
<1>10. variant \in 4..9
  <2>1. g.data[1] \in Nat
    BY GroupWords
  <2>2. Bits(g.data[1], 0, 4) = g.data[1] % 16 /\ Bits(g.data[1], 0, 5) = g.data[1] % 32
    BY <2>1, LowBits
  <2> QED BY <2>1, <2>2
<1> HIDE DEF provider, alternative, retuned, channels, details, variant
<1> QED BY <1>4, <1>5, <1>6, <1>7, <1>8, <1>9, <1>10

-----------------------------------------------------------------------------
(* All calls of set for a group, and their order.                          *)

LEMMA TmcGroups ==
  ASSUME NEW vs, NEW g, IsTmc(vs, g)
  PROVE  Type(g) \notin KnownTypes /\ \A i \in 1..3 : g.status[i] >= Corrected
<1>1. \A i \in 1..3 : g.status[i] >= Corrected
  BY DEF IsTmc
<1>2. IsOda(vs, g) \/ Type(g) = 16
  BY DEF IsTmc
<1>3. IsOda(vs, g) => Type(g) \notin KnownTypes
  BY DEF IsOda
<1>4. Type(g) = 16 => Type(g) \notin KnownTypes
  BY DEF KnownTypes
<1> QED BY <1>1, <1>2, <1>3, <1>4

LEMMA ProperTypeFields ==
  ASSUME NEW vs, NEW g \in Groups
  PROVE  Proper(g, TypeFields(vs, g))
<1> DEFINE type == Type(g)
           ws == TypeFields(vs, g)
           pi == Item(vs, <<"programme_identification">>)
           mode == Item(vs, <<"tmc_mode">>)
           oda == IF IsTmc(vs, g)
                  THEN IF Bits(g.data[1], 0, 5) \in 20..25 THEN TmcTuning(g) ELSE <<>>
                  ELSE IF IsOda(vs, g) /\ vs[OdaPath(g)].sentValue = DabAid THEN DabReference(g)
                  ELSE <<>>
<1>1. ws = CASE type \in {0, 1} -> Type0(g, type = 1)
             [] type \in {2, 3} -> Type1(g, type = 3, pi)
             [] type \in {4, 5} -> Type2(g, type = 5)
             [] type = 6 -> Type3A(g, mode)
             [] type = 8 -> Type4A(g)
             [] type = 20 -> Type10A(g)
             [] type \in {28, 29} -> Type14(g, type = 29)
             [] type = 31 -> Type15B(g)
             [] OTHER -> oda
  BY DEF TypeFields
<1>2. Proper(g, oda)
  <2>1. ASSUME IsTmc(vs, g), Bits(g.data[1], 0, 5) \in 20..25 PROVE Proper(g, TmcTuning(g))
    BY <2>1, TmcGroups, ProperTmcTuning
  <2> QED BY <2>1, ProperDab, ProperNone
<1>3. Proper(g, Type0(g, type = 1)) /\ Proper(g, Type1(g, type = 3, pi))
  <2>1. (type = 1) \in BOOLEAN /\ (type = 3) \in BOOLEAN
    OBVIOUS
  <2> HIDE DEF pi
  <2> QED BY <2>1, ProperType0, ProperType1
<1>4. type \in {4, 5} => Proper(g, Type2(g, type = 5))
  <2>1. (type = 5) \in BOOLEAN
    OBVIOUS
  <2> QED BY <2>1, ProperType2
<1>5. type = 6 => Proper(g, Type3A(g, mode))
  <2> HIDE DEF mode
  <2> QED BY ProperType3A
<1>6. Proper(g, Type4A(g)) /\ (type = 20 => Proper(g, Type10A(g))) /\ Proper(g, Type15B(g))
  BY ProperType4A, ProperType10A, ProperType15B
<1>7. Proper(g, Type14(g, type = 29))
  <2>1. (type = 29) \in BOOLEAN
    OBVIOUS
  <2> QED BY <2>1, ProperType14
<1> HIDE DEF ws, oda, pi, mode, type
<1>8. Proper(g, ws)
  BY <1>1, <1>2, <1>3, <1>4, <1>5, <1>6, <1>7
<1> QED BY <1>8 DEF ws

LEMMA ProperFields ==
  ASSUME NEW vs, NEW g \in Groups
  PROVE  Proper(g, Fields(vs, g))
<1>1. Proper(g, CommonFields(g, 0))
  <2>1. 0 \in {0, 2}
    OBVIOUS
  <2> QED BY <2>1, ProperCommon
<1> DEFINE us == AssignAll(vs, CommonFields(g, 0), [k \in 1..3 |-> 0])
<1>2. Proper(g, TypeFields(us, g))
  BY ProperTypeFields
<1>3. Proper(g, IF g.status[1] < Corrected THEN <<>> ELSE TypeFields(us, g))
  BY <1>2, ProperNone
<1> QED BY <1>1, <1>3, ProperJoin DEF Fields

LEMMA CommonThree ==
  ASSUME NEW g
  PROVE  /\ Len(CommonFields(g, 0)) = 3
         /\ \A k \in 1..3 : CommonFields(g, 0)[k].p[1] \in
              {"programme_identification", "traffic_programme", "programme_type"}
<1> DEFINE a == Block(g, <<"programme_identification">>, g.data[0], 0)
           b == Block(g, <<"traffic_programme">>, Bits(g.data[1], 10, 1), 1)
           c == Block(g, <<"programme_type">>, Bits(g.data[1], 5, 5), 1)
<1>1. CommonFields(g, 0) = <<a, b, c>>
  BY DEF CommonFields
<1>2. a.p[1] = "programme_identification" /\ b.p[1] = "traffic_programme" /\ c.p[1] = "programme_type"
  BY DEF Block
<1> HIDE DEF a, b, c
<1> QED BY <1>1, <1>2

\* What a group of its type says first.
LEMMA First ==
  ASSUME NEW vs, NEW g \in Groups
  PROVE  LET ws == TypeFields(vs, g)
         IN /\ Type(g) \in {4, 5} => Len(ws) >= 1 /\ ws[1].p = <<"text_ab">>
            /\ Type(g) = 20 => Len(ws) >= 1 /\ ws[1].p = <<"ptn_ab">>
            /\ Details(g) /\ IsTmc(vs, g) => Len(ws) >= 1 /\ ws[1].p = Channel(g.data[3])
<1>2. ASSUME Type(g) \in {4, 5}
      PROVE  Len(TypeFields(vs, g)) >= 1 /\ TypeFields(vs, g)[1].p = <<"text_ab">>
  <2> DEFINE w == Block(g, <<"text_ab">>, Bits(g.data[1], 4, 1), 1)
             seg == Bits(g.data[1], 0, 4)
             b == <<Block(g, <<"programme_identification">>, g.data[2], 2)>>
             c == Chars(g, "radio_text", 2 * seg, 3)
             d == Chars(g, "radio_text", 4 * seg, 2)
             e == Chars(g, "radio_text", 4 * seg + 2, 3)
  <2>1. TypeFields(vs, g) = Type2(g, Type(g) = 5)
    BY <1>2 DEF TypeFields
  <2>2. Type2(g, Type(g) = 5) = IF Type(g) = 5 THEN <<w>> \o b \o c ELSE <<w>> \o d \o e
    BY DEF Type2
  <2>3. w.p = <<"text_ab">>
    BY DEF Block
  <2>4. IsSeq(b) /\ IsSeq(c) /\ IsSeq(d) /\ IsSeq(e)
    BY TuplesAre DEF Chars
  <2> HIDE DEF w, b, c, d, e
  <2>5. Len(<<w>> \o b \o c) >= 1 /\ (<<w>> \o b \o c)[1] = w
    BY <2>4, Leading
  <2>6. Len(<<w>> \o d \o e) >= 1 /\ (<<w>> \o d \o e)[1] = w
    BY <2>4, Leading
  <2> QED BY <2>1, <2>2, <2>3, <2>5, <2>6
<1>3. ASSUME Type(g) = 20
      PROVE  Len(TypeFields(vs, g)) >= 1 /\ TypeFields(vs, g)[1].p = <<"ptn_ab">>
  <2> DEFINE w == Block(g, <<"ptn_ab">>, Bits(g.data[1], 4, 1), 1)
             seg == Bits(g.data[1], 0, 1)
             d == Chars(g, "programme_type_name", 4 * seg, 2)
             e == Chars(g, "programme_type_name", 4 * seg + 2, 3)
  <2>1. TypeFields(vs, g) = Type10A(g)
    BY <1>3 DEF TypeFields
  <2>2. Type10A(g) = <<w>> \o d \o e
    BY DEF Type10A
  <2>3. w.p = <<"ptn_ab">>
    BY DEF Block
  <2>4. IsSeq(d) /\ IsSeq(e)
    BY TuplesAre DEF Chars
  <2> HIDE DEF w, d, e
  <2> QED BY <2>1, <2>2, <2>3, <2>4, Leading
<1>4. ASSUME Details(g), IsTmc(vs, g)
      PROVE  Len(TypeFields(vs, g)) >= 1 /\ TypeFields(vs, g)[1].p = Channel(g.data[3])
  <2> DEFINE d == g.data[2]
             k == g.data[3]
             variant == Bits(g.data[1], 0, 4)
             M(name, lo, n) == Typed(g, <<"tmc_channels", k, name>>, Bits(d, lo, n), 2)
             frequencies == <<"tmc_channels", k, "frequencies">>
             tuned == ExtractFrequency(Bits(d, 0, 8), FALSE)
             channel(i) == Typed(g, <<"tmc_channels", g.data[i], "programme_identification">>,
                                 g.data[i], i)
             w == channel(3)
             a == AddFrequencies(g, frequencies, 2, FALSE)
             x == Typed(g, Append(frequencies, tuned), tuned, 2)
             details == <<w, M("ltn", 10, 6), M("scope_i13l", 9, 1),
                          M("scope_national", 8, 1), M("scope_regional", 7, 1),
                          M("scope_urban", 6, 1), M("sid", 0, 6)>>
  <2>1. Type(g) \notin {0, 1, 2, 3, 4, 5, 6, 8, 20, 28, 29, 31}
    BY <1>4 DEF Details, KnownTypes
  <2>2. TypeFields(vs, g) = TmcTuning(g)
    BY <1>4, <2>1 DEF TypeFields, Details
  <2>3. variant \in {6, 7, 9}
    BY <1>4 DEF Details
  <2> DEFINE c == 4 * (variant - 4)
             provider == Chars(g, "tmc_service_provider_name", c, 2)
                           \o Chars(g, "tmc_service_provider_name", c + 2, 3)
             channels == (IF d # 0 THEN <<channel(2)>> ELSE <<>>)
                           \o (IF k # 0 THEN <<channel(3)>> ELSE <<>>)
             alternative == <<w>> \o a
             retuned == <<w, x>>
  <2>12. TmcTuning(g) = CASE variant \in 4..5 -> provider
                         [] variant = 6 -> alternative
                         [] variant = 7 -> retuned
                         [] variant = 8 -> channels
                         [] variant = 9 -> details
    BY DEF TmcTuning
  <2>4. /\ variant = 6 => TmcTuning(g) = alternative
        /\ variant = 7 => TmcTuning(g) = retuned
        /\ variant = 9 => TmcTuning(g) = details
    <3> HIDE DEF variant, provider, channels, alternative, retuned, details
    <3> QED BY <2>12
  <2>5. w.p = Channel(g.data[3])
    BY DEF Typed, Channel
  <2> DEFINE m2 == M("ltn", 10, 6)
             m3 == M("scope_i13l", 9, 1)
             m4 == M("scope_national", 8, 1)
             m5 == M("scope_regional", 7, 1)
             m6 == M("scope_urban", 6, 1)
             m7 == M("sid", 0, 6)
  <2>6. Len(details) = 7 /\ details[1] = w
    <3>1. details = <<w, m2, m3, m4, m5, m6, m7>>
      OBVIOUS
    <3> HIDE DEF w, m2, m3, m4, m5, m6, m7, details
    <3> QED BY <3>1
  <2>7. variant = 6 => Len(<<w>> \o a) >= 1 /\ (<<w>> \o a)[1] = w
    <3>1. ASSUME variant = 6 PROVE IsSeq(a)
      <4>1. g.status[1] >= Corrected /\ g.status[2] >= Corrected
        BY <1>4, TmcGroups
      <4>2. \A f : /\ IsWrite(g, Typed(g, Append(frequencies, f), f, 2))
                   /\ FALSE => IsWrite(g, TypedBoth(g, Append(frequencies, f), f))
        BY <1>4, <4>1, ChannelFrequency
      <4>3. 2 \in 2..3 /\ FALSE \in BOOLEAN
        OBVIOUS
      <4> HIDE DEF frequencies
      <4>4. Proper(g, a)
        BY <4>2, <4>3, ProperFrequencies
      <4> QED BY <4>4, ProperSeq
    <3> HIDE DEF w, a
    <3> QED BY <3>1, Leading
  <2>8. Len(<<w, x>>) = 2 /\ <<w, x>>[1] = w
    OBVIOUS
  <2>9. Len(TmcTuning(g)) >= 1 /\ TmcTuning(g)[1] = w
    <3>1. variant = 6 => Len(alternative) >= 1 /\ alternative[1] = w
      BY <2>7
    <3>2. Len(retuned) >= 1 /\ retuned[1] = w
      BY <2>8
    <3>3. Len(details) >= 1 /\ details[1] = w
      BY <2>6
    <3> HIDE DEF w, variant, alternative, retuned, details
    <3> QED BY <2>3, <2>4, <3>1, <3>2, <3>3
  <2> HIDE DEF w
  <2> QED BY <2>2, <2>5, <2>9
<1> QED BY <1>2, <1>3, <1>4

\* DAB linkage says nothing of TMC channels.
LEMMA DabApart ==
  ASSUME NEW g \in Groups, NEW k \in 1..Len(DabReference(g))
  PROVE  DabReference(g)[k].p[1] # "tmc_channels"
<1> DEFINE d == g.data[2]
           variant == Bits(g.data[1], 0, 4)
           M(name, v, i) == Typed(g, <<name>>, v, i)
           e1 == M("dab_eid", d, 2)
           l1 == M("dab_link_linkage_actuator", Bits(d, 14, 1), 2)
           l2 == M("dab_link_soft_hard", Bits(d, 13, 1), 2)
           l3 == M("dab_link_i13l_linkage_set", Bits(d, 12, 1), 2)
           l4 == M("dab_link_linkage_set_number", Bits(d, 0, 12), 2)
           s1 == M("dab_sid", g.data[3], 3)
           b1 == Block(g, <<"dab_mode">>, Bits(g.data[1], 2, 2), 1)
           b2 == M("dab_freq", 65536 * Bits(g.data[1], 0, 2) + d, 2)
           b3 == M("dab_eid", g.data[3], 3)
           S == {e1, l1, l2, l3, l4, s1, b1, b2, b3}
           none == <<>>
           eid == <<e1>>
           link == <<l1, l2, l3, l4>>
           sid == <<s1>>
           ensemble == <<b1, b2, b3>>
           first == CASE variant = 0 -> eid [] variant = 1 -> link [] OTHER -> none
<1>1. DabReference(g) = IF Bits(g.data[1], 4, 1) = 1 THEN first \o sid ELSE ensemble
  BY DEF DabReference
<1>2. /\ e1.p[1] # "tmc_channels" /\ l1.p[1] # "tmc_channels" /\ l2.p[1] # "tmc_channels"
      /\ l3.p[1] # "tmc_channels" /\ l4.p[1] # "tmc_channels" /\ s1.p[1] # "tmc_channels"
      /\ b1.p[1] # "tmc_channels" /\ b2.p[1] # "tmc_channels" /\ b3.p[1] # "tmc_channels"
  BY DEF Typed, Block
<1> HIDE DEF e1, l1, l2, l3, l4, s1, b1, b2, b3
<1>3. \A w \in S : w.p[1] # "tmc_channels"
  BY <1>2
<1>4. /\ none \in Seq(S) /\ eid \in Seq(S) /\ link \in Seq(S) /\ sid \in Seq(S)
      /\ ensemble \in Seq(S)
  <2>1. e1 \in S /\ l1 \in S /\ l2 \in S /\ l3 \in S /\ l4 \in S /\ s1 \in S /\ b1 \in S
        /\ b2 \in S /\ b3 \in S
    OBVIOUS
  <2> HIDE DEF S
  <2> QED BY <2>1
<1> HIDE DEF S, none, eid, link, sid, ensemble
<1>5. first \in Seq(S)
  BY <1>4
<1> HIDE DEF first
<1>6. first \o sid \in Seq(S)
  BY <1>4, <1>5
<1>7. DabReference(g) \in Seq(S)
  BY <1>1, <1>4, <1>6
<1>8. DabReference(g)[k] \in S
  BY <1>7
<1> QED BY <1>3, <1>8

\* A text follows its flag, and what is said of a channel its identification.
InOrder(ws, j) ==
  /\ ws[j].p[1] = "radio_text" => \E i \in 1..j : ws[i].p = <<"text_ab">>
  /\ ws[j].p[1] = "programme_type_name" => \E i \in 1..j : ws[i].p = <<"ptn_ab">>
  /\ ws[j].p[1] = "tmc_channels" => \E i \in 1..j : ws[i].p = Channel(ws[j].p[2])

LEMMA Order ==
  ASSUME NEW vs, NEW g \in Groups, NEW j \in 1..Len(Fields(vs, g))
  PROVE  InOrder(Fields(vs, g), j)
<1> DEFINE ws == Fields(vs, g)
           us == AssignAll(vs, CommonFields(g, 0), [k \in 1..3 |-> 0])
           common == CommonFields(g, 0)
           rest == IF g.status[1] < Corrected THEN <<>> ELSE TypeFields(us, g)
<1>1. ws = common \o rest
  BY DEF Fields
<1>2. IsSeq(common) /\ IsSeq(rest) /\ IsSeq(TypeFields(us, g))
  <2>1. 0 \in {0, 2}
    OBVIOUS
  <2>2. Proper(g, common) /\ Proper(g, TypeFields(us, g))
    BY <2>1, ProperCommon, ProperTypeFields
  <2> QED BY <2>2, ProperSeq, TuplesAre
<1>3. /\ Len(common) = 3
      /\ \A k \in 1..3 : common[k].p[1] \in
           {"programme_identification", "traffic_programme", "programme_type"}
  BY CommonThree
<1>4. IsWrite(g, ws[j])
  BY ProperFields, ProperSeq
<1> HIDE DEF ws, common, us
<1>5. /\ Len(rest) \in Nat /\ Len(ws) = 3 + Len(rest)
      /\ \A k \in 1..3 : ws[k] = common[k]
      /\ \A k \in 1..Len(rest) : ws[3 + k] = rest[k]
  <2> HIDE DEF rest
  <2>1. /\ Len(rest) \in Nat /\ Len(common \o rest) = Len(common) + Len(rest)
        /\ \A k \in 1..Len(common) : (common \o rest)[k] = common[k]
        /\ \A k \in 1..Len(rest) : (common \o rest)[Len(common) + k] = rest[k]
    BY <1>2, Joined
  <2> QED BY <1>1, <1>3, <2>1
<1>6. j \in Nat /\ j >= 1 /\ j <= Len(ws)
  <2>1. j \in 1..Len(ws)
    BY DEF ws
  <2>2. Len(ws) \in Nat
    BY <1>5
  <2> HIDE DEF rest
  <2> QED BY <2>1, <2>2
<1>7. ASSUME ws[j].p[1] \in {"radio_text", "programme_type_name", "tmc_channels"}
      PROVE  /\ j >= 4 /\ rest = TypeFields(us, g) /\ j - 3 \in 1..Len(rest)
             /\ ws[j] = TypeFields(us, g)[j - 3]
             /\ Len(TypeFields(us, g)) >= 1 => 4 \in 1..j /\ ws[4] = TypeFields(us, g)[1]
  <2>1. j \notin 1..3
    <3>1. SUFFICES ASSUME j \in 1..3 PROVE FALSE
      OBVIOUS
    <3>2. ws[j].p[1] \in {"programme_identification", "traffic_programme", "programme_type"}
      BY <1>3, <1>5, <3>1
    <3> QED BY <1>7, <3>2
  <2>2. j >= 4 /\ j - 3 \in 1..Len(rest)
    BY <1>5, <1>6, <2>1
  <2>3. rest = TypeFields(us, g)
    <3>1. Len(rest) # 0
      BY <1>5, <2>2
    <3>2. Len(<<>>) = 0
      OBVIOUS
    <3> QED BY <3>1, <3>2
  <2> HIDE DEF rest
  <2>4. ws[j] = rest[j - 3]
    <3>1. ws[3 + (j - 3)] = rest[j - 3]
      BY <1>5, <2>2
    <3>2. 3 + (j - 3) = j
      BY <1>6
    <3> QED BY <3>1, <3>2
  <2>5. Len(rest) >= 1 => 4 \in 1..j /\ ws[4] = rest[1]
    <3>1. ASSUME Len(rest) >= 1 PROVE ws[3 + 1] = rest[1]
      BY <1>5, <3>1
    <3> QED BY <1>6, <2>2, <3>1
  <2> QED BY <2>2, <2>3, <2>4, <2>5
<1>8. ASSUME ws[j].p[1] = "radio_text" PROVE \E i \in 1..j : ws[i].p = <<"text_ab">>
  <2>1. Type(g) \in {4, 5}
    BY <1>4, <1>8 DEF IsWrite, Texts, Carries, ws
  <2>2. Len(TypeFields(us, g)) >= 1 /\ TypeFields(us, g)[1].p = <<"text_ab">>
    BY <2>1, First
  <2> QED BY <1>7, <1>8, <2>2
<1>9. ASSUME ws[j].p[1] = "programme_type_name" PROVE \E i \in 1..j : ws[i].p = <<"ptn_ab">>
  <2>1. Type(g) = 20
    BY <1>4, <1>9 DEF IsWrite, Texts, Carries, ws
  <2>2. Len(TypeFields(us, g)) >= 1 /\ TypeFields(us, g)[1].p = <<"ptn_ab">>
    BY <2>1, First
  <2> QED BY <1>7, <1>9, <2>2
<1>10. ASSUME ws[j].p[1] = "tmc_channels" PROVE \E i \in 1..j : ws[i].p = Channel(ws[j].p[2])
  <2>1. CASE ws[j].p = Channel(ws[j].p[2])
    BY <1>6, <2>1
  <2>2. CASE ws[j].p # Channel(ws[j].p[2])
    <3>1. Details(g) /\ ws[j].p[2] = g.data[3]
      BY <1>4, <1>10, <2>2 DEF IsWrite, ws
    <3>2. IsTmc(us, g)
      <4>1. SUFFICES ASSUME ~IsTmc(us, g) PROVE FALSE
        OBVIOUS
      <4>2. Type(g) \notin {0, 1, 2, 3, 4, 5, 6, 8, 20, 28, 29, 31}
        BY <3>1 DEF Details, KnownTypes
      <4>3. TypeFields(us, g) = DabReference(g) \/ TypeFields(us, g) = <<>>
        BY <4>1, <4>2 DEF TypeFields
      <4>4. TypeFields(us, g) = DabReference(g) /\ j - 3 \in 1..Len(DabReference(g))
        BY <1>7, <1>10, <4>3
      <4> QED BY <1>7, <1>10, <4>4, DabApart
    <3>3. Len(TypeFields(us, g)) >= 1 /\ TypeFields(us, g)[1].p = Channel(g.data[3])
      BY <3>1, <3>2, First
    <3> QED BY <1>7, <1>10, <3>1, <3>3
  <2> QED BY <2>1, <2>2
<1> QED BY <1>8, <1>9, <1>10 DEF InOrder, ws

LEMMA CommonOrder ==
  ASSUME NEW g, NEW j \in 1..Len(CommonFields(g, 0))
  PROVE  InOrder(CommonFields(g, 0), j) /\ ~IsChannel(CommonFields(g, 0)[j].p)
<1> DEFINE ws == CommonFields(g, 0)
<1>1. ws[j].p[1] \in {"programme_identification", "traffic_programme", "programme_type"}
  <2>1. j \in 1..3
    BY CommonThree
  <2> QED BY <2>1, CommonThree
<1> HIDE DEF ws
<1> QED BY <1>1 DEF InOrder, IsChannel, ws

-----------------------------------------------------------------------------
(* The items, and what has been heard, after none, one, two ... of the     *)
(* calls of set: the recursive definitions define something.               *)

LEMMA AssignedSteps ==
  ASSUME NEW vs, NEW ws, NEW ts, Len(ws) \in Nat
  PROVE  /\ Assigned(vs, ws, ts)[0] = vs
         /\ \A k \in 1..Len(ws) :
              Assigned(vs, ws, ts)[k] = Assign(Assigned(vs, ws, ts)[k - 1], ws[k], ts[k])
<1> DEFINE Step(F, k) == IF k = 0 THEN vs ELSE Assign(F[k - 1], ws[k], ts[k])
           S == {n \in Nat : \E F : \A k \in 0..n : F[k] = Step(F, k)}
<1>1. 0 \in S
  <2> DEFINE G == [k \in 0..0 |-> vs]
  <2>1. \A k \in 0..0 : G[k] = Step(G, k)
    OBVIOUS
  <2> HIDE DEF G, Step
  <2> QED BY <2>1
<1>2. ASSUME NEW n \in Nat, n \in S PROVE n + 1 \in S
  <2>1. PICK F : \A k \in 0..n : F[k] = Step(F, k)
    BY <1>2
  <2> DEFINE G == [k \in 0..(n + 1) |->
                     IF k = n + 1 THEN Assign(F[n], ws[n + 1], ts[n + 1]) ELSE F[k]]
  <2>2. ASSUME NEW k \in 0..(n + 1) PROVE G[k] = Step(G, k)
    <3>1. CASE k = n + 1
      <4>1. G[k] = Assign(F[n], ws[n + 1], ts[n + 1])
        BY <3>1
      <4>2. n \in 0..(n + 1) /\ n # n + 1 /\ k - 1 = n /\ k # 0
        BY <3>1
      <4>3. G[n] = F[n]
        BY <4>2
      <4> HIDE DEF G
      <4> QED BY <3>1, <4>1, <4>2, <4>3
    <3>2. CASE k # n + 1
      <4>1. k \in 0..n /\ (k # 0 => k - 1 \in 0..(n + 1) /\ k - 1 # n + 1)
        BY <3>2
      <4>2. G[k] = F[k] /\ (k # 0 => G[k - 1] = F[k - 1])
        BY <3>2, <4>1
      <4>3. F[k] = Step(F, k)
        BY <2>1, <4>1
      <4> HIDE DEF G
      <4> QED BY <4>2, <4>3
    <3> QED BY <3>1, <3>2
  <2> HIDE DEF G, Step
  <2> QED BY <2>2
<1>3. PICK F : \A k \in 0..Len(ws) : F[k] = Step(F, k)
  <2> HIDE DEF S
  <2>1. Nat \subseteq S
    BY <1>1, <1>2, Induction
  <2> QED BY <2>1 DEF S
<1> DEFINE G == [k \in 0..Len(ws) |-> Step(F, k)]
<1>4. G = [k \in 0..Len(ws) |-> Step(G, k)]
  <2>1. \A k \in 0..Len(ws) : k # 0 => k - 1 \in 0..Len(ws)
    OBVIOUS
  <2>2. \A k \in 0..Len(ws) : G[k] = F[k]
    BY <1>3
  <2>3. \A k \in 0..Len(ws) : Step(F, k) = Step(G, k)
    <3> HIDE DEF G
    <3> QED BY <2>1, <2>2
  <2> HIDE DEF Step
  <2> QED BY <2>3
<1>5. Assigned(vs, ws, ts) = CHOOSE f : f = [k \in 0..Len(ws) |-> Step(f, k)]
  BY DEF Assigned
<1> HIDE DEF G
<1>6. Assigned(vs, ws, ts) = [k \in 0..Len(ws) |-> Step(Assigned(vs, ws, ts), k)]
  <2> HIDE DEF Step
  <2> QED BY <1>4, <1>5
<1> QED BY <1>6

LEMMA HeardSteps ==
  ASSUME NEW h, NEW ws, NEW ts, NEW since, Len(ws) \in Nat
  PROVE  /\ HeardAfter(h, ws, ts, since)[0] = h
         /\ \A k \in 1..Len(ws) :
              HeardAfter(h, ws, ts, since)[k] =
                Hears(HeardAfter(h, ws, ts, since)[k - 1], ws[k], ts[k], since)
<1> DEFINE Step(F, k) == IF k = 0 THEN h ELSE Hears(F[k - 1], ws[k], ts[k], since)
           S == {n \in Nat : \E F : \A k \in 0..n : F[k] = Step(F, k)}
<1>1. 0 \in S
  <2> DEFINE G == [k \in 0..0 |-> h]
  <2>1. \A k \in 0..0 : G[k] = Step(G, k)
    OBVIOUS
  <2> HIDE DEF G, Step
  <2> QED BY <2>1
<1>2. ASSUME NEW n \in Nat, n \in S PROVE n + 1 \in S
  <2>1. PICK F : \A k \in 0..n : F[k] = Step(F, k)
    BY <1>2
  <2> DEFINE G == [k \in 0..(n + 1) |->
                     IF k = n + 1 THEN Hears(F[n], ws[n + 1], ts[n + 1], since) ELSE F[k]]
  <2>2. ASSUME NEW k \in 0..(n + 1) PROVE G[k] = Step(G, k)
    <3>1. CASE k = n + 1
      <4>1. G[k] = Hears(F[n], ws[n + 1], ts[n + 1], since)
        BY <3>1
      <4>2. n \in 0..(n + 1) /\ n # n + 1 /\ k - 1 = n /\ k # 0
        BY <3>1
      <4>3. G[n] = F[n]
        BY <4>2
      <4> HIDE DEF G
      <4> QED BY <3>1, <4>1, <4>2, <4>3
    <3>2. CASE k # n + 1
      <4>1. k \in 0..n /\ (k # 0 => k - 1 \in 0..(n + 1) /\ k - 1 # n + 1)
        BY <3>2
      <4>2. G[k] = F[k] /\ (k # 0 => G[k - 1] = F[k - 1])
        BY <3>2, <4>1
      <4>3. F[k] = Step(F, k)
        BY <2>1, <4>1
      <4> HIDE DEF G
      <4> QED BY <4>2, <4>3
    <3> QED BY <3>1, <3>2
  <2> HIDE DEF G, Step
  <2> QED BY <2>2
<1>3. PICK F : \A k \in 0..Len(ws) : F[k] = Step(F, k)
  <2> HIDE DEF S
  <2>1. Nat \subseteq S
    BY <1>1, <1>2, Induction
  <2> QED BY <2>1 DEF S
<1> DEFINE G == [k \in 0..Len(ws) |-> Step(F, k)]
<1>4. G = [k \in 0..Len(ws) |-> Step(G, k)]
  <2>1. \A k \in 0..Len(ws) : k # 0 => k - 1 \in 0..Len(ws)
    OBVIOUS
  <2>2. \A k \in 0..Len(ws) : G[k] = F[k]
    BY <1>3
  <2>3. \A k \in 0..Len(ws) : Step(F, k) = Step(G, k)
    <3> HIDE DEF G
    <3> QED BY <2>1, <2>2
  <2> HIDE DEF Step
  <2> QED BY <2>3
<1>5. HeardAfter(h, ws, ts, since) = CHOOSE f : f = [k \in 0..Len(ws) |-> Step(f, k)]
  BY DEF HeardAfter
<1> HIDE DEF G
<1>6. HeardAfter(h, ws, ts, since) = [k \in 0..Len(ws) |-> Step(HeardAfter(h, ws, ts, since), k)]
  <2> HIDE DEF Step
  <2> QED BY <1>4, <1>5
<1> QED BY <1>6

-----------------------------------------------------------------------------
(* One item, and one call of set.                                          *)

IsItem(r) ==
  /\ DOMAIN r = DOMAIN NewValue
  /\ r.sent \in BOOLEAN /\ r.hasCorrected \in BOOLEAN /\ r.lastUpdate \in Nat
  /\ r.sent \/ r.hasCorrected => r.lastCheck \in Seq(Nat)

LEMMA Members ==
  DOMAIN NewValue = {"sent", "sentValue", "hasCorrected", "lastValue", "lastCheck", "lastUpdate"}
  BY DEF NewValue

LEMMA NewIsItem ==
  IsItem(NewValue) /\ ~NewValue.sent /\ ~NewValue.hasCorrected /\ NewValue.lastUpdate = 0
<1>1. ~NewValue.sent /\ ~NewValue.hasCorrected /\ NewValue.lastUpdate = 0
      /\ NewValue.sent \in BOOLEAN /\ NewValue.hasCorrected \in BOOLEAN
  BY DEF NewValue
<1> QED BY <1>1 DEF IsItem

Becomes(r, v, c, s, t, q) ==
  /\ IsItem(q) /\ q.lastCheck = c /\ q.lastValue = v
  /\ Believed(r, v, c, s) =>
       q.sent /\ q.sentValue = v /\ ~q.hasCorrected /\ q.lastUpdate = t
  /\ ~Believed(r, v, c, s) => /\ q.sent = r.sent /\ q.sentValue = r.sentValue
                              /\ q.hasCorrected /\ q.lastUpdate = r.lastUpdate

LEMMA SetIsItem ==
  ASSUME NEW r, IsItem(r), NEW v, NEW c \in Seq(Nat), NEW s \in {Corrected, Valid}, NEW t \in Nat
  PROVE  Becomes(r, v, c, s, t, SetValue(r, v, c, s, t))
<1> DEFINE q == SetValue(r, v, c, s, t)
           believed == [sent |-> TRUE, sentValue |-> v, hasCorrected |-> FALSE,
                        lastValue |-> v, lastCheck |-> c, lastUpdate |-> t]
           kept == [r EXCEPT !.hasCorrected = TRUE, !.lastValue = v, !.lastCheck = c]
<1>1. s # Uncorrectable
  BY DEF Uncorrectable, Corrected, Valid
<1>2. q = IF Believed(r, v, c, s) THEN believed ELSE kept
  BY <1>1 DEF SetValue
<1>3. /\ DOMAIN believed = DOMAIN NewValue
      /\ believed.sent /\ believed.sentValue = v /\ ~believed.hasCorrected
      /\ believed.lastValue = v /\ believed.lastCheck = c /\ believed.lastUpdate = t
      /\ believed.sent \in BOOLEAN /\ believed.hasCorrected \in BOOLEAN
  BY Members
<1>4. /\ DOMAIN kept = DOMAIN NewValue /\ kept.hasCorrected /\ kept.hasCorrected \in BOOLEAN
      /\ kept.sent = r.sent /\ kept.sentValue = r.sentValue /\ kept.lastUpdate = r.lastUpdate
      /\ kept.lastValue = v /\ kept.lastCheck = c
  BY Members DEF IsItem
<1> HIDE DEF believed, kept
<1>5. CASE Believed(r, v, c, s)
  <2>1. q = believed
    BY <1>2, <1>5
  <2> HIDE DEF q
  <2> QED BY <1>3, <1>5, <2>1 DEF IsItem, Becomes, q
<1>6. CASE ~Believed(r, v, c, s)
  <2>1. q = kept
    BY <1>2, <1>6
  <2> HIDE DEF q
  <2> QED BY <1>4, <1>6, <2>1 DEF IsItem, Becomes, q
<1> QED BY <1>5, <1>6

LEMMA InvalidIsItem ==
  ASSUME NEW r, IsItem(r)
  PROVE  LET q == Invalidate(r)
         IN /\ IsItem(q) /\ ~q.sent /\ q.hasCorrected = r.hasCorrected
            /\ q.lastValue = r.lastValue /\ q.lastCheck = r.lastCheck
            /\ q.lastUpdate <= r.lastUpdate
<1> DEFINE q == Invalidate(r)
           none == [r EXCEPT !.sent = FALSE, !.lastUpdate = 0]
<1>1. q = IF r.sent THEN none ELSE r
  BY DEF Invalidate
<1>2. /\ DOMAIN none = DOMAIN NewValue /\ ~none.sent /\ none.sent \in BOOLEAN
      /\ none.hasCorrected = r.hasCorrected /\ none.lastValue = r.lastValue
      /\ none.lastCheck = r.lastCheck /\ none.lastUpdate = 0
  BY Members DEF IsItem
<1> HIDE DEF none
<1>3. r.lastUpdate >= 0 /\ r.lastUpdate <= r.lastUpdate
  BY DEF IsItem
<1>4. CASE r.sent
  <2>1. q = none
    BY <1>1, <1>4
  <2> HIDE DEF q
  <2> QED BY <1>2, <1>3, <1>4, <2>1 DEF IsItem, q
<1>5. CASE ~r.sent
  <2>1. q = r
    BY <1>1, <1>5
  <2> QED BY <1>3, <1>5, <2>1
<1> QED BY <1>4, <1>5

(* A call of set touches one item, and a text when its flag changes.       *)
Touches(vs, w, t, a) ==
  /\ DOMAIN a = DOMAIN vs \cup {w.p}
  /\ a[w.p] = SetValue(Item(vs, w.p), w.v, w.c, w.s, t)
  /\ \A p \in DOMAIN vs : p # w.p =>
       a[p] = IF Changing(Item(vs, w.p), w.v, w.c, w.s) /\ p[1] \in Wiped(w.p)
              THEN Invalidate(vs[p]) ELSE vs[p]

LEMMA Assigns ==
  ASSUME NEW vs, NEW w, w.s # Uncorrectable, NEW t
  PROVE  Touches(vs, w, t, Assign(vs, w, t))
<1> DEFINE r == Item(vs, w.p)
           wiped == IF Changing(r, w.v, w.c, w.s) THEN Wiped(w.p) ELSE {}
           others == [p \in DOMAIN vs |-> IF p[1] \in wiped THEN Invalidate(vs[p]) ELSE vs[p]]
           new == SetValue(r, w.v, w.c, w.s, t)
<1>1. Assign(vs, w, t) = With(others, w.p, new)
  BY DEF Assign
<1>2. DOMAIN others = DOMAIN vs
  OBVIOUS
<1>3. \A p \in DOMAIN vs : others[p] = IF p[1] \in wiped THEN Invalidate(vs[p]) ELSE vs[p]
  OBVIOUS
<1> HIDE DEF others, new
<1>4. With(others, w.p, new) = [j \in DOMAIN vs \cup {w.p} |-> IF j = w.p THEN new ELSE others[j]]
  BY <1>2 DEF With
<1>5. \A p : p[1] \in wiped <=> Changing(r, w.v, w.c, w.s) /\ p[1] \in Wiped(w.p)
  OBVIOUS
<1> DEFINE a == Assign(vs, w, t)
<1>6. DOMAIN a = DOMAIN vs \cup {w.p} /\ a[w.p] = new
  <2> HIDE DEF a
  <2> QED BY <1>1, <1>4 DEF a
<1>7. ASSUME NEW p \in DOMAIN vs, p # w.p
      PROVE  a[p] = IF p[1] \in wiped THEN Invalidate(vs[p]) ELSE vs[p]
  <2> HIDE DEF a
  <2>1. a[p] = others[p]
    BY <1>1, <1>4, <1>7 DEF a
  <2> QED BY <1>3, <2>1
<1> HIDE DEF wiped, r, a
<1> QED BY <1>5, <1>6, <1>7 DEF Touches, new, r, a

LEMMA Unheard ==
  ASSUME NEW vs, NEW h, NEW w, w.s = Uncorrectable, NEW t, NEW since
  PROVE  Assign(vs, w, t) = vs /\ Hears(h, w, t, since) = h
  BY DEF Assign, Hears

HearsTo(h, w, t, since, b) ==
  LET old == IF w.p \in DOMAIN h THEN h[w.p].at ELSE Nothing
  IN /\ DOMAIN b = DOMAIN h \cup {w.p}
     /\ \A p \in DOMAIN h : p # w.p => b[p] = h[p]
     /\ b[w.p].last = <<w.c, w.v>>
     /\ DOMAIN b[w.p].at = DOMAIN old \cup {w.v}
     /\ \A v \in DOMAIN old : v # w.v => b[w.p].at[v] = old[v]
     /\ b[w.p].at[w.v].time = t /\ b[w.p].at[w.v].word = w.c[1]
     /\ b[w.p].at[w.v].status = w.s
     /\ (\/ w.s = Valid
         \/ w.p \in DOMAIN h /\ h[w.p].last = <<w.c, w.v>>
         \/ w.v \in DOMAIN old /\ old[w.v].time >= since /\ old[w.v].grounds)
          => b[w.p].at[w.v].grounds

LEMMA Hearing ==
  ASSUME NEW h, NEW w, w.s # Uncorrectable, NEW t, NEW since
  PROVE  HearsTo(h, w, t, since, Hears(h, w, t, since))
<1> DEFINE known == w.p \in DOMAIN h
           old == IF known THEN h[w.p].at ELSE Nothing
           grounds == \/ w.s = Valid
                      \/ known /\ h[w.p].last = <<w.c, w.v>>
                      \/ w.v \in DOMAIN old /\ old[w.v].time >= since /\ old[w.v].grounds
           new == [time |-> t, word |-> w.c[1], status |-> w.s, grounds |-> grounds]
           item == [last |-> <<w.c, w.v>>, at |-> With(old, w.v, new)]
<1>1. Hears(h, w, t, since) = With(h, w.p, item)
  BY DEF Hears
<1>2. new.time = t /\ new.word = w.c[1] /\ new.status = w.s /\ new.grounds = grounds
  OBVIOUS
<1> HIDE DEF new
<1>3. item.last = <<w.c, w.v>> /\ item.at = With(old, w.v, new)
  OBVIOUS
<1> HIDE DEF item
<1>4. With(h, w.p, item) = [j \in DOMAIN h \cup {w.p} |-> IF j = w.p THEN item ELSE h[j]]
  BY DEF With
<1>5. item.at = [j \in DOMAIN old \cup {w.v} |-> IF j = w.v THEN new ELSE old[j]]
  BY <1>3 DEF With
<1> HIDE DEF old, grounds
<1>6. /\ DOMAIN item.at = DOMAIN old \cup {w.v} /\ item.at[w.v] = new
      /\ \A v \in DOMAIN old \ {w.v} : item.at[v] = old[v]
  BY <1>5
<1> DEFINE b == Hears(h, w, t, since)
<1>7. DOMAIN b = DOMAIN h \cup {w.p} /\ b[w.p] = item /\ \A p \in DOMAIN h \ {w.p} : b[p] = h[p]
  BY <1>1, <1>4
<1> HIDE DEF b
<1>8. HearsTo(h, w, t, since, b)
  BY <1>2, <1>3, <1>6, <1>7 DEF HearsTo, old, grounds
<1> QED BY <1>8 DEF b

-----------------------------------------------------------------------------
(* What holds of the items vs at time t, when h has been heard.            *)

IsPath(p) ==
  /\ IsSeq(p) /\ Len(p) >= 1
  /\ p[1] \in Flags => p = <<p[1]>>
  /\ p[1] = "oda_aids" => p = <<"oda_aids", p[2]>>
  /\ p[1] = "tmc_channels" => InChannel(p)

Items(vs, t) ==
  \A p \in DOMAIN vs : IsPath(p) /\ IsItem(vs[p]) /\ vs[p].lastUpdate <= t

\* What is shown has been heard when it was last believed, or later.
Backed(vs, h) ==
  \A p \in DOMAIN vs :
    vs[p].sent => /\ p \in DOMAIN h /\ vs[p].sentValue \in DOMAIN h[p].at
                  /\ h[p].at[vs[p].sentValue].time \in Nat
                  /\ vs[p].lastUpdate <= h[p].at[vs[p].sentValue].time

\* What waits to be confirmed is what was heard last.
Waiting(vs, h) ==
  \A p \in DOMAIN vs :
    vs[p].hasCorrected =>
      /\ p \in DOMAIN h /\ h[p].last = <<vs[p].lastCheck, vs[p].lastValue>>
      /\ p[1] # "country" => vs[p].lastValue = Meaning(p, vs[p].lastCheck)

\* TextOfOneFlag, of any items.
Flagged(vs, h) ==
  \A p \in DOMAIN vs :
    \A flag \in DOMAIN TextOf :
      (/\ p[1] = TextOf[flag]
       /\ vs[p].sent /\ Item(vs, flag).sent
       /\ h[p].at[vs[p].sentValue].status = Valid)
         => Bits(h[p].at[vs[p].sentValue].word, 4, 1) = vs[flag].sentValue

\* A channel that is known has its identification, which shows its own key when
\* it shows anything; unless the clock has torn the channel it shows or waits to
\* be confirmed, and is not older than any detail that is shown with it.
Tuned(vs, out) ==
  \A p \in DOMAIN vs :
    p[1] = "tmc_channels" =>
      /\ Channel(p[2]) \in DOMAIN vs
      /\ LET v == vs[Channel(p[2])]
         IN /\ v.sent => ~v.hasCorrected /\ v.sentValue = p[2]
            /\ Channel(p[2]) \notin out =>
                 /\ v.sent \/ v.hasCorrected
                 /\ v.sent /\ vs[p].sent => vs[p].lastUpdate <= v.lastUpdate

LEMMA WipesTexts ==
  ASSUME NEW p
  PROVE  /\ Wiped(p) \subseteq Texts
         /\ p[1] \notin Flags => Wiped(p) = {}
         /\ p = <<"text_ab">> => Wiped(p) = {"radio_text"}
         /\ p = <<"ptn_ab">> => Wiped(p) = {"programme_type_name"}
<1>1. <<"text_ab">>[1] = "text_ab" /\ <<"ptn_ab">>[1] = "ptn_ab"
  OBVIOUS
<1>2. p \in DOMAIN TextOf <=> p = <<"text_ab">> \/ p = <<"ptn_ab">>
  BY TextFlags
<1>3. p \in DOMAIN TextOf => p[1] \in Flags
  BY <1>1, <1>2 DEF Flags
<1> QED BY <1>2, <1>3, TextFlags DEF Wiped, Texts

(* What a call of set does to the items.                                   *)
Wrote(vs, w, t, a) ==
  LET r == Item(vs, w.p)
      q == a[w.p]
  IN /\ DOMAIN a = DOMAIN vs \cup {w.p}
     /\ IsItem(r) /\ r.lastUpdate <= t
     /\ r.sent \/ r.hasCorrected => w.p \in DOMAIN vs
     /\ w.p \in DOMAIN vs => r = vs[w.p]
     /\ IsItem(q) /\ q.lastCheck = w.c /\ q.lastValue = w.v /\ q.lastUpdate <= t
     /\ Believed(r, w.v, w.c, w.s) =>
          q.sent /\ q.sentValue = w.v /\ ~q.hasCorrected /\ q.lastUpdate = t
     /\ ~Believed(r, w.v, w.c, w.s) => /\ q.sent = r.sent /\ q.sentValue = r.sentValue
                                      /\ q.hasCorrected /\ q.lastUpdate = r.lastUpdate
     /\ \A p \in DOMAIN vs : p # w.p =>
          /\ IsItem(a[p]) /\ (a[p].sent => a[p] = vs[p]) /\ a[p].hasCorrected = vs[p].hasCorrected
          /\ a[p].lastValue = vs[p].lastValue /\ a[p].lastCheck = vs[p].lastCheck
          /\ a[p].lastUpdate <= t
          /\ p[1] \notin Texts => a[p] = vs[p]
          /\ Changing(r, w.v, w.c, w.s) /\ p[1] \in Wiped(w.p) => ~a[p].sent

LEMMA Writes ==
  ASSUME NEW g \in Groups, NEW w, IsWrite(g, w), w.s # Uncorrectable, NEW t \in Nat,
         NEW vs, Items(vs, t)
  PROVE  Wrote(vs, w, t, Assign(vs, w, t))
<1> DEFINE a == Assign(vs, w, t)
           r == Item(vs, w.p)
           changing == Changing(r, w.v, w.c, w.s)
<1>1. Touches(vs, w, t, a)
  BY Assigns
<1> HIDE DEF a
<1>2. IsItem(r) /\ r.lastUpdate <= t /\ (r.sent \/ r.hasCorrected => w.p \in DOMAIN vs)
      /\ (w.p \in DOMAIN vs => r = vs[w.p])
  <2>1. 0 <= t
    OBVIOUS
  <2> QED BY <2>1, NewIsItem DEF Items, Item
<1> DEFINE q == a[w.p]
<1>3. Becomes(r, w.v, w.c, w.s, t, q)
  <2>1. w.c \in Seq(Nat) /\ w.s \in {Corrected, Valid}
    BY DEF IsWrite
  <2>2. q = SetValue(r, w.v, w.c, w.s, t)
    BY <1>1 DEF Touches
  <2> HIDE DEF q, r
  <2> QED BY <1>2, <2>1, <2>2, SetIsItem
<1>4. q.lastUpdate <= t
  <2>1. q.lastUpdate = t \/ q.lastUpdate = r.lastUpdate
    BY <1>3 DEF Becomes
  <2>2. t <= t
    OBVIOUS
  <2> QED BY <1>2, <2>1, <2>2
<1>5. ASSUME NEW p \in DOMAIN vs, p # w.p
      PROVE  /\ IsItem(a[p]) /\ (a[p].sent => a[p] = vs[p]) /\ a[p].hasCorrected = vs[p].hasCorrected
             /\ a[p].lastValue = vs[p].lastValue /\ a[p].lastCheck = vs[p].lastCheck
             /\ a[p].lastUpdate <= t
             /\ p[1] \notin Texts => a[p] = vs[p]
             /\ changing /\ p[1] \in Wiped(w.p) => ~a[p].sent
  <2> DEFINE i == Invalidate(vs[p])
  <2>1. a[p] = IF changing /\ p[1] \in Wiped(w.p) THEN i ELSE vs[p]
    BY <1>1, <1>5 DEF Touches
  <2>2. p[1] \in Wiped(w.p) => p[1] \in Texts
    BY WipesTexts
  <2>3. IsItem(vs[p]) /\ vs[p].lastUpdate <= t
    BY DEF Items
  <2>4. vs[p].lastUpdate \in Nat
    BY <2>3 DEF IsItem
  <2>5. /\ IsItem(i) /\ ~i.sent /\ i.hasCorrected = vs[p].hasCorrected
        /\ i.lastValue = vs[p].lastValue /\ i.lastCheck = vs[p].lastCheck
        /\ i.lastUpdate <= vs[p].lastUpdate
    BY <2>3, InvalidIsItem
  <2>6. i.lastUpdate \in Nat
    BY <2>5 DEF IsItem
  <2> HIDE DEF i, changing
  <2>7. i.lastUpdate <= t
    BY <2>3, <2>4, <2>5, <2>6
  <2> QED BY <2>1, <2>2, <2>3, <2>5, <2>7
<1> HIDE DEF changing, q
<1>6. DOMAIN a = DOMAIN vs \cup {w.p}
  BY <1>1 DEF Touches
<1>7. Wrote(vs, w, t, a)
  BY <1>2, <1>3, <1>4, <1>5, <1>6 DEF Wrote, Becomes, q, changing
<1> QED BY <1>7 DEF a

LEMMA ItemsKept ==
  ASSUME NEW g, NEW w, IsWrite(g, w), NEW t, NEW vs, Items(vs, t),
         NEW a, Wrote(vs, w, t, a)
  PROVE  Items(a, t)
<1>1. IsPath(w.p)
  <2>1. w.p[1] = "tmc_channels" => InChannel(w.p)
    BY DEF IsWrite
  <2>2. w.p[1] = "oda_aids" => w.p = <<"oda_aids", w.p[2]>>
    <3>1. w.p[1] = "oda_aids" => w.p = <<"oda_aids", Bits(g.data[1], 0, 5)>>
      BY DEF IsWrite
    <3> QED BY <3>1
  <2> QED BY <2>1, <2>2 DEF IsPath, IsWrite
<1>2. ASSUME NEW p \in DOMAIN a PROVE IsPath(p) /\ IsItem(a[p]) /\ a[p].lastUpdate <= t
  <2>1. CASE p = w.p
    BY <1>1, <2>1 DEF Wrote
  <2>2. CASE p # w.p
    BY <2>2 DEF Wrote, Items
  <2> QED BY <2>1, <2>2
<1> QED BY <1>2 DEF Items

LEMMA BackedKept ==
  ASSUME NEW w, NEW t \in Nat, NEW vs, NEW h, Items(vs, t), Backed(vs, h),
         NEW a, Wrote(vs, w, t, a), NEW b, NEW since, HearsTo(h, w, t, since, b)
  PROVE  Backed(a, b)
<1>1. SUFFICES ASSUME NEW p \in DOMAIN a, a[p].sent
               PROVE  /\ p \in DOMAIN b /\ a[p].sentValue \in DOMAIN b[p].at
                      /\ b[p].at[a[p].sentValue].time \in Nat
                      /\ a[p].lastUpdate <= b[p].at[a[p].sentValue].time
  BY DEF Backed
<1>2. CASE p # w.p
  <2>1. p \in DOMAIN vs /\ a[p] = vs[p]
    BY <1>1, <1>2 DEF Wrote
  <2>2. /\ p \in DOMAIN h /\ vs[p].sentValue \in DOMAIN h[p].at
        /\ h[p].at[vs[p].sentValue].time \in Nat
        /\ vs[p].lastUpdate <= h[p].at[vs[p].sentValue].time
    BY <1>1, <2>1 DEF Backed
  <2>3. p \in DOMAIN b /\ b[p] = h[p]
    BY <1>2, <2>2 DEF HearsTo
  <2> QED BY <2>1, <2>2, <2>3
<1>3. CASE p = w.p
  <2>1. p \in DOMAIN b /\ w.v \in DOMAIN b[p].at /\ b[p].at[w.v].time = t
    BY <1>3 DEF HearsTo
  <2>2. a[p].lastUpdate <= t
    BY <1>3 DEF Wrote
  <2>3. CASE a[p].sentValue = w.v
    BY <2>1, <2>2, <2>3
  <2>4. CASE a[p].sentValue # w.v
    <3> DEFINE r == Item(vs, w.p)
    <3>1. /\ r.sent /\ a[p].sentValue = r.sentValue /\ a[p].lastUpdate = r.lastUpdate
          /\ p \in DOMAIN vs /\ r = vs[p]
      BY <1>1, <1>3, <2>4 DEF Wrote
    <3> HIDE DEF r
    <3>2. /\ p \in DOMAIN h /\ r.sentValue \in DOMAIN h[p].at
          /\ h[p].at[r.sentValue].time \in Nat
          /\ r.lastUpdate <= h[p].at[r.sentValue].time
      BY <3>1 DEF Backed
    <3>3. r.sentValue \in DOMAIN b[p].at /\ b[p].at[r.sentValue] = h[p].at[r.sentValue]
      BY <1>3, <2>4, <3>1, <3>2 DEF HearsTo
    <3> QED BY <2>1, <3>1, <3>2, <3>3
  <2> QED BY <2>3, <2>4
<1> QED BY <1>2, <1>3

LEMMA WaitingKept ==
  ASSUME NEW g, NEW w, IsWrite(g, w), NEW t, NEW vs, NEW h, Waiting(vs, h),
         NEW a, Wrote(vs, w, t, a), NEW b, NEW since, HearsTo(h, w, t, since, b)
  PROVE  Waiting(a, b)
<1>1. SUFFICES ASSUME NEW p \in DOMAIN a, a[p].hasCorrected
               PROVE  /\ p \in DOMAIN b /\ b[p].last = <<a[p].lastCheck, a[p].lastValue>>
                      /\ p[1] # "country" => a[p].lastValue = Meaning(p, a[p].lastCheck)
  BY DEF Waiting
<1>2. CASE p # w.p
  <2>1. /\ p \in DOMAIN vs /\ vs[p].hasCorrected
        /\ a[p].lastCheck = vs[p].lastCheck /\ a[p].lastValue = vs[p].lastValue
    BY <1>1, <1>2 DEF Wrote
  <2>2. /\ p \in DOMAIN h /\ h[p].last = <<vs[p].lastCheck, vs[p].lastValue>>
        /\ p[1] # "country" => vs[p].lastValue = Meaning(p, vs[p].lastCheck)
    BY <2>1 DEF Waiting
  <2>3. p \in DOMAIN b /\ b[p] = h[p]
    BY <1>2, <2>2 DEF HearsTo
  <2> QED BY <2>1, <2>2, <2>3
<1>3. CASE p = w.p
  <2>1. a[p].lastCheck = w.c /\ a[p].lastValue = w.v
    BY <1>3 DEF Wrote
  <2>2. p \in DOMAIN b /\ b[p].last = <<w.c, w.v>>
    BY <1>3 DEF HearsTo
  <2>3. p[1] # "country" => w.v = Meaning(p, w.c)
    BY <1>3 DEF IsWrite
  <2> QED BY <2>1, <2>2, <2>3
<1> QED BY <1>2, <1>3

(* A text is written when its flag is up to date.                          *)
FlagReady(vs, g, w) ==
  \A flag \in DOMAIN TextOf :
    w.p[1] = TextOf[flag] /\ w.s = Valid /\ Item(vs, flag).sent
      => vs[flag].sentValue = Bits(g.data[1], 4, 1)

LEMMA FlagNames ==
  ASSUME NEW flag \in DOMAIN TextOf
  PROVE  /\ flag[1] \in Flags /\ flag[1] \notin Texts /\ TextOf[flag] \in Texts
         /\ Wiped(flag) = {TextOf[flag]}
<1>1. flag = <<"text_ab">> \/ flag = <<"ptn_ab">>
  BY TextFlags
<1> QED BY <1>1, TextFlags, WipesTexts DEF Flags, Texts

LEMMA FlaggedKept ==
  ASSUME NEW g, NEW w, IsWrite(g, w), NEW t, NEW vs, NEW h, Backed(vs, h), Flagged(vs, h),
         FlagReady(vs, g, w),
         NEW a, Wrote(vs, w, t, a), NEW b, NEW since, HearsTo(h, w, t, since, b)
  PROVE  Flagged(a, b)
<1>1. SUFFICES ASSUME NEW p \in DOMAIN a, NEW flag \in DOMAIN TextOf, p[1] = TextOf[flag],
                      a[p].sent, Item(a, flag).sent, b[p].at[a[p].sentValue].status = Valid
               PROVE  Bits(b[p].at[a[p].sentValue].word, 4, 1) = a[flag].sentValue
  BY DEF Flagged
<1>2. flag[1] \in Flags /\ flag[1] \notin Texts /\ p[1] \in Texts /\ Wiped(flag) = {p[1]}
  BY <1>1, FlagNames
<1>3. p # flag
  BY <1>2
<1>4. flag \in DOMAIN a /\ a[flag].sent
  BY <1>1, NewIsItem DEF Item
<1> DEFINE r == Item(vs, w.p)
<1>5. \/ /\ flag \in DOMAIN vs /\ vs[flag].sent
         /\ a[flag].sentValue = vs[flag].sentValue
      \/ w.p = flag /\ Changing(r, w.v, w.c, w.s)
  <2>1. CASE w.p = flag
    <3>1. CASE Believed(r, w.v, w.c, w.s)
      <4>1. a[flag].sentValue = w.v
        BY <2>1, <3>1 DEF Wrote
      <4>2. Changing(r, w.v, w.c, w.s) \/ (r.sent /\ r.sentValue = w.v)
        BY <3>1 DEF Changing
      <4>3. r.sent => flag \in DOMAIN vs /\ r = vs[flag]
        BY <2>1 DEF Wrote
      <4> QED BY <2>1, <4>1, <4>2, <4>3
    <3>2. CASE ~Believed(r, w.v, w.c, w.s)
      <4>1. a[flag].sent = r.sent /\ a[flag].sentValue = r.sentValue
        BY <2>1, <3>2 DEF Wrote
      <4>2. r.sent => flag \in DOMAIN vs /\ r = vs[flag]
        BY <2>1 DEF Wrote
      <4> HIDE DEF r
      <4> QED BY <1>4, <4>1, <4>2
    <3> QED BY <3>1, <3>2
  <2>2. CASE w.p # flag
    <3>1. flag \in DOMAIN vs /\ a[flag] = vs[flag]
      BY <1>2, <1>4, <2>2 DEF Wrote
    <3> QED BY <1>4, <3>1
  <2> QED BY <2>1, <2>2
<1>6. ASSUME p \in DOMAIN vs, vs[p].sent, a[p].sentValue = vs[p].sentValue,
             b[p].at[vs[p].sentValue] = h[p].at[vs[p].sentValue],
             flag \in DOMAIN vs, vs[flag].sent, a[flag].sentValue = vs[flag].sentValue
      PROVE  Bits(b[p].at[a[p].sentValue].word, 4, 1) = a[flag].sentValue
  <2>1. Item(vs, flag).sent /\ h[p].at[vs[p].sentValue].status = Valid
    BY <1>1, <1>6 DEF Item
  <2>2. Bits(h[p].at[vs[p].sentValue].word, 4, 1) = vs[flag].sentValue
    BY <1>1, <1>6, <2>1 DEF Flagged
  <2> QED BY <1>6, <2>2
<1>7. CASE p # w.p
  <2>1. p \in DOMAIN vs /\ a[p] = vs[p] /\ vs[p].sent
    BY <1>1, <1>7 DEF Wrote
  <2>2. b[p] = h[p]
    BY <1>7, <2>1 DEF HearsTo, Backed
  <2>3. ~(w.p = flag /\ Changing(r, w.v, w.c, w.s))
    <3>1. SUFFICES ASSUME w.p = flag, Changing(r, w.v, w.c, w.s) PROVE FALSE
      OBVIOUS
    <3>2. p[1] \in Wiped(w.p)
      BY <1>2, <3>1
    <3> QED BY <1>1, <1>7, <2>1, <3>1, <3>2 DEF Wrote
  <2> QED BY <1>5, <1>6, <2>1, <2>2, <2>3
<1>8. CASE p = w.p
  <2>1. /\ flag \in DOMAIN vs /\ vs[flag].sent /\ a[flag].sentValue = vs[flag].sentValue
    BY <1>3, <1>5, <1>8
  <2>2. CASE a[p].sentValue = w.v
    <3>1. b[p].at[w.v].word = w.c[1] /\ b[p].at[w.v].status = w.s
      BY <1>8 DEF HearsTo
    <3>2. w.c[1] = g.data[1] /\ w.s = Valid
      BY <1>1, <1>2, <1>8, <2>2, <3>1 DEF IsWrite
    <3>3. vs[flag].sentValue = Bits(g.data[1], 4, 1)
      BY <1>1, <1>8, <2>1, <3>2 DEF FlagReady, Item
    <3> QED BY <2>1, <2>2, <3>1, <3>2, <3>3
  <2>3. CASE a[p].sentValue # w.v
    <3>1. /\ r.sent /\ a[p].sentValue = r.sentValue /\ p \in DOMAIN vs /\ r = vs[p]
      BY <1>1, <1>8, <2>3 DEF Wrote
    <3> HIDE DEF r
    <3>2. p \in DOMAIN h /\ r.sentValue \in DOMAIN h[p].at
      BY <3>1 DEF Backed
    <3>3. b[p].at[r.sentValue] = h[p].at[r.sentValue]
      BY <1>8, <2>3, <3>1, <3>2 DEF HearsTo
    <3> QED BY <1>6, <2>1, <3>1, <3>3
  <2> QED BY <2>2, <2>3
<1> QED BY <1>7, <1>8

(* A detail of a channel is written when its identification is: by the same *)
(* reading of the clock as the last call of the group, or the clock tore it. *)
ChannelDone(vs, k, out, last) ==
  /\ Channel(k) \in DOMAIN vs
  /\ Channel(k) \notin out /\ vs[Channel(k)].sent => vs[Channel(k)].lastUpdate = last

ChannelReady(vs, w, out, last) ==
  w.p[1] = "tmc_channels" /\ w.p # Channel(w.p[2]) => ChannelDone(vs, w.p[2], out, last)

LEMMA ChannelPaths ==
  ASSUME NEW k
  PROVE  /\ Channel(k)[1] = "tmc_channels" /\ Channel(k)[2] = k /\ Len(Channel(k)) = 3
         /\ Channel(k)[3] = "programme_identification" /\ Channel(k)[1] \notin Texts
         /\ IsSeq(Channel(k))
  BY TuplesAre DEF Channel, Texts

LEMMA ChannelWritten ==
  ASSUME NEW g, NEW w, IsWrite(g, w), NEW t, NEW vs, NEW out, Tuned(vs, out),
         NEW a, Wrote(vs, w, t, a), NEW k, w.p = Channel(k)
  PROVE  /\ Channel(k) \in DOMAIN a
         /\ LET v == a[Channel(k)]
            IN /\ v.sent => ~v.hasCorrected /\ v.sentValue = k /\ v.lastUpdate = t
               /\ v.sent \/ v.hasCorrected
<1> DEFINE c == Channel(k)
           v == a[c]
           u == vs[c]
           r == Item(vs, w.p)
<1>1. c[1] = "tmc_channels" /\ c[2] = k
  BY ChannelPaths
<1>2. c \in DOMAIN vs => (u.sent => ~u.hasCorrected /\ u.sentValue = k)
  BY <1>1 DEF Tuned
<1>3. c \in DOMAIN a
  BY DEF Wrote
<1>4. w.s # Uncorrectable /\ w.v = k /\ w.s \in {Corrected, Valid}
  BY <1>1 DEF IsWrite
<1>5. CASE Believed(r, w.v, w.c, w.s)
  <2>1. v.sent /\ v.sentValue = w.v /\ ~v.hasCorrected /\ v.lastUpdate = t
    BY <1>5 DEF Wrote
  <2> HIDE DEF v, c
  <2> QED BY <1>3, <1>4, <2>1 DEF v, c
<1>6. CASE ~Believed(r, w.v, w.c, w.s)
  <2>1. v.sent = r.sent /\ v.hasCorrected
    BY <1>6 DEF Wrote
  <2>2. ~r.sent
    <3>1. SUFFICES ASSUME r.sent PROVE FALSE
      OBVIOUS
    <3>2. c \in DOMAIN vs /\ r = u
      BY <3>1 DEF Wrote
    <3> HIDE DEF u, r
    <3>3. r.sent /\ ~r.hasCorrected /\ r.sentValue = k
      BY <1>2, <3>1, <3>2
    <3> QED BY <1>4, <1>6, <3>3 DEF Believed
  <2> HIDE DEF v, c, r
  <2> QED BY <1>3, <2>1, <2>2 DEF v, c
<1> QED BY <1>5, <1>6

(* From out to next only the channel that is written may leave.            *)
Leaves(w, gone, out, next) ==
  \A c : c \notin next => c \notin gone /\ (c \notin out \/ (IsChannel(c) /\ w.p = c))

LEMMA TunedKept ==
  ASSUME NEW g, NEW w, IsWrite(g, w), NEW t \in Nat, NEW last \in Nat, t <= last,
         NEW vs, Items(vs, t), NEW out, Tuned(vs, out),
         NEW gone, ChannelReady(vs, w, gone, last), NEW a, Wrote(vs, w, t, a),
         NEW next, Leaves(w, gone, out, next)
  PROVE  Tuned(a, next)
<1>1. SUFFICES ASSUME NEW p \in DOMAIN a, p[1] = "tmc_channels"
               PROVE  /\ Channel(p[2]) \in DOMAIN a
                      /\ LET v == a[Channel(p[2])]
                         IN /\ v.sent => ~v.hasCorrected /\ v.sentValue = p[2]
                            /\ Channel(p[2]) \notin next =>
                                 /\ v.sent \/ v.hasCorrected
                                 /\ v.sent /\ a[p].sent => a[p].lastUpdate <= v.lastUpdate
  BY DEF Tuned
<1> DEFINE c == Channel(p[2])
           v == a[c]
           u == vs[c]
<1>2. c[1] = "tmc_channels" /\ c[2] = p[2] /\ c[1] \notin Texts /\ p[1] \notin Texts
  BY <1>1, ChannelPaths DEF Texts
<1>3. a[p].lastUpdate <= t /\ IsItem(a[p])
  BY DEF Wrote
<1>4. c \in DOMAIN vs => /\ u.sent => ~u.hasCorrected /\ u.sentValue = p[2]
                         /\ c \notin out => u.sent \/ u.hasCorrected
  BY <1>2 DEF Tuned
<1>5. CASE w.p = c
  <2>1. /\ c \in DOMAIN a
        /\ v.sent => ~v.hasCorrected /\ v.sentValue = p[2] /\ v.lastUpdate = t
        /\ v.sent \/ v.hasCorrected
    BY <1>5, ChannelWritten
  <2> HIDE DEF v, c
  <2> QED BY <1>3, <2>1 DEF v, c
<1>6. CASE w.p # c
  <2>1. c \in DOMAIN vs /\ (p # w.p => p \in DOMAIN vs)
    <3>1. CASE p = w.p
      BY <1>1, <1>6, <3>1 DEF ChannelReady, ChannelDone
    <3>2. CASE p # w.p
      <4>1. p \in DOMAIN vs
        BY <3>2 DEF Wrote
      <4> QED BY <1>1, <4>1 DEF Tuned
    <3> QED BY <3>1, <3>2
  <2>2. c \in DOMAIN a /\ v = u
    BY <1>2, <1>6, <2>1 DEF Wrote
  <2>3. c \notin next => c \notin gone /\ c \notin out
    BY <1>6 DEF Leaves
  <2>4. ASSUME c \notin next PROVE a[p].sent /\ u.sent => a[p].lastUpdate <= u.lastUpdate
    <3>1. CASE p = w.p
      <4>1. u.sent => u.lastUpdate = last
        BY <1>1, <1>6, <2>3, <2>4, <3>1 DEF ChannelReady, ChannelDone
      <4>2. a[p].lastUpdate <= last
        <5>1. a[p].lastUpdate \in Nat
          BY <1>3 DEF IsItem
        <5> QED BY <1>3, <5>1
      <4> QED BY <4>1, <4>2
    <3>2. CASE p # w.p
      <4>1. p \in DOMAIN vs /\ a[p] = vs[p]
        BY <1>2, <2>1, <3>2 DEF Wrote
      <4>2. vs[p].sent /\ u.sent => vs[p].lastUpdate <= u.lastUpdate
        BY <1>1, <2>3, <2>4, <4>1 DEF Tuned
      <4> QED BY <4>1, <4>2
    <3> QED BY <3>1, <3>2
  <2> HIDE DEF v, c, u
  <2> QED BY <1>4, <2>1, <2>2, <2>3, <2>4 DEF v, c
<1> QED BY <1>5, <1>6

(* What starts to be shown has grounds: o is what was shown before.        *)
Grounded(o, vs, h, from, to) ==
  \A p \in DOMAIN vs \ {<<"country">>} :
    vs[p].sent => \/ Item(o, p).sent /\ o[p].sentValue = vs[p].sentValue
                  \/ /\ p \in DOMAIN h /\ vs[p].sentValue \in DOMAIN h[p].at
                     /\ h[p].at[vs[p].sentValue].time \in from..to
                     /\ h[p].at[vs[p].sentValue].grounds

LEMMA GroundedKept ==
  ASSUME NEW g, NEW w, IsWrite(g, w), w.s # Uncorrectable,
         NEW from \in Nat, NEW to \in Nat, NEW t \in from..to, NEW o, NEW vs, NEW h,
         Grounded(o, vs, h, from, to), Waiting(vs, h), Backed(vs, h),
         NEW a, Wrote(vs, w, t, a), NEW b, HearsTo(h, w, t, from, b)
  PROVE  Grounded(o, a, b, from, to)
<1>1. SUFFICES ASSUME NEW p \in DOMAIN a, p # <<"country">>, a[p].sent
               PROVE  \/ Item(o, p).sent /\ o[p].sentValue = a[p].sentValue
                      \/ /\ p \in DOMAIN b /\ a[p].sentValue \in DOMAIN b[p].at
                         /\ b[p].at[a[p].sentValue].time \in from..to
                         /\ b[p].at[a[p].sentValue].grounds
  BY DEF Grounded
<1>2. CASE p # w.p
  <2>1. p \in DOMAIN vs /\ a[p] = vs[p]
    BY <1>1, <1>2 DEF Wrote
  <2>2. p \in DOMAIN h => p \in DOMAIN b /\ b[p] = h[p]
    BY <1>2 DEF HearsTo
  <2> QED BY <1>1, <2>1, <2>2 DEF Grounded
<1>3. CASE p = w.p
  <2> DEFINE r == Item(vs, w.p)
  <2>1. p \in DOMAIN b /\ w.v \in DOMAIN b[p].at /\ b[p].at[w.v].time = t
    BY <1>3 DEF HearsTo
  <2>2. r.sent \/ r.hasCorrected => p \in DOMAIN vs /\ r = vs[p]
    BY <1>3 DEF Wrote
  <2>3. CASE r.sent /\ a[p].sentValue = r.sentValue
    <3>1. p \in DOMAIN vs /\ vs[p].sent /\ a[p].sentValue = vs[p].sentValue
      BY <2>2, <2>3
    <3> DEFINE v == vs[p].sentValue
    <3>2. CASE Item(o, p).sent /\ o[p].sentValue = v
      BY <3>1, <3>2
    <3>3. CASE /\ p \in DOMAIN h /\ v \in DOMAIN h[p].at
               /\ h[p].at[v].time \in from..to /\ h[p].at[v].grounds
      <4>1. h[p].at[v].time >= from
        BY <3>3
      <4>2. v \in DOMAIN b[p].at /\ b[p].at[v].time \in from..to /\ b[p].at[v].grounds
        <5>1. CASE v = w.v
          BY <1>3, <2>1, <3>3, <4>1, <5>1 DEF HearsTo
        <5>2. CASE v # w.v
          BY <1>3, <3>3, <5>2 DEF HearsTo
        <5> QED BY <5>1, <5>2
      <4> QED BY <2>1, <3>1, <4>2
    <3> QED BY <1>1, <3>1, <3>2, <3>3 DEF Grounded
  <2>4. CASE ~(r.sent /\ a[p].sentValue = r.sentValue)
    <3>1. Believed(r, w.v, w.c, w.s) /\ a[p].sentValue = w.v
      BY <1>1, <1>3, <2>4 DEF Wrote
    <3>2. w.s = Valid \/ (r.hasCorrected /\ r.lastCheck = w.c)
      <4> HIDE DEF r
      <4> QED BY <2>4, <3>1 DEF Believed
    <3>3. CASE w.s = Valid
      BY <1>3, <2>1, <3>1, <3>3 DEF HearsTo
    <3>4. CASE r.hasCorrected /\ r.lastCheck = w.c
      <4>1. /\ p \in DOMAIN h /\ h[p].last = <<r.lastCheck, r.lastValue>>
            /\ p[1] # "country" => r.lastValue = Meaning(p, r.lastCheck)
        BY <2>2, <3>4 DEF Waiting
      <4> HIDE DEF r
      <4>2. p[1] # "country" => h[p].last = <<w.c, w.v>>
        BY <1>3, <3>4, <4>1 DEF IsWrite
      <4>3. p[1] # "country"
        BY <1>1, <1>3 DEF IsWrite
      <4> QED BY <1>3, <2>1, <3>1, <4>1, <4>2, <4>3 DEF HearsTo
    <3> QED BY <3>2, <3>3, <3>4
  <2> QED BY <2>3, <2>4
<1> QED BY <1>2, <1>3

(* An application that is believed was announced by a group on the air.    *)
Aired(vs, air) ==
  \A p \in DOMAIN vs :
    p[1] = "oda_aids" /\ vs[p].sent =>
      \E a \in air : /\ Type(a) = 6 /\ p[2] = Bits(a.data[1], 0, 5)
                    /\ vs[p].sentValue = a.data[3]

Airs(g, vs, a) == \A air : g \in air /\ Aired(vs, air) => Aired(a, air)

LEMMA AiredKept ==
  ASSUME NEW g, NEW w, IsWrite(g, w), NEW t, NEW vs, NEW a, Wrote(vs, w, t, a)
  PROVE  Airs(g, vs, a)
<1>1. SUFFICES ASSUME NEW air, g \in air, Aired(vs, air),
                      NEW p \in DOMAIN a, p[1] = "oda_aids", a[p].sent
               PROVE  \E x \in air : /\ Type(x) = 6 /\ p[2] = Bits(x.data[1], 0, 5)
                                     /\ a[p].sentValue = x.data[3]
  BY DEF Airs, Aired
<1>2. CASE p # w.p
  <2>1. p \in DOMAIN vs /\ a[p] = vs[p]
    BY <1>1, <1>2 DEF Wrote
  <2> QED BY <1>1, <2>1 DEF Aired
<1>3. CASE p = w.p
  <2> DEFINE r == Item(vs, w.p)
  <2>1. CASE a[p].sentValue = w.v
    <3>1. p = <<"oda_aids", Bits(g.data[1], 0, 5)>> /\ Type(g) = 6 /\ w.v = g.data[3]
      BY <1>1, <1>3 DEF IsWrite
    <3>2. p[2] = Bits(g.data[1], 0, 5)
      BY <3>1
    <3> QED BY <1>1, <2>1, <3>1, <3>2
  <2>2. CASE a[p].sentValue # w.v
    <3>1. r.sent /\ a[p].sentValue = r.sentValue /\ p \in DOMAIN vs /\ r = vs[p]
      BY <1>1, <1>3, <2>2 DEF Wrote
    <3>2. vs[p].sent /\ a[p].sentValue = vs[p].sentValue
      BY <3>1
    <3> QED BY <1>1, <3>1, <3>2 DEF Aired
  <2> QED BY <2>1, <2>2
<1> QED BY <1>2, <1>3

Sound(vs, h, t, out) ==
  Items(vs, t) /\ Backed(vs, h) /\ Waiting(vs, h) /\ Flagged(vs, h) /\ Tuned(vs, out)

\* What has been heard of is not forgotten.
Heeds(w, h, b) == DOMAIN h \subseteq DOMAIN b /\ (IsChannel(w.p) => w.p \in DOMAIN b)

LEMMA ChannelSaid ==
  ASSUME NEW g, NEW w, IsWrite(g, w), IsChannel(w.p)
  PROVE  w.p = Channel(w.p[2]) /\ w.s # Uncorrectable
BY DEF IsWrite, IsChannel, InChannel

LEMMA OneWrite ==
  ASSUME NEW g \in Groups, NEW w, IsWrite(g, w), NEW from \in Nat, NEW to \in Nat,
         NEW t \in from..to, NEW last \in Nat, t <= last,
         NEW o, NEW vs, NEW h, NEW out, Sound(vs, h, t, out), Grounded(o, vs, h, from, to),
         NEW gone, ChannelReady(vs, w, gone, last),
         w.s # Uncorrectable => FlagReady(vs, g, w),
         NEW next, Leaves(w, gone, out, next)
  PROVE  LET a == Assign(vs, w, t)
             b == Hears(h, w, t, from)
         IN /\ Sound(a, b, t, next) /\ Grounded(o, a, b, from, to) /\ Airs(g, vs, a)
            /\ Heeds(w, h, b)
<1> DEFINE a == Assign(vs, w, t)
           b == Hears(h, w, t, from)
<1>1. CASE w.s = Uncorrectable
  <2>1. a = vs /\ b = h
    BY <1>1, Unheard
  <2>2. Airs(g, vs, vs)
    BY DEF Airs
  <2>3. ~IsChannel(w.p)
    BY <1>1, ChannelSaid
  <2>4. \A c : c \notin next => c \notin out
    BY <2>3 DEF Leaves
  <2>5. Tuned(vs, next)
    BY <2>4 DEF Sound, Tuned
  <2>6. Heeds(w, h, h)
    BY <2>3 DEF Heeds
  <2> QED BY <2>1, <2>2, <2>5, <2>6 DEF Sound
<1>2. CASE w.s # Uncorrectable
  <2>1. Items(vs, t) /\ Backed(vs, h) /\ Waiting(vs, h) /\ Flagged(vs, h) /\ Tuned(vs, out)
    BY DEF Sound
  <2>2. t \in Nat /\ Wrote(vs, w, t, a)
    BY <1>2, <2>1, Writes
  <2>3. HearsTo(h, w, t, from, b)
    BY <1>2, Hearing
  <2> HIDE DEF a, b
  <2>4. Items(a, t)
    BY <2>1, <2>2, ItemsKept
  <2>5. Backed(a, b)
    BY <2>1, <2>2, <2>3, BackedKept
  <2>6. Waiting(a, b)
    BY <2>1, <2>2, <2>3, WaitingKept
  <2>7. Flagged(a, b)
    BY <1>2, <2>1, <2>2, <2>3, FlaggedKept
  <2>8. Tuned(a, next)
    BY <2>1, <2>2, TunedKept
  <2>9. Grounded(o, a, b, from, to)
    BY <1>2, <2>1, <2>2, <2>3, GroundedKept
  <2>10. Airs(g, vs, a)
    BY <2>2, AiredKept
  <2>11. Heeds(w, h, b)
    BY <2>3 DEF Heeds, HearsTo
  <2> QED BY <2>4, <2>5, <2>6, <2>7, <2>8, <2>9, <2>10, <2>11 DEF Sound, a, b
<1> QED BY <1>1, <1>2

-----------------------------------------------------------------------------
(* All the calls of set of a group: once the flag or the identification is *)
(* written, what follows finds it up to date.                              *)

FlagDone(vs, g, flag) ==
  g.status[1] = Valid /\ Item(vs, flag).sent => vs[flag].sentValue = Bits(g.data[1], 4, 1)

LEMMA FlagDoneKept ==
  ASSUME NEW g \in Groups, NEW w, IsWrite(g, w), NEW t \in Nat, NEW vs, Items(vs, t),
         NEW flag \in DOMAIN TextOf, w.p = flag \/ FlagDone(vs, g, flag)
  PROVE  FlagDone(Assign(vs, w, t), g, flag)
<1> DEFINE a == Assign(vs, w, t)
<1>1. SUFFICES ASSUME g.status[1] = Valid, Item(a, flag).sent
               PROVE  a[flag].sentValue = Bits(g.data[1], 4, 1)
  BY DEF FlagDone
<1>2. flag[1] \in Flags /\ flag[1] \notin Texts
  BY FlagNames
<1>3. flag \in DOMAIN a /\ a[flag].sent
  <2> HIDE DEF a
  <2> QED BY <1>1, NewIsItem DEF Item
<1>4. CASE w.s = Uncorrectable
  <2>1. w.p # flag
    BY <1>1, <1>2, <1>4 DEF IsWrite, Uncorrectable, Valid
  <2>2. a = vs
    BY <1>4, Unheard
  <2> HIDE DEF a
  <2> QED BY <1>1, <2>1, <2>2 DEF FlagDone
<1>5. CASE w.s # Uncorrectable
  <2>1. Wrote(vs, w, t, a)
    BY <1>5, Writes
  <2> HIDE DEF a
  <2>2. CASE w.p = flag
    <3>1. w.s = Valid /\ w.v = Bits(g.data[1], 4, 1)
      BY <1>1, <1>2, <2>2 DEF IsWrite
    <3>2. Believed(Item(vs, w.p), w.v, w.c, w.s)
      BY <3>1 DEF Believed
    <3> QED BY <2>1, <2>2, <3>1, <3>2 DEF Wrote
  <2>3. CASE w.p # flag
    <3>1. flag \in DOMAIN vs /\ a[flag] = vs[flag]
      BY <1>2, <1>3, <2>1, <2>3 DEF Wrote
    <3>2. Item(vs, flag).sent
      BY <1>3, <3>1 DEF Item
    <3> QED BY <1>1, <2>3, <3>1, <3>2 DEF FlagDone
  <2> QED BY <2>2, <2>3
<1> QED BY <1>4, <1>5

LEMMA ChannelDoneKept ==
  ASSUME NEW g \in Groups, NEW w, IsWrite(g, w), NEW t \in Nat, NEW vs, Items(vs, t),
         NEW out, Tuned(vs, out), NEW gone, NEW last, NEW k,
         w.p = Channel(k) \/ ChannelDone(vs, k, gone, last),
         w.p = Channel(k) /\ Channel(k) \notin gone => t = last
  PROVE  ChannelDone(Assign(vs, w, t), k, gone, last)
<1> DEFINE a == Assign(vs, w, t)
           c == Channel(k)
<1>1. c[1] = "tmc_channels" /\ c[2] = k /\ c[1] \notin Texts
  BY ChannelPaths
<1>2. CASE w.s = Uncorrectable
  <2>1. w.p # c
    BY <1>1, <1>2 DEF IsWrite
  <2>2. a = vs
    BY <1>2, Unheard
  <2> HIDE DEF a
  <2> QED BY <2>1, <2>2 DEF a
<1>3. CASE w.s # Uncorrectable
  <2>1. Wrote(vs, w, t, a)
    BY <1>3, Writes
  <2> HIDE DEF a
  <2>2. CASE w.p = c
    <3>1. /\ c \in DOMAIN a
          /\ LET v == a[c]
             IN /\ v.sent => ~v.hasCorrected /\ v.sentValue = k /\ v.lastUpdate = t
                /\ v.sent \/ v.hasCorrected
      BY <2>1, <2>2, ChannelWritten
    <3> QED BY <2>2, <3>1 DEF ChannelDone, a
  <2>3. CASE w.p # c
    <3>1. c \in DOMAIN a /\ a[c] = vs[c]
      BY <1>1, <2>1, <2>3 DEF Wrote, ChannelDone
    <3> QED BY <2>3, <3>1 DEF ChannelDone, a
  <2> QED BY <2>2, <2>3
<1> QED BY <1>2, <1>3

LEMMA ItemsLater ==
  ASSUME NEW vs, NEW t \in Nat, NEW u \in Nat, t <= u, Items(vs, t)
  PROVE  Items(vs, u)
<1>1. ASSUME NEW p \in DOMAIN vs PROVE IsPath(p) /\ IsItem(vs[p]) /\ vs[p].lastUpdate <= u
  <2>1. IsPath(p) /\ IsItem(vs[p]) /\ vs[p].lastUpdate <= t
    BY DEF Items
  <2>2. vs[p].lastUpdate \in Nat
    BY <2>1 DEF IsItem
  <2> QED BY <2>1, <2>2
<1> QED BY <1>1 DEF Items

(* The clock is read between from and to, and does not go back.            *)
Advances(ts, n, from, to) ==
  /\ \A k \in 1..n : ts[k] \in from..to
  /\ \A j, k \in 1..n : j <= k => ts[j] <= ts[k]

AfterTearing(out, ws, ts) == (out \ ChannelsIn(ws)) \cup TornIn(ws, ts)

(* A channel that is not torn any more was set with the last reading.      *)
SetLast(out, ws, ts, c) ==
  /\ c \in out => \E i \in 1..Len(ws) : ws[i].p = c
  /\ \A i \in 1..Len(ws) : ws[i].p = c => ts[i] = ts[Len(ws)]

LEMMA Untorn ==
  ASSUME NEW out, NEW ws, IsSeq(ws), NEW ts, NEW from \in Nat, NEW to \in Nat,
         Advances(ts, Len(ws), from, to), NEW c, c \notin AfterTearing(out, ws, ts),
         IsChannel(c)
  PROVE  SetLast(out, ws, ts, c)
<1>1. DOMAIN ws = 1..Len(ws) /\ Len(ws) \in Nat
  BY DEF IsSeq
<1>2. c \in ChannelsIn(ws) <=> \E i \in 1..Len(ws) : ws[i].p = c
  BY <1>1 DEF ChannelsIn
<1>3. c \notin TornIn(ws, ts) /\ (c \in out => c \in ChannelsIn(ws))
  BY DEF AfterTearing
<1>4. ASSUME NEW i \in 1..Len(ws), ws[i].p = c PROVE ts[i] = ts[Len(ws)]
  <2>1. ~(ts[i] < ts[Len(ws)])
    BY <1>1, <1>2, <1>3, <1>4 DEF TornIn
  <2>2. i <= Len(ws) /\ Len(ws) \in 1..Len(ws)
    BY <1>1
  <2>3. ts[i] \in Nat /\ ts[Len(ws)] \in Nat /\ ts[i] <= ts[Len(ws)]
    BY <2>2 DEF Advances
  <2> QED BY <2>1, <2>3
<1> QED BY <1>2, <1>3, <1>4 DEF SetLast

LEMMA AllWrites ==
  ASSUME NEW g \in Groups, NEW ws, Proper(g, ws), \A j \in 1..Len(ws) : InOrder(ws, j),
         NEW from \in Nat, NEW to \in Nat, from <= to,
         NEW ts, Advances(ts, Len(ws), from, to),
         NEW o, NEW vs, NEW h, NEW out, Sound(vs, h, from, out), Grounded(o, vs, h, from, to)
  PROVE  LET a == AssignAll(vs, ws, ts)
             b == HeardAfter(h, ws, ts, from)[Len(ws)]
         IN /\ Sound(a, b, to, AfterTearing(out, ws, ts))
            /\ Grounded(o, a, b, from, to) /\ Airs(g, vs, a)
            /\ DOMAIN h \cup ChannelsIn(ws) \subseteq DOMAIN b
<1> DEFINE A == Assigned(vs, ws, ts)
           B == HeardAfter(h, ws, ts, from)
           At(k) == IF k = 0 THEN from ELSE ts[k]
           last == At(Len(ws))
           gone == AfterTearing(out, ws, ts)
           Out(k) == {c \in out \cup gone : IsChannel(c) /\ c \notin gone
                                             => ~ \E i \in 1..k : ws[i].p = c}
           Good(k) == /\ Sound(A[k], B[k], At(k), Out(k)) /\ Grounded(o, A[k], B[k], from, to)
                      /\ Airs(g, vs, A[k])
                      /\ \A flag \in DOMAIN TextOf :
                           (\E i \in 1..k : ws[i].p = flag) => FlagDone(A[k], g, flag)
                      /\ \A c : (\E i \in 1..k : ws[i].p = Channel(c)) =>
                                  ChannelDone(A[k], c, gone, last)
                      /\ DOMAIN h \subseteq DOMAIN B[k]
                      /\ \A i \in 1..k : IsChannel(ws[i].p) => ws[i].p \in DOMAIN B[k]
           S == {n \in Nat : n <= Len(ws) => Good(n)}
<1>1. IsSeq(ws) /\ Len(ws) \in Nat /\ \A k \in 1..Len(ws) : IsWrite(g, ws[k])
  BY ProperSeq
<1>2. \A j \in 1..Len(ws) :
        /\ ws[j].p[1] = "radio_text" => \E i \in 1..j : ws[i].p = <<"text_ab">>
        /\ ws[j].p[1] = "programme_type_name" => \E i \in 1..j : ws[i].p = <<"ptn_ab">>
        /\ ws[j].p[1] = "tmc_channels" => \E i \in 1..j : ws[i].p = Channel(ws[j].p[2])
  BY DEF InOrder
<1>3. /\ A[0] = vs /\ B[0] = h
      /\ \A k \in 1..Len(ws) : /\ A[k] = Assign(A[k - 1], ws[k], ts[k])
                               /\ B[k] = Hears(B[k - 1], ws[k], ts[k], from)
  BY <1>1, AssignedSteps, HeardSteps
<1>4. /\ \A k \in 0..Len(ws) : At(k) \in from..to /\ At(k) <= last
      /\ \A k \in 1..Len(ws) : At(k) = ts[k] /\ At(k - 1) <= ts[k]
      /\ last \in from..to
  <2>1. \A k \in 1..Len(ws) : /\ ts[k] \in from..to /\ ts[k] \in Nat /\ Len(ws) \in 1..Len(ws)
                              /\ ts[k] <= ts[Len(ws)] /\ from <= ts[k]
                              /\ k - 1 \in 0..Len(ws) /\ (k - 1 # 0 => ts[k - 1] <= ts[k])
    BY <1>1 DEF Advances
  <2>2. from \in from..to
    OBVIOUS
  <2> QED BY <1>1, <2>1, <2>2
<1>5. \A c \in gone : c \in out \/ IsChannel(c)
  BY DEF AfterTearing, TornIn, ChannelsIn
<1>6. ASSUME NEW c, IsChannel(c), c \notin gone
      PROVE  /\ c \in out => \E i \in 1..Len(ws) : ws[i].p = c
             /\ \A i \in 1..Len(ws) : ws[i].p = c => ts[i] = last
  <2>1. SetLast(out, ws, ts, c)
    BY <1>1, <1>6, Untorn
  <2>2. \A i \in 1..Len(ws) : Len(ws) # 0
    BY <1>1
  <2> QED BY <2>1, <2>2 DEF SetLast
<1>7. \A c \in out : ~IsChannel(c) => c \in gone
  BY DEF AfterTearing, TornIn, ChannelsIn
<1> HIDE DEF A, B, At, last, gone
<1>8. 0 \in S
  <2>1. \A i \in 1..0 : FALSE
    OBVIOUS
  <2>2. Airs(g, vs, vs) /\ At(0) = from
    BY DEF Airs, At
  <2>3. Sound(vs, h, from, Out(0))
    <3>1. \A c : c \notin Out(0) => c \notin out
      BY <2>1
    <3> HIDE DEF Out
    <3> QED BY <3>1 DEF Sound, Tuned
  <2>4. Good(0)
    <3> HIDE DEF Out
    <3> QED BY <1>3, <2>1, <2>2, <2>3
  <2> HIDE DEF Good
  <2> QED BY <2>4
<1>9. ASSUME NEW n \in Nat, n \in S PROVE n + 1 \in S
  <2>1. SUFFICES ASSUME n + 1 <= Len(ws) PROVE Good(n + 1)
    <3> HIDE DEF Good
    <3> QED OBVIOUS
  <2>2. n <= Len(ws) /\ n + 1 \in 1..Len(ws) /\ n + 1 - 1 = n /\ n \in 0..Len(ws)
    BY <1>1, <2>1
  <2>3. Good(n)
    <3> HIDE DEF Good
    <3> QED BY <1>9, <2>2
  <2> DEFINE w == ws[n + 1]
             u == A[n]
             t == ts[n + 1]
  <2>4. /\ IsWrite(g, w) /\ A[n + 1] = Assign(u, w, t) /\ B[n + 1] = Hears(B[n], w, t, from)
        /\ t \in from..to /\ At(n) \in from..to /\ At(n) <= t /\ At(n + 1) = t /\ t <= last
        /\ t \in Nat /\ At(n) \in Nat /\ last \in Nat
    <3>1. /\ IsWrite(g, w) /\ A[n + 1] = Assign(u, w, t) /\ B[n + 1] = Hears(B[n], w, t, from)
          /\ At(n) \in from..to /\ At(n) <= t /\ At(n + 1) = t
          /\ At(n + 1) \in from..to /\ At(n + 1) <= last /\ last \in from..to
      BY <1>1, <1>3, <1>4, <2>2
    <3>2. \A x \in from..to : x \in Nat
      OBVIOUS
    <3> HIDE DEF w, u, t
    <3> QED BY <3>1, <3>2
  <2>5. \A i \in 1..(n + 1) : i = n + 1 \/ i \in 1..n
    OBVIOUS
  <2>6. FlagReady(u, g, w)
    <3>1. SUFFICES ASSUME NEW flag \in DOMAIN TextOf, w.p[1] = TextOf[flag], w.s = Valid,
                          Item(u, flag).sent
                   PROVE  u[flag].sentValue = Bits(g.data[1], 4, 1)
      BY DEF FlagReady
    <3>2. flag[1] \in Flags /\ flag[1] \notin Texts /\ w.p[1] \in Texts
      BY <3>1, FlagNames
    <3>3. \E i \in 1..(n + 1) : ws[i].p = flag
      <4>1. /\ flag = <<"text_ab">> => w.p[1] = "radio_text"
            /\ flag = <<"ptn_ab">> => w.p[1] = "programme_type_name"
            /\ flag \in {<<"text_ab">>, <<"ptn_ab">>}
        BY <3>1, TextFlags
      <4> QED BY <1>2, <2>2, <4>1
    <3>4. \E i \in 1..n : ws[i].p = flag
      BY <2>5, <3>2, <3>3
    <3>5. g.status[1] = Valid
      BY <2>4, <3>1, <3>2 DEF IsWrite
    <3> QED BY <2>3, <3>1, <3>4, <3>5 DEF FlagDone
  <2>7. ChannelReady(u, w, gone, last)
    <3>1. SUFFICES ASSUME w.p[1] = "tmc_channels", w.p # Channel(w.p[2])
                   PROVE  ChannelDone(u, w.p[2], gone, last)
      BY DEF ChannelReady
    <3>2. \E i \in 1..(n + 1) : ws[i].p = Channel(w.p[2])
      BY <1>2, <2>2, <3>1
    <3>3. \E i \in 1..n : ws[i].p = Channel(w.p[2])
      BY <2>5, <3>1, <3>2
    <3> QED BY <2>3, <3>3
  <2>8. Leaves(w, gone, Out(n), Out(n + 1))
    <3>1. ASSUME NEW c, c \notin Out(n + 1)
          PROVE  c \notin gone /\ (c \notin Out(n) \/ (IsChannel(c) /\ w.p = c))
      <4>1. c \notin gone
        BY <3>1
      <4>2. ASSUME c \in Out(n) PROVE IsChannel(c) /\ w.p = c
        <5>1. IsChannel(c) /\ ~ \E i \in 1..n : ws[i].p = c
          BY <3>1, <4>2
        <5>2. \E i \in 1..(n + 1) : ws[i].p = c
          BY <3>1, <4>2
        <5> QED BY <2>5, <5>1, <5>2
      <4> QED BY <4>1, <4>2
    <3> HIDE DEF Out
    <3> QED BY <3>1 DEF Leaves
  <2>9. Sound(u, B[n], t, Out(n)) /\ Grounded(o, u, B[n], from, to)
    <3>1. Sound(u, B[n], At(n), Out(n)) /\ Grounded(o, u, B[n], from, to)
      BY <2>3
    <3> HIDE DEF Out, t, u
    <3> QED BY <2>4, <3>1, ItemsLater DEF Sound
  <2>10. /\ Sound(A[n + 1], B[n + 1], t, Out(n + 1)) /\ Grounded(o, A[n + 1], B[n + 1], from, to)
         /\ Airs(g, u, A[n + 1]) /\ Heeds(w, B[n], B[n + 1])
    <3> DEFINE here == Out(n)
               next == Out(n + 1)
    <3>1. IsWrite(g, w) /\ t \in from..to /\ t \in Nat /\ last \in Nat /\ t <= last
      BY <2>4
    <3>2. Sound(u, B[n], t, here) /\ Grounded(o, u, B[n], from, to) /\ Leaves(w, gone, here, next)
      BY <2>8, <2>9
    <3> HIDE DEF w, u, t, Out, Good, here, next
    <3> DEFINE x == Assign(u, w, t)
               y == Hears(B[n], w, t, from)
    <3>3. /\ Sound(x, y, t, next) /\ Grounded(o, x, y, from, to) /\ Airs(g, u, x)
          /\ Heeds(w, B[n], y)
      BY <2>6, <2>7, <3>1, <3>2, OneWrite
    <3> HIDE DEF x, y
    <3> QED BY <2>4, <3>3 DEF x, y, next
  <2>11. Items(u, t) /\ Tuned(u, Out(n))
    BY <2>9 DEF Sound
  <2>12. ASSUME NEW flag \in DOMAIN TextOf, \E i \in 1..(n + 1) : ws[i].p = flag
         PROVE  FlagDone(A[n + 1], g, flag)
    <3>1. w.p = flag \/ FlagDone(u, g, flag)
      BY <2>3, <2>5, <2>12
    <3> HIDE DEF w, u, t, Out
    <3> QED BY <2>4, <2>11, <3>1, FlagDoneKept
  <2>13. ASSUME NEW c, \E i \in 1..(n + 1) : ws[i].p = Channel(c)
         PROVE  ChannelDone(A[n + 1], c, gone, last)
    <3>1. w.p = Channel(c) \/ ChannelDone(u, c, gone, last)
      BY <2>3, <2>5, <2>13
    <3>2. w.p = Channel(c) /\ Channel(c) \notin gone => t = last
      <4>1. IsChannel(Channel(c))
        BY ChannelPaths DEF IsChannel
      <4> QED BY <1>6, <2>2, <4>1
    <3> HIDE DEF w, u, t, Out
    <3> QED BY <2>4, <2>11, <3>1, <3>2, ChannelDoneKept
  <2>14. Airs(g, vs, A[n + 1])
    BY <2>3, <2>10 DEF Airs
  <2>15. /\ DOMAIN h \subseteq DOMAIN B[n + 1]
         /\ \A i \in 1..(n + 1) : IsChannel(ws[i].p) => ws[i].p \in DOMAIN B[n + 1]
    BY <2>3, <2>5, <2>10 DEF Heeds
  <2> HIDE DEF Out, w, u, t
  <2> QED BY <2>4, <2>10, <2>12, <2>13, <2>14, <2>15
<1>10. Good(Len(ws))
  <2> HIDE DEF Good, S
  <2>1. Nat \subseteq S
    BY <1>8, <1>9, Induction
  <2> QED BY <1>1, <2>1 DEF S
<1>11. Out(Len(ws)) \subseteq gone
  BY <1>6, <1>7
<1> DEFINE a == A[Len(ws)]
           b == B[Len(ws)]
<1>12. Sound(a, b, to, gone)
  <2>1. Sound(a, b, last, Out(Len(ws)))
    BY <1>10 DEF last
  <2>2. last \in Nat /\ last <= to
    BY <1>4
  <2> HIDE DEF Out, a, b, Good, S
  <2>3. Items(a, to)
    BY <2>1, <2>2, ItemsLater DEF Sound
  <2>4. Tuned(a, gone)
    BY <1>11, <2>1 DEF Sound, Tuned
  <2> QED BY <2>1, <2>3, <2>4 DEF Sound
<1>13. /\ Grounded(o, a, b, from, to) /\ Airs(g, vs, a)
       /\ DOMAIN h \subseteq DOMAIN b
       /\ \A i \in 1..Len(ws) : IsChannel(ws[i].p) => ws[i].p \in DOMAIN b
  BY <1>10
<1>14. ChannelsIn(ws) \subseteq DOMAIN b
  <2>1. DOMAIN ws = 1..Len(ws)
    BY <1>1 DEF IsSeq
  <2> QED BY <1>13, <2>1 DEF ChannelsIn
<1> HIDE DEF Good, S, Out
<1> QED BY <1>12, <1>13, <1>14 DEF A, B, gone, AssignAll

-----------------------------------------------------------------------------
(* Clearing keeps what is true of the items, and leaves none that is old.  *)

Aged(vs, everything, t) ==
  [p \in DOMAIN vs |->
     IF p # <<"dab_freq">> /\ Expired(vs[p], Tag(p), everything, t)
     THEN Invalidate(vs[p]) ELSE vs[p]]

KeptIn(left, p) ==
  IF Name(p) \in Erasable THEN left[p].sent
  ELSE Len(p) >= 3 => \E q \in DOMAIN left : /\ Len(q) >= 3 /\ left[q].sent
                                            /\ SubSeq(q, 1, 2) = SubSeq(p, 1, 2)

LEMMA ClearAged ==
  ASSUME NEW vs, NEW everything, NEW t
  PROVE  LET left == Aged(vs, everything, t)
             a == Clear(vs, everything, t)
         IN /\ DOMAIN left = DOMAIN vs
            /\ \A p : p \in DOMAIN a <=> p \in DOMAIN vs /\ KeptIn(left, p)
            /\ \A p \in DOMAIN a : a[p] = left[p]
<1> DEFINE left == Aged(vs, everything, t)
           a == Clear(vs, everything, t)
<1>1. a = [p \in {q \in DOMAIN left : KeptIn(left, q)} |-> left[p]]
  BY DEF Clear, Aged, KeptIn
<1>2. DOMAIN left = DOMAIN vs
  BY DEF Aged
<1> HIDE DEF a, left
<1>3. /\ \A p : p \in DOMAIN a <=> p \in DOMAIN left /\ KeptIn(left, p)
      /\ \A p \in DOMAIN a : a[p] = left[p]
  BY <1>1
<1> QED BY <1>2, <1>3 DEF a, left

(* An item that got old: it is shown only if it did not.                   *)
AgedTo(r, everything, tag, t, q) ==
  /\ IsItem(q) /\ q.hasCorrected = r.hasCorrected
  /\ q.lastValue = r.lastValue /\ q.lastCheck = r.lastCheck /\ q.lastUpdate <= r.lastUpdate
  /\ q.sent => q = r
  /\ q.sent => ~everything /\ t - r.lastUpdate <= Validity[tag]

LEMMA TagNames == ASSUME NEW p PROVE Tag(p) \in Tags /\ Validity[Tag(p)] \in Nat
<1>1. Tag(p) \in Tags
  BY DEF Tag, Tags
<1> QED BY <1>1, ValidityAssumption

LEMMA Ages ==
  ASSUME NEW vs, NEW everything \in BOOLEAN, NEW t \in Nat, NEW now0, Items(vs, now0),
         NEW p \in DOMAIN vs
  PROVE  LET q == Aged(vs, everything, t)[p]
         IN /\ p # <<"dab_freq">> => AgedTo(vs[p], everything, Tag(p), t, q)
            /\ p = <<"dab_freq">> => q = vs[p]
            /\ IsItem(q) /\ q.hasCorrected = vs[p].hasCorrected
            /\ q.lastValue = vs[p].lastValue /\ q.lastCheck = vs[p].lastCheck
            /\ q.lastUpdate <= vs[p].lastUpdate /\ (q.sent => q = vs[p])
            /\ ~everything /\ t - vs[p].lastUpdate <= Validity[Tag(p)] => q = vs[p]
<1> DEFINE q == Aged(vs, everything, t)[p]
           r == vs[p]
           i == Invalidate(r)
           old == p # <<"dab_freq">> /\ Expired(r, Tag(p), everything, t)
<1>1. q = IF old THEN i ELSE r
  BY DEF Aged
<1>2. IsItem(r)
  BY DEF Items
<1> HIDE DEF q, r
<1>3. r.lastUpdate \in Nat /\ Validity[Tag(p)] \in Nat
  BY <1>2, TagNames DEF IsItem
<1>4. r.lastUpdate <= r.lastUpdate
  BY <1>3
<1>5. Expired(r, Tag(p), everything, t) <=> (everything \/ ~(t - r.lastUpdate <= Validity[Tag(p)]))
  BY <1>3 DEF Expired
<1>6. /\ IsItem(i) /\ ~i.sent /\ i.hasCorrected = r.hasCorrected
      /\ i.lastValue = r.lastValue /\ i.lastCheck = r.lastCheck
      /\ i.lastUpdate <= r.lastUpdate
  BY <1>2, InvalidIsItem
<1> HIDE DEF i
<1>7. CASE old
  <2>1. q = i
    BY <1>1, <1>7
  <2>2. ~(~everything /\ t - r.lastUpdate <= Validity[Tag(p)])
    BY <1>5, <1>7
  <2> HIDE DEF old
  <2> QED BY <1>6, <1>7, <2>1, <2>2 DEF AgedTo, q, r, old
<1>8. CASE ~old
  <2>1. q = r
    BY <1>1, <1>8
  <2>2. p # <<"dab_freq">> => ~everything /\ t - r.lastUpdate <= Validity[Tag(p)]
    BY <1>5, <1>8
  <2> HIDE DEF old
  <2> QED BY <1>2, <1>4, <2>1, <2>2 DEF AgedTo, q, r
<1> QED BY <1>7, <1>8

Survives(vs, everything, t, a) ==
  \A p \in DOMAIN a :
    /\ p \in DOMAIN vs /\ IsItem(a[p]) /\ a[p].hasCorrected = vs[p].hasCorrected
    /\ a[p].lastValue = vs[p].lastValue /\ a[p].lastCheck = vs[p].lastCheck
    /\ a[p].lastUpdate <= vs[p].lastUpdate
    /\ a[p].sent => a[p] = vs[p]
    /\ a[p].sent /\ p # <<"dab_freq">> => ~everything /\ t - vs[p].lastUpdate <= Validity[Tag(p)]
    /\ ~everything /\ t - vs[p].lastUpdate <= Validity[Tag(p)] => a[p] = vs[p]
    /\ Name(p) \in Erasable => a[p].sent

LEMMA ClearSurvives ==
  ASSUME NEW vs, NEW everything \in BOOLEAN, NEW t \in Nat, NEW now0, Items(vs, now0)
  PROVE  Survives(vs, everything, t, Clear(vs, everything, t))
<1> DEFINE a == Clear(vs, everything, t)
           left == Aged(vs, everything, t)
<1>1. ASSUME NEW p \in DOMAIN a
      PROVE  p \in DOMAIN vs /\ a[p] = left[p] /\ (Name(p) \in Erasable => a[p].sent)
  BY ClearAged DEF KeptIn
<1> HIDE DEF a, left
<1>2. ASSUME NEW p \in DOMAIN vs
      PROVE  /\ p # <<"dab_freq">> => AgedTo(vs[p], everything, Tag(p), t, left[p])
             /\ IsItem(left[p]) /\ left[p].hasCorrected = vs[p].hasCorrected
             /\ left[p].lastValue = vs[p].lastValue /\ left[p].lastCheck = vs[p].lastCheck
             /\ left[p].lastUpdate <= vs[p].lastUpdate /\ (left[p].sent => left[p] = vs[p])
             /\ ~everything /\ t - vs[p].lastUpdate <= Validity[Tag(p)] => left[p] = vs[p]
  BY Ages DEF left
<1>3. Survives(vs, everything, t, a)
  BY <1>1, <1>2 DEF Survives, AgedTo
<1> QED BY <1>3 DEF a

(* A channel stays as a whole, with an identification that is not old.     *)
LEMMA ClearTuned ==
  ASSUME NEW vs, NEW everything \in BOOLEAN, NEW t \in Nat, NEW now0 \in Nat, Items(vs, now0),
         NEW out, Tuned(vs, out)
  PROVE  Tuned(Clear(vs, everything, t), out)
<1> DEFINE a == Clear(vs, everything, t)
           left == Aged(vs, everything, t)
<1>1. /\ DOMAIN left = DOMAIN vs
      /\ \A p : p \in DOMAIN a <=> p \in DOMAIN vs /\ KeptIn(left, p)
      /\ \A p \in DOMAIN a : a[p] = left[p]
  BY ClearAged
<1>2. Survives(vs, everything, t, a)
  BY ClearSurvives
<1> HIDE DEF a
<1>3. ASSUME NEW p \in DOMAIN a, p[1] = "tmc_channels"
      PROVE  /\ Channel(p[2]) \in DOMAIN a
             /\ LET v == a[Channel(p[2])]
                IN /\ v.sent => ~v.hasCorrected /\ v.sentValue = p[2]
                   /\ Channel(p[2]) \notin out =>
                        /\ v.sent \/ v.hasCorrected
                        /\ v.sent /\ a[p].sent => a[p].lastUpdate <= v.lastUpdate
  <2> DEFINE c == Channel(p[2])
             u == vs[c]
             v == a[c]
  <2>1. /\ c[1] = "tmc_channels" /\ c[2] = p[2] /\ Len(c) = 3 /\ IsSeq(c)
        /\ c[3] = "programme_identification"
    BY ChannelPaths
  <2>2. p \in DOMAIN vs /\ IsSeq(p) /\ Len(p) >= 3
    BY <1>1, <1>3 DEF Items, IsPath, InChannel
  <2>3. /\ c \in DOMAIN vs
        /\ u.sent => ~u.hasCorrected /\ u.sentValue = p[2]
        /\ c \notin out => /\ u.sent \/ u.hasCorrected
                           /\ u.sent /\ vs[p].sent => vs[p].lastUpdate <= u.lastUpdate
    BY <1>3, <2>2 DEF Tuned
  <2>4. PICK q \in DOMAIN left : /\ Len(q) >= 3 /\ left[q].sent
                                 /\ SubSeq(q, 1, 2) = SubSeq(p, 1, 2)
    <3>1. KeptIn(left, p)
      BY <1>1
    <3> HIDE DEF left
    <3> QED BY <1>1, <2>2, <3>1 DEF KeptIn
  <2>5. q \in DOMAIN vs /\ IsSeq(q)
    BY <1>1 DEF Items, IsPath
  <2>6. q[1] = "tmc_channels" /\ q[2] = p[2]
    <3>1. Len(q) >= 2 /\ Len(p) >= 2
      <4>1. Len(q) \in Nat /\ Len(p) \in Nat
        BY <2>2, <2>5 DEF IsSeq
      <4> QED BY <2>2, <2>4, <4>1
    <3> QED BY <1>3, <2>2, <2>4, <2>5, <3>1, Sliced
  <2>7. Name(c) \notin Erasable
    BY <2>1 DEF Name, Erasable
  <2>8. c \in DOMAIN a
    <3>1. SubSeq(q, 1, 2) = SubSeq(c, 1, 2)
      <4>1. Len(q) >= 2 /\ Len(c) >= 2
        <5>1. Len(q) \in Nat
          BY <2>5 DEF IsSeq
        <5> QED BY <2>1, <2>4, <5>1
      <4> QED BY <2>1, <2>5, <2>6, <4>1, Sliced
    <3>2. KeptIn(left, c)
      <4> HIDE DEF left, c
      <4> QED BY <2>4, <2>7, <3>1 DEF KeptIn
    <3> QED BY <1>1, <2>3, <3>2
  <2>9. (c \notin out /\ u.sent) => v = u
    <3>1. SUFFICES ASSUME c \notin out, u.sent PROVE v = u
      OBVIOUS
    <3>2. vs[q].sent /\ ~everything /\ t - vs[q].lastUpdate <= Validity[Tag(q)]
      <4>1. q # <<"dab_freq">>
        BY <2>6
      <4>2. AgedTo(vs[q], everything, Tag(q), t, left[q])
        <5> HIDE DEF left
        <5> QED BY <2>5, <4>1, Ages DEF left
      <4> QED BY <2>4, <4>2 DEF AgedTo
    <3>3. Tag(q) = "Programme" /\ Tag(c) = "Programme"
      <4>1. c[1] = "tmc_channels" /\ q[1] = "tmc_channels"
        BY <2>1, <2>6
      <4> HIDE DEF c
      <4> QED BY <2>3, <2>5, <4>1 DEF Items, IsPath, InChannel
    <3>4. vs[q].lastUpdate <= u.lastUpdate
      BY <2>5, <2>6, <3>1, <3>2 DEF Tuned
    <3>5. vs[q].lastUpdate \in Nat /\ u.lastUpdate \in Nat /\ Validity["Programme"] \in Nat
      <4>1. IsItem(vs[q]) /\ IsItem(u)
        BY <2>3, <2>5 DEF Items
      <4>2. "Programme" \in Tags
        BY DEF Tags
      <4> QED BY <4>1, <4>2, ValidityAssumption DEF IsItem
    <3>6. t - u.lastUpdate <= Validity[Tag(c)]
      <4>1. t - vs[q].lastUpdate <= Validity["Programme"]
        BY <3>2, <3>3
      <4>2. t - u.lastUpdate <= Validity["Programme"]
        <5> HIDE DEF u
        <5> QED BY <3>4, <3>5, <4>1
      <4> QED BY <3>3, <4>2
    <3> HIDE DEF c
    <3> QED BY <1>2, <2>8, <3>2, <3>6 DEF Survives
  <2>10. v.hasCorrected = u.hasCorrected /\ (v.sent => v = u)
    <3> HIDE DEF c
    <3> QED BY <1>2, <2>8 DEF Survives
  <2>11. a[p].sent => a[p] = vs[p]
    BY <1>2 DEF Survives
  <2> HIDE DEF c, u, v
  <2>12. /\ v.sent => ~v.hasCorrected /\ v.sentValue = p[2]
         /\ c \notin out => /\ v.sent \/ v.hasCorrected
                            /\ v.sent /\ a[p].sent => a[p].lastUpdate <= v.lastUpdate
    BY <2>3, <2>9, <2>10, <2>11
  <2> QED BY <2>8, <2>12 DEF c, v
<1>4. Tuned(a, out)
  BY <1>3 DEF Tuned
<1> QED BY <1>4 DEF a

LEMMA ClearSound ==
  ASSUME NEW vs, NEW h, NEW everything \in BOOLEAN, NEW t \in Nat, NEW u \in Nat, NEW out,
         Sound(vs, h, u, out), NEW from, NEW to
  PROVE  LET a == Clear(vs, everything, t)
         IN /\ Sound(a, h, u, out) /\ Grounded(vs, a, h, from, to)
            /\ \A air : Aired(vs, air) => Aired(a, air)
<1> DEFINE a == Clear(vs, everything, t)
<1>1. Items(vs, u) /\ Backed(vs, h) /\ Waiting(vs, h) /\ Flagged(vs, h) /\ Tuned(vs, out)
  BY DEF Sound
<1>2. Survives(vs, everything, t, a) /\ Tuned(a, out)
  BY <1>1, ClearSurvives, ClearTuned
<1> HIDE DEF a
<1>3. Items(a, u)
  <2>1. ASSUME NEW p \in DOMAIN a PROVE IsPath(p) /\ IsItem(a[p]) /\ a[p].lastUpdate <= u
    <3>1. p \in DOMAIN vs /\ IsItem(a[p]) /\ a[p].lastUpdate <= vs[p].lastUpdate
      BY <1>2 DEF Survives
    <3>2. IsPath(p) /\ IsItem(vs[p]) /\ vs[p].lastUpdate <= u
      BY <1>1, <3>1 DEF Items
    <3>3. a[p].lastUpdate \in Nat /\ vs[p].lastUpdate \in Nat
      BY <3>1, <3>2 DEF IsItem
    <3> QED BY <3>1, <3>2, <3>3
  <2> QED BY <2>1 DEF Items
<1>4. Backed(a, h)
  BY <1>1, <1>2 DEF Backed, Survives
<1>5. Waiting(a, h)
  BY <1>1, <1>2 DEF Waiting, Survives
<1>6. Flagged(a, h)
  <2>1. ASSUME NEW flag, Item(a, flag).sent
        PROVE  Item(vs, flag).sent /\ a[flag].sentValue = vs[flag].sentValue
    <3>1. flag \in DOMAIN a /\ a[flag].sent
      BY <2>1, NewIsItem DEF Item
    <3> QED BY <1>2, <3>1 DEF Survives, Item
  <2>2. \A p \in DOMAIN a : a[p].sent => p \in DOMAIN vs /\ a[p] = vs[p]
    BY <1>2 DEF Survives
  <2> QED BY <1>1, <2>1, <2>2 DEF Flagged
<1>7. Grounded(vs, a, h, from, to)
  BY <1>2 DEF Grounded, Survives, Item
<1>8. \A air : Aired(vs, air) => Aired(a, air)
  BY <1>2 DEF Aired, Survives
<1> QED BY <1>2, <1>3, <1>4, <1>5, <1>6, <1>7, <1>8 DEF Sound, a

(* What a search asks for and does not find is a channel that was torn.    *)
LEMMA ClearMissing ==
  ASSUME NEW vs, NEW h, NEW t \in Nat, NEW out, Sound(vs, h, t, out), NEW g \in Groups
  PROVE  \A p \in Missing(Clear(vs, FALSE, t), g) : p \in out /\ IsChannel(p)
<1> DEFINE a == Clear(vs, FALSE, t)
<1>1. Sound(a, h, t, out)
  BY ClearSound
<1>2. Survives(vs, FALSE, t, a)
  BY ClearSurvives DEF Sound
<1> HIDE DEF a
<1>3. ASSUME IsOda(a, g) PROVE HasValue(a[OdaPath(g)])
  <2>1. OdaPath(g) \in DOMAIN a
    BY <1>3 DEF IsOda
  <2>2. Name(OdaPath(g)) \in Erasable
    BY DEF OdaPath, Name, Erasable
  <2> QED BY <1>2, <2>1, <2>2 DEF Survives, HasValue
<1>4. ASSUME NEW p \in DOMAIN a, Name(p) \in {"alternative_frequencies", "frequencies"}
      PROVE  HasLastValue(a[p])
  <2>1. Name(p) \in Erasable
    BY <1>4 DEF Erasable
  <2> QED BY <1>2, <2>1 DEF Survives, HasLastValue
<1>5. ASSUME NEW p \in DOMAIN a, IsChannel(p), ~HasLastValue(a[p]) PROVE p \in out
  <2>1. p[1] = "tmc_channels" /\ p = Channel(p[2])
    BY <1>1, <1>5 DEF Sound, Items, IsPath, InChannel, IsChannel
  <2>2. Channel(p[2]) \notin out => a[Channel(p[2])].sent \/ a[Channel(p[2])].hasCorrected
    BY <1>1, <2>1 DEF Sound, Tuned
  <2> QED BY <1>5, <2>1, <2>2 DEF HasLastValue
<1>6. ASSUME NEW p \in Missing(a, g) PROVE p \in out /\ IsChannel(p)
  <2>1. \/ p \in DOMAIN a /\ IsChannel(p) /\ ~HasLastValue(a[p])
        \/ /\ p \in DOMAIN a /\ Name(p) \in {"alternative_frequencies", "frequencies"}
           /\ ~HasLastValue(a[p])
        \/ p = OdaPath(g) /\ IsOda(a, g) /\ ~HasValue(a[p])
    BY <1>6 DEF Missing
  <2> QED BY <1>3, <1>4, <1>5, <2>1
<1> QED BY <1>6 DEF a

(* What a group may set, whether one of its CHECKs fails or not.           *)
LEMMA OutcomesProper ==
  ASSUME NEW vs, NEW g \in Groups, NEW o \in Outcomes(vs, g)
  PROVE  /\ Proper(g, o.sets) /\ \A j \in 1..Len(o.sets) : InOrder(o.sets, j)
         /\ o.failed \subseteq Missing(vs, g)
         /\ o.failed # {} => ChannelsIn(o.sets) = {}
<1>1. CASE o \in {[failed |-> {p}, sets |-> CommonFields(g, 0)] : p \in Missing(vs, g)}
  <2>1. o.failed \subseteq Missing(vs, g) /\ o.sets = CommonFields(g, 0)
    BY <1>1
  <2>2. Proper(g, CommonFields(g, 0))
    <3>1. 0 \in {0, 2}
      OBVIOUS
    <3> QED BY <3>1, ProperCommon
  <2>3. ChannelsIn(CommonFields(g, 0)) = {}
    <3>1. DOMAIN CommonFields(g, 0) = 1..Len(CommonFields(g, 0))
      BY <2>2, ProperSeq DEF IsSeq
    <3> QED BY <3>1, CommonOrder DEF ChannelsIn
  <2> QED BY <2>1, <2>2, <2>3, CommonOrder
<1>2. CASE o = [failed |-> {}, sets |-> Fields(vs, g)]
  <2>1. o.failed = {} /\ o.sets = Fields(vs, g)
    BY <1>2
  <2> QED BY <2>1, ProperFields, Order
<1> QED BY <1>1, <1>2 DEF Outcomes

LEMMA ReadingsAdvance ==
  ASSUME NEW from \in Nat, NEW to \in Nat, from <= to, NEW n \in Nat, NEW ts \in Readings(from, to, n)
  PROVE  Advances(ts, n, from, to)
<1>1. PICK before \in Nat : ts = [k \in 1..n |-> IF k <= before THEN from ELSE to]
  BY BoundsAssumption DEF Readings
<1>2. \A k \in 1..n : ts[k] = IF k <= before THEN from ELSE to
  BY <1>1
<1> QED BY <1>2 DEF Advances

-----------------------------------------------------------------------------
(* Clearing the TMC collector: one continuity index after another.         *)

ClearedAt(o, i, everything, t) ==
  IF everything \/ TmcExpired(o.tmc, i, t)
  THEN {[tmc |-> f.tmc, said |-> o.said \o f.said] : f \in Flushes(o.tmc, i)}
  ELSE {o}

Clears(F, c, everything, t) ==
  /\ F[0] = {[tmc |-> c, said |-> <<>>]}
  /\ \A i \in 0..5 : F[i + 1] = UNION {ClearedAt(o, i, everything, t) : o \in F[i]}
  /\ ClearTmc(c, everything, t) = F[6]

LEMMA Clearing ==
  ASSUME NEW c, NEW everything, NEW t
  PROVE  \E F : Clears(F, c, everything, t)
<1> DEFINE start == {[tmc |-> c, said |-> <<>>]}
           Step(F, k) == IF k = 0 THEN start
                         ELSE UNION {ClearedAt(o, k - 1, everything, t) : o \in F[k - 1]}
           S == {n \in Nat : \E F : \A k \in 0..n : F[k] = Step(F, k)}
<1> HIDE DEF start
<1>1. 0 \in S
  <2> DEFINE G == [k \in 0..0 |-> start]
  <2>1. \A k \in 0..0 : G[k] = Step(G, k)
    OBVIOUS
  <2> HIDE DEF G, Step
  <2> QED BY <2>1
<1>2. ASSUME NEW n \in Nat, n \in S PROVE n + 1 \in S
  <2>1. PICK F : \A k \in 0..n : F[k] = Step(F, k)
    BY <1>2
  <2> DEFINE next == UNION {ClearedAt(o, n, everything, t) : o \in F[n]}
             G == [k \in 0..(n + 1) |-> IF k = n + 1 THEN next ELSE F[k]]
  <2>2. ASSUME NEW k \in 0..(n + 1) PROVE G[k] = Step(G, k)
    <3>1. CASE k = n + 1
      <4>1. G[k] = next
        BY <3>1
      <4>2. n \in 0..(n + 1) /\ n # n + 1 /\ k - 1 = n /\ k # 0
        BY <3>1
      <4>3. G[n] = F[n]
        BY <4>2
      <4> HIDE DEF G
      <4> QED BY <3>1, <4>1, <4>2, <4>3
    <3>2. CASE k # n + 1
      <4>1. k \in 0..n /\ (k # 0 => k - 1 \in 0..(n + 1) /\ k - 1 # n + 1)
        BY <3>2
      <4>2. G[k] = F[k] /\ (k # 0 => G[k - 1] = F[k - 1])
        BY <3>2, <4>1
      <4>3. F[k] = Step(F, k)
        BY <2>1, <4>1
      <4> HIDE DEF G
      <4> QED BY <4>2, <4>3
    <3> QED BY <3>1, <3>2
  <2> HIDE DEF G, Step
  <2> QED BY <2>2
<1>3. PICK F : \A k \in 0..6 : F[k] = Step(F, k)
  <2> HIDE DEF S
  <2>1. Nat \subseteq S /\ 6 \in Nat
    BY <1>1, <1>2, Induction
  <2> QED BY <2>1 DEF S
<1> DEFINE G == [k \in 0..6 |-> Step(F, k)]
<1>4. G = [k \in 0..6 |-> Step(G, k)]
  <2>1. \A k \in 0..6 : k # 0 => k - 1 \in 0..6
    OBVIOUS
  <2>2. \A k \in 0..6 : G[k] = F[k]
    BY <1>3
  <2>3. \A k \in 0..6 : Step(F, k) = Step(G, k)
    <3> HIDE DEF G
    <3> QED BY <2>1, <2>2
  <2> HIDE DEF Step
  <2> QED BY <2>3
<1> HIDE DEF G
<1> DEFINE B == CHOOSE f : f = [k \in 0..6 |-> Step(f, k)]
<1>5. ClearTmc(c, everything, t) = B[6]
  BY DEF ClearTmc, ClearedAt, start
<1>6. B = [k \in 0..6 |-> Step(B, k)]
  <2> HIDE DEF Step
  <2> QED BY <1>4
<1> HIDE DEF B
<1>7. B[0] = start
  BY <1>6
<1>8. ASSUME NEW i \in 0..5 PROVE B[i + 1] = UNION {ClearedAt(o, i, everything, t) : o \in B[i]}
  <2>1. i + 1 \in 0..6 /\ i + 1 # 0 /\ i + 1 - 1 = i
    OBVIOUS
  <2>2. B[i + 1] = Step(B, i + 1)
    <3> HIDE DEF Step
    <3> QED BY <1>6, <2>1
  <2> QED BY <2>1, <2>2
<1>9. Clears(B, c, everything, t)
  BY <1>5, <1>7, <1>8 DEF start, Clears
<1> QED BY <1>9

LEMMA FlushedDomain ==
  ASSUME NEW c, DOMAIN c = DOMAIN NewCollector, NEW i, NEW f \in Flushes(c, i)
  PROVE  DOMAIN f.tmc = DOMAIN NewCollector
<1> DEFINE d == Dropped(c, i)
<1>1. DOMAIN d = DOMAIN NewCollector
  BY DEF Dropped
<1> HIDE DEF d
<1>2. ASSUME NEW m, NEW k, NEW s, NEW multi
      PROVE  DOMAIN AddMessage(d, m, k, s, multi).tmc = DOMAIN NewCollector
  BY <1>1 DEF AddMessage
<1>3. \/ f = [tmc |-> d, said |-> <<>>]
      \/ \E k, s, ks : f = Assembled(c, i, k, s, ks)
  BY DEF Flushes, Best, d
<1>4. CASE f = [tmc |-> d, said |-> <<>>]
  BY <1>1, <1>4
<1>5. ASSUME NEW k, NEW s, NEW ks, f = Assembled(c, i, k, s, ks)
      PROVE  DOMAIN f.tmc = DOMAIN NewCollector
  BY <1>2, <1>5 DEF Assembled, d
<1> QED BY <1>3, <1>4, <1>5

LEMMA ClearedDomain ==
  ASSUME NEW c, DOMAIN c = DOMAIN NewCollector, NEW everything, NEW t,
         NEW d \in ClearTmc(c, everything, t)
  PROVE  DOMAIN d.tmc = DOMAIN NewCollector
<1>1. PICK F : Clears(F, c, everything, t)
  BY Clearing
<1> DEFINE Good(i) == \A o \in F[i] : DOMAIN o.tmc = DOMAIN NewCollector
<1>2. Good(0)
  BY <1>1 DEF Clears
<1>3. ASSUME NEW i \in 0..5, Good(i) PROVE Good(i + 1)
  <2>1. ASSUME NEW n \in F[i + 1] PROVE DOMAIN n.tmc = DOMAIN NewCollector
    <3>1. PICK o \in F[i] : n \in ClearedAt(o, i, everything, t)
      <4>1. F[i + 1] = UNION {ClearedAt(o, i, everything, t) : o \in F[i]}
        BY <1>1, Zenon DEF Clears
      <4>2. n \in UNION {ClearedAt(o, i, everything, t) : o \in F[i]}
        BY <2>1, <4>1
      <4> QED BY <4>2
    <3>2. DOMAIN o.tmc = DOMAIN NewCollector
      BY <1>3
    <3>3. n = o \/ \E f \in Flushes(o.tmc, i) : n.tmc = f.tmc
      <4>1. ASSUME n # o
            PROVE  \E f \in Flushes(o.tmc, i) : n = [tmc |-> f.tmc, said |-> o.said \o f.said]
        BY <3>1, <4>1, Zenon DEF ClearedAt
      <4>2. ASSUME NEW f, n = [tmc |-> f.tmc, said |-> o.said \o f.said] PROVE n.tmc = f.tmc
        BY <4>2
      <4> QED BY <4>1, <4>2, Zenon
    <3>4. ASSUME NEW f \in Flushes(o.tmc, i) PROVE DOMAIN f.tmc = DOMAIN NewCollector
      BY <3>2, FlushedDomain
    <3> QED BY <3>2, <3>3, <3>4
  <2> QED BY <2>1
<1> HIDE DEF Good
<1>4. Good(1) /\ Good(2) /\ Good(3) /\ Good(4) /\ Good(5) /\ Good(6)
  <2>1. Good(1)
    BY <1>2, <1>3
  <2>2. Good(2)
    BY <1>3, <2>1
  <2>3. Good(3)
    BY <1>3, <2>2
  <2>4. Good(4)
    BY <1>3, <2>3
  <2>5. Good(5)
    BY <1>3, <2>4
  <2> QED BY <1>3, <2>1, <2>2, <2>3, <2>4, <2>5
<1> QED BY <1>1, <1>4 DEF Good, Clears

LEMMA GroupDomain ==
  ASSUME NEW c, DOMAIN c = DOMAIN NewCollector, NEW g, NEW t, NEW d \in TmcGroup(c, g, t)
  PROVE  DOMAIN d.tmc = DOMAIN NewCollector
<1>1. CASE Bits(g.data[1], 0, 5) \in 1..6
  <2>1. d \in MultiGroup(c, g, t)
    BY <1>1 DEF TmcGroup
  <2>2. PICK kept, i : /\ DOMAIN kept = DOMAIN NewCollector
                       /\ d \in Flushes(kept, i) \/ d = [tmc |-> kept, said |-> <<>>]
    BY <2>1 DEF MultiGroup
  <2> QED BY <2>2, FlushedDomain
<1>2. CASE Bits(g.data[1], 0, 5) \notin 1..6 /\ Bits(g.data[1], 0, 5) \in 8..15
  <2>1. d \in SingleGroup(c, g)
    BY <1>2 DEF TmcGroup
  <2>2. ASSUME NEW m, NEW k, NEW s, NEW multi
        PROVE  DOMAIN AddMessage(c, m, k, s, multi).tmc = DOMAIN NewCollector
    BY DEF AddMessage
  <2> QED BY <2>1, <2>2 DEF SingleGroup
<1>3. CASE Bits(g.data[1], 0, 5) \notin 1..6 /\ Bits(g.data[1], 0, 5) \notin 8..15
  <2>1. d = [tmc |-> c, said |-> <<>>]
    BY <1>3 DEF TmcGroup
  <2> QED BY <2>1
<1> QED BY <1>1, <1>2, <1>3

-----------------------------------------------------------------------------
(* The invariant, and what follows from it.                                *)

Collecting == DOMAIN tmc = DOMAIN NewCollector

Settings ==
  /\ now \in 0..MaxTime /\ onAir \in Programmes
  /\ torn \subseteq DOMAIN heard /\ failed \subseteq torn

RdsInv ==
  /\ Sound(values, heard, now, torn) /\ Aired(values, onAir)
  /\ Collecting /\ Settings /\ ReportedFresh

LEMMA NowNat == ASSUME Settings PROVE now \in Nat
  BY BoundsAssumption DEF Settings

LEMMA RdsInit == Init => RdsInv
<1> SUFFICES ASSUME Init PROVE RdsInv
  OBVIOUS
<1>1. DOMAIN Nothing = {}
  BY DEF Nothing
<1>2. Sound(values, heard, now, torn) /\ Aired(values, onAir)
  BY <1>1 DEF Init, Sound, Items, Backed, Waiting, Flagged, Tuned, Aired
<1>3. Settings
  BY BoundsAssumption DEF Init, Settings
<1>4. ReportedFresh
  BY <1>1 DEF Init, ReportedFresh
<1> QED BY <1>2, <1>3, <1>4 DEF Init, RdsInv, Collecting

LEMMA NothingReported == ASSUME reported' = Nothing PROVE ReportedFresh'
<1>1. DOMAIN Nothing = {}
  BY DEF Nothing
<1> QED BY <1>1 DEF ReportedFresh

(* A group is processed: what it says is written to what is not too old.   *)
LEMMA ProcessSound ==
  ASSUME RdsInv, NEW g \in Groups, Process(g)
  PROVE  /\ Sound(values', heard', now', torn') /\ Grounded(values, values', heard', now, now')
         /\ Airs(g, values, values')
         /\ now' \in now..MaxTime /\ torn' \subseteq DOMAIN heard' /\ failed' \subseteq torn'
<1> DEFINE vs == Clear(values, FALSE, now)
<1>1. now \in Nat /\ torn \subseteq DOMAIN heard
  BY NowNat DEF RdsInv, Settings
<1>2. PICK later, o, ts :
        /\ later \in now..MaxTime /\ o \in Outcomes(vs, g)
        /\ now' = later /\ failed' = o.failed
        /\ ts \in Readings(now, later, Len(o.sets))
        /\ values' = AssignAll(vs, o.sets, ts)
        /\ heard' = HeardAfter(heard, o.sets, ts, now)[Len(o.sets)]
        /\ torn' = (torn \ ChannelsIn(o.sets)) \cup TornIn(o.sets, ts)
  BY DEF Process
<1>3. later \in Nat /\ now <= later
  BY <1>1, <1>2, BoundsAssumption
<1>4. /\ Sound(vs, heard, now, torn) /\ Grounded(values, vs, heard, now, later)
      /\ \A air : Aired(values, air) => Aired(vs, air)
  BY <1>1, ClearSound DEF RdsInv
<1>5. \A p \in Missing(vs, g) : p \in torn
  BY <1>1, ClearMissing DEF RdsInv
<1> HIDE DEF vs
<1> DEFINE ws == o.sets
<1>6. /\ Proper(g, ws) /\ \A j \in 1..Len(ws) : InOrder(ws, j)
      /\ o.failed \subseteq Missing(vs, g) /\ (o.failed # {} => ChannelsIn(ws) = {})
  BY <1>2, OutcomesProper
<1>7. Len(ws) \in Nat
  BY <1>6, ProperSeq
<1> HIDE DEF ws
<1>8. Advances(ts, Len(ws), now, later)
  BY <1>1, <1>2, <1>3, <1>7, ReadingsAdvance DEF ws
<1> DEFINE a == AssignAll(vs, ws, ts)
           b == HeardAfter(heard, ws, ts, now)[Len(ws)]
<1>9. /\ Sound(a, b, later, AfterTearing(torn, ws, ts)) /\ Grounded(values, a, b, now, later)
      /\ Airs(g, vs, a) /\ DOMAIN heard \cup ChannelsIn(ws) \subseteq DOMAIN b
  BY <1>1, <1>3, <1>4, <1>6, <1>8, AllWrites
<1> HIDE DEF a, b
<1>10. values' = a /\ heard' = b /\ torn' = AfterTearing(torn, ws, ts)
  BY <1>2 DEF a, b, ws, AfterTearing
<1>11. AfterTearing(torn, ws, ts) \subseteq torn \cup ChannelsIn(ws)
  BY DEF AfterTearing, TornIn
<1>12. failed' \subseteq torn'
  BY <1>2, <1>5, <1>6, <1>10 DEF AfterTearing
<1> QED BY <1>1, <1>2, <1>4, <1>9, <1>10, <1>11, <1>12 DEF Airs

LEMMA OnTheAir == ASSUME Settings, NEW g \in onAir PROVE g \in Groups
  BY ProgrammesAssumption DEF Settings

LEMMA RdsNext == ASSUME RdsInv, [Next]_vars PROVE RdsInv'
<1>1. now \in Nat /\ Sound(values, heard, now, torn)
  BY NowNat DEF RdsInv
<1>2. ASSUME NEW g \in onAir, Process(g) PROVE RdsInv'
  <2>1. g \in Groups
    BY OnTheAir DEF RdsInv
  <2>2. /\ Sound(values', heard', now', torn') /\ Airs(g, values, values')
        /\ now' \in now..MaxTime /\ torn' \subseteq DOMAIN heard' /\ failed' \subseteq torn'
    BY <1>2, <2>1, ProcessSound
  <2>3. onAir' = onAir /\ Aired(values', onAir')
    <3>1. onAir' = onAir /\ Aired(values, onAir)
      BY <1>2 DEF Process, RdsInv
    <3> QED BY <2>2, <3>1 DEF Airs
  <2>4. Collecting'
    <3>1. PICK c, later :
                 /\ c \in ClearTmc(tmc, FALSE, now)
                 /\ \E d \in IF IsTmc(Clear(values, FALSE, now), g) THEN TmcGroup(c.tmc, g, later)
                            ELSE {[tmc |-> c.tmc, said |-> <<>>]} : tmc' = d.tmc
      BY <1>2 DEF Process
    <3>2. DOMAIN c.tmc = DOMAIN NewCollector
      BY <3>1, ClearedDomain DEF RdsInv, Collecting
    <3>3. PICK d : /\ tmc' = d.tmc
                   /\ d \in TmcGroup(c.tmc, g, later) \/ d = [tmc |-> c.tmc, said |-> <<>>]
      BY <3>1
    <3>4. DOMAIN d.tmc = DOMAIN NewCollector
      BY <3>2, <3>3, GroupDomain
    <3> QED BY <3>3, <3>4 DEF Collecting
  <2>5. Settings'
    <3>1. now' \in 0..MaxTime
      BY <1>1, <2>2, BoundsAssumption
    <3> QED BY <2>2, <2>3, <3>1 DEF RdsInv, Settings
  <2>6. ReportedFresh'
    BY <1>2, NothingReported DEF Process
  <2> QED BY <2>2, <2>3, <2>4, <2>5, <2>6 DEF RdsInv
<1>3. ASSUME State PROVE RdsInv'
  <2>1. /\ values' = values /\ heard' = heard /\ now' = now /\ tmc' = tmc
        /\ failed' = failed /\ torn' = torn
        /\ onAir' = onAir /\ reported' = Clear(values, FALSE, now)
    BY <1>3 DEF State
  <2>2. /\ Sound(values', heard', now', torn') /\ Aired(values', onAir') /\ Collecting'
        /\ Settings'
    BY <1>1, <2>1 DEF RdsInv, Collecting, Settings
  <2>3. ReportedFresh'
    <3> DEFINE a == Clear(values, FALSE, now)
    <3>1. Sound(a, heard, now, torn)
      BY <1>1, ClearSound
    <3>2. Survives(values, FALSE, now, a)
      BY <1>1, ClearSurvives DEF Sound
    <3> HIDE DEF a
    <3>3. ASSUME NEW p \in DOMAIN a \ {<<"dab_freq">>}, a[p].sent
          PROVE  /\ a[p].sentValue \in DOMAIN heard[p].at
                 /\ now - heard[p].at[a[p].sentValue].time <= Validity[Tag(p)]
      <4>1. /\ a[p].sentValue \in DOMAIN heard[p].at
            /\ heard[p].at[a[p].sentValue].time \in Nat
            /\ a[p].lastUpdate <= heard[p].at[a[p].sentValue].time
        BY <3>1, <3>3 DEF Sound, Backed
      <4>2. now - a[p].lastUpdate <= Validity[Tag(p)]
        BY <3>2, <3>3 DEF Survives
      <4>3. a[p].lastUpdate \in Nat
        BY <3>1 DEF Sound, Items, IsItem
      <4>4. Validity[Tag(p)] \in Nat
        BY TagNames
      <4> DEFINE x == heard[p].at[a[p].sentValue].time
                 y == a[p].lastUpdate
                 z == Validity[Tag(p)]
      <4>5. now - x <= z
        <5>1. x \in Nat /\ y \in Nat /\ z \in Nat /\ y <= x /\ now - y <= z
          BY <4>1, <4>2, <4>3, <4>4
        <5> HIDE DEF x, y, z
        <5> QED BY <1>1, <5>1
      <4> QED BY <4>1, <4>5
    <3>4. reported' = a
      BY <2>1 DEF a
    <3> QED BY <2>1, <3>3, <3>4 DEF ReportedFresh
  <2> QED BY <2>2, <2>3 DEF RdsInv
<1>4. ASSUME Reset PROVE RdsInv'
  <2>1. /\ values' = Clear(values, TRUE, 0) /\ heard' = heard /\ now' = now
        /\ failed' = failed /\ torn' = torn /\ onAir' = onAir /\ reported' = Nothing
    BY <1>4 DEF Reset
  <2>2. Sound(values', heard', now', torn') /\ Aired(values', onAir')
    <3>1. /\ Sound(Clear(values, TRUE, 0), heard, now, torn)
          /\ \A air : Aired(values, air) => Aired(Clear(values, TRUE, 0), air)
      BY <1>1, ClearSound
    <3>2. Aired(values, onAir)
      BY DEF RdsInv
    <3> QED BY <2>1, <3>1, <3>2
  <2>3. Collecting'
    <3>1. PICK c \in ClearTmc(tmc, TRUE, 0) : tmc' = c.tmc
      BY <1>4 DEF Reset
    <3> QED BY <3>1, ClearedDomain DEF RdsInv, Collecting
  <2>4. Settings' /\ ReportedFresh'
    BY <2>1, NothingReported DEF RdsInv, Settings
  <2> QED BY <2>2, <2>3, <2>4 DEF RdsInv
<1>5. ASSUME Tick PROVE RdsInv'
  <2>1. /\ now < MaxTime /\ now' = now + 1 /\ values' = values /\ heard' = heard /\ tmc' = tmc
        /\ failed' = failed /\ torn' = torn /\ onAir' = onAir /\ reported' = Nothing
    BY <1>5 DEF Tick
  <2>2. Sound(values', heard', now', torn') /\ Aired(values', onAir')
    <3>1. Items(values, now + 1)
      <4>1. now + 1 \in Nat /\ now <= now + 1
        BY <1>1
      <4> QED BY <1>1, <4>1, ItemsLater DEF Sound
    <3> QED BY <1>1, <2>1, <3>1 DEF Sound, RdsInv
  <2>3. Collecting' /\ Settings' /\ ReportedFresh'
    BY <2>1, BoundsAssumption, NothingReported DEF RdsInv, Collecting, Settings
  <2> QED BY <2>2, <2>3 DEF RdsInv
<1>6. ASSUME UNCHANGED vars PROVE RdsInv'
  BY <1>6 DEF vars, RdsInv, Collecting, Settings, ReportedFresh
<1> QED BY <1>2, <1>3, <1>4, <1>5, <1>6 DEF Next

(* RdsInv is inductive: the items are sound, nothing reported is too old.  *)
THEOREM RdsInvHolds == Spec => []RdsInv
<1>1. RdsInv /\ [Next]_vars => RdsInv'
  BY RdsNext
<1> QED BY RdsInit, <1>1, PTL DEF Spec

(* The items are RdsValue objects, nothing in them is from the future, and *)
(* what waits for confirmation was heard but not believed.                 *)
THEOREM TypeOKHolds == Spec => []TypeOK
<1>1. RdsInv => TypeOK
  <2> SUFFICES ASSUME RdsInv PROVE TypeOK
    OBVIOUS
  <2>1. ASSUME NEW p \in DOMAIN values
        PROVE  /\ DOMAIN values[p] = DOMAIN NewValue
               /\ values[p].sent \in BOOLEAN /\ values[p].hasCorrected \in BOOLEAN
               /\ values[p].lastUpdate \in 0..now
               /\ HasLastValue(values[p]) => values[p].lastCheck # Unset
    <3>1. IsItem(values[p]) /\ values[p].lastUpdate <= now
      BY DEF RdsInv, Sound, Items
    <3>2. now \in Nat
      BY NowNat DEF RdsInv
    <3> QED BY <3>1, <3>2, UnsetAssumption DEF IsItem, HasLastValue
  <2> QED BY <2>1 DEF TypeOK, RdsInv, Collecting, Settings
<1> QED BY RdsInvHolds, <1>1, PTL

(* No CHECK of the decoder fails, whatever was received and whatever got   *)
(* too old on its own, unless it is for a channel that the clock has torn. *)
THEOREM NoCheckFailsUnlessTornHolds == Spec => []NoCheckFailsUnlessTorn
<1>1. RdsInv => NoCheckFailsUnlessTorn
  BY DEF RdsInv, Settings, NoCheckFailsUnlessTorn
<1> QED BY RdsInvHolds, <1>1, PTL

(* An item the user is shown was received, with that very value, not       *)
(* longer ago than its kind may be shown.                                  *)
THEOREM ReportedFreshHolds == Spec => []ReportedFresh
<1>1. RdsInv => ReportedFresh
  BY DEF RdsInv
<1> QED BY RdsInvHolds, <1>1, PTL

(* A text is never shown from before the change of its A/B flag.           *)
THEOREM TextOfOneFlagHolds == Spec => []TextOfOneFlag
<1>1. RdsInv => TextOfOneFlag
  BY DEF RdsInv, Sound, Flagged, TextOfOneFlag
<1> QED BY RdsInvHolds, <1>1, PTL

(* An item starts to show a value only on a Valid reception, or when two   *)
(* receptions in a row of that item carried it in the same bits.           *)
THEOREM BelievedOnEvidenceHolds == Spec => BelievedOnEvidence
<1> DEFINE A == \A p \in DOMAIN values' \ {<<"country">>} :
                  LET v == values'[p].sentValue
                      starts == values'[p].sent /\ ~(Item(values, p).sent /\ values[p].sentValue = v)
                  IN starts => heard'[p].at[v].time \in now..now' /\ heard'[p].at[v].grounds
<1>1. ASSUME RdsInv, [Next]_vars PROVE [A]_vars
  <2>1. ASSUME Grounded(values, values', heard', now, now') PROVE A
    BY <2>1 DEF Grounded
  <2>2. ASSUME NEW g \in onAir, Process(g) PROVE A
    <3>1. g \in Groups
      BY <1>1, OnTheAir DEF RdsInv
    <3>2. Grounded(values, values', heard', now, now')
      BY <1>1, <2>2, <3>1, ProcessSound
    <3> QED BY <2>1, <3>2
  <2>3. ASSUME Reset PROVE A
    <3>1. now \in Nat /\ Sound(values, heard, now, torn)
      BY <1>1, NowNat DEF RdsInv
    <3>2. Grounded(values, Clear(values, TRUE, 0), heard, now, now')
      BY <3>1, ClearSound
    <3>3. values' = Clear(values, TRUE, 0) /\ heard' = heard
      BY <2>3 DEF Reset
    <3> QED BY <2>1, <3>2, <3>3
  <2>4. ASSUME values' = values PROVE A
    <3>1. \A p \in DOMAIN values : values[p].sent => Item(values, p).sent
      BY DEF Item
    <3> QED BY <2>4, <3>1
  <2>5. CASE UNCHANGED vars
    BY <2>5
  <2>6. ASSUME State \/ Tick PROVE values' = values
    BY <2>6 DEF State, Tick
  <2> HIDE DEF A
  <2> QED BY <1>1, <2>2, <2>3, <2>4, <2>5, <2>6 DEF Next
<1>2. RdsInv /\ [Next]_vars => [A]_vars
  BY <1>1
<1> HIDE DEF A
<1>3. Spec => [][A]_vars
  BY RdsInvHolds, <1>2, PTL DEF Spec
<1> QED BY <1>3 DEF BelievedOnEvidence, A
=============================================================================
