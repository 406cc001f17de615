----------------------------- MODULE TmcProofs ------------------------------
(***************************************************************************)
(* Proofs about the TMC messages of RdsMessages: what is announced was     *)
(* heard well enough, and is put together from groups of one message.      *)
(***************************************************************************)
EXTENDS RdsProofs

-----------------------------------------------------------------------------
(* What the collector keeps.                                               *)

\* What a check says under any continuity index, and that of a single group.
What(f) == <<f[2], f[3]>>
Spoken(f) == <<Bits(f[1], 0, 3), f[2], f[3]>>

Sure(ev, k) == k \in DOMAIN ev /\ ev[k] = 2

Grows(ev, later) ==
  \A k \in DOMAIN ev : k \in DOMAIN later /\ (ev[k] = 2 => later[k] = 2)

Shape(c) ==
  /\ DOMAIN c = DOMAIN NewCollector
  /\ DOMAIN c.first = ContinuityIndices
  /\ DOMAIN c.second = ContinuityIndices
  /\ DOMAIN c.next = ContinuityIndices
  /\ \A i \in ContinuityIndices : DOMAIN c.next[i] = Remaining

(* The parts of an index are of the message it was last used for.          *)
Taken(part, use) ==
  /\ part.count \in Nat
  /\ part.timestamp \in Nat /\ part.timestamp <= use.time

FirstsFrom(parts, use) ==
  \A k \in DOMAIN parts :
    /\ Taken(parts[k], use)
    /\ \E d \in use.groups : parts[k].words = <<Bits(d[1], 0, 3), d[2], d[3]>>

OthersFrom(parts, use) ==
  \A k \in DOMAIN parts :
    /\ Taken(parts[k], use)
    /\ parts[k].remaining \in 0..3
    /\ \E d \in use.groups : parts[k].data = <<Bits(d[2], 0, 12), d[3]>>

IndexFrom(c, i, use) ==
  /\ FirstsFrom(c.first[i], use)
  /\ OthersFrom(c.second[i], use)
  /\ \A r \in Remaining : OthersFrom(c.next[i][r], use)

(* The evidence there is for first groups, and for messages that wait.     *)
FirstsEvident(parts, ev) ==
  \A f \in DOMAIN parts :
    /\ Bits(f[1], 0, 5) = 0
    /\ What(f) \in DOMAIN ev
    /\ parts[f].count >= 2 => Sure(ev, What(f))
    /\ \E low : parts[f].words = <<low, f[2], f[3]>>

PendingEvident(pending, ev) ==
  \A f \in DOMAIN pending :
    /\ IsSeq(pending[f]) /\ Len(pending[f]) >= 1
    /\ Bits(f[1], 0, 5) = 0 => What(f) \in DOMAIN ev
    /\ Bits(f[1], 0, 5) # 0 => Spoken(f) \in DOMAIN ev

(* Heard at two indices, or heard again, is heard twice.                   *)
TwiceEvident(c, ev) ==
  \A i \in ContinuityIndices :
    \A f \in DOMAIN c.first[i] :
      \/ f \in DOMAIN c.pending
      \/ \E j \in ContinuityIndices \ {i} : f \in DOMAIN c.first[j]
      => Sure(ev, What(f))

Evident(c, ev) ==
  /\ \A i \in ContinuityIndices : FirstsEvident(c.first[i], ev)
  /\ PendingEvident(c.pending, ev)
  /\ TwiceEvident(c, ev)

Collects(c, on, ev) ==
  /\ Shape(c) /\ Evident(c, ev)
  /\ \A i \in ContinuityIndices : IndexFrom(c, i, on[i])

Uses(on, t) ==
  /\ DOMAIN on = ContinuityIndices
  /\ \A i \in ContinuityIndices :
       on[i].groups \in TmcSent \cup {{}} /\ on[i].time \in Nat /\ on[i].time <= t

(* What is announced.                                                      *)
WholeMessage(msg) ==
  \E m \in TmcSent :
    /\ \E d \in m : msg.words = <<Bits(d[1], 0, 3), d[2], d[3]>>
    /\ \A n \in DOMAIN msg.extra :
         \/ msg.extra[n] = <<0, 0>>
         \/ \E d \in m : msg.extra[n] = <<Bits(d[2], 0, 12), d[3]>>

Fine(msg, ev) ==
  /\ msg.extra # <<>> => WholeMessage(msg)
  /\ Sure(ev, IF msg.extra = <<>> THEN msg.words ELSE Tail(msg.words))

AllFine(messages, ev) ==
  IsSeq(messages) /\ \A k \in 1..Len(messages) : Fine(messages[k], ev)

-----------------------------------------------------------------------------
LEMMA CollectsMore ==
  ASSUME NEW c, NEW on, NEW ev, NEW later, Collects(c, on, ev), Grows(ev, later)
  PROVE  Collects(c, on, later)
<1>1. \A k : Sure(ev, k) => Sure(later, k)
  BY DEF Grows, Sure
<1>2. \A k \in DOMAIN ev : k \in DOMAIN later
  BY DEF Grows
<1>3. \A i \in ContinuityIndices : FirstsEvident(c.first[i], later)
  BY <1>1, <1>2 DEF FirstsEvident, Collects, Evident
<1>4. PendingEvident(c.pending, later)
  BY <1>2 DEF PendingEvident, Collects, Evident
<1>5. TwiceEvident(c, later)
  BY <1>1 DEF TwiceEvident, Collects, Evident
<1> QED BY <1>3, <1>4, <1>5 DEF Collects, Evident

LEMMA FineMore ==
  ASSUME NEW s, NEW ev, NEW later, AllFine(s, ev), Grows(ev, later)
  PROVE  AllFine(s, later)
  BY DEF AllFine, Fine, Sure, Grows

LEMMA FineJoined ==
  ASSUME NEW s, NEW u, NEW ev, AllFine(s, ev), AllFine(u, ev)
  PROVE  AllFine(s \o u, ev)
<1>1. IsSeq(s) /\ IsSeq(u)
  BY DEF AllFine
<1> DEFINE both == s \o u
<1>2. /\ IsSeq(both) /\ Len(s) \in Nat /\ Len(u) \in Nat /\ Len(both) = Len(s) + Len(u)
      /\ \A k \in 1..Len(s) : both[k] = s[k]
      /\ \A k \in 1..Len(u) : both[Len(s) + k] = u[k]
  BY <1>1, Joined
<1> HIDE DEF both
<1>3. ASSUME NEW k \in 1..Len(both) PROVE Fine(both[k], ev)
  <2>1. CASE k <= Len(s)
    BY <1>2, <2>1 DEF AllFine
  <2>2. CASE k > Len(s)
    <3>1. k - Len(s) \in 1..Len(u) /\ Len(s) + (k - Len(s)) = k
      BY <1>2, <2>2
    <3> QED BY <1>2, <3>1 DEF AllFine
  <2> QED BY <1>2, <2>1, <2>2
<1> QED BY <1>2, <1>3 DEF AllFine, both

LEMMA FineOne ==
  ASSUME NEW ev
  PROVE  AllFine(<<>>, ev) /\ \A msg : Fine(msg, ev) => AllFine(<<msg>>, ev)
<1>1. AllFine(<<>>, ev)
  <2>1. IsSeq(<<>>)
    BY TuplesAre
  <2>2. Len(<<>>) = 0
    OBVIOUS
  <2> QED BY <2>1, <2>2 DEF AllFine
<1>2. ASSUME NEW msg, Fine(msg, ev) PROVE AllFine(<<msg>>, ev)
  <2> DEFINE o == <<msg>>
  <2>1. IsSeq(o) /\ Len(o) = 1 /\ o[1] = msg
    BY TuplesAre
  <2> HIDE DEF o
  <2>2. AllFine(o, ev)
    BY <1>2, <2>1 DEF AllFine
  <2> QED BY <2>2 DEF o
<1> QED BY <1>1, <1>2

-----------------------------------------------------------------------------
(* Helpers of the model.                                                   *)

LEMMA SmallestOf ==
  ASSUME NEW S, S \subseteq Nat, S # {}
  PROVE  Min(S) \in S /\ \A k \in S : Min(S) <= k
<1>1. \E n \in S : \A m \in S : n <= m
  BY LeastMember
<1> QED BY <1>1 DEF Min

LEMMA MatchingOne ==
  ASSUME NEW a, NEW b, IsSeq(a), IsSeq(b), Len(a) >= 1, Len(b) >= 1
  PROVE  Matching(a, b) \in Nat /\ Matching(a, b) >= 1
<1> DEFINE common == Min({Len(a), Len(b)})
           S == {k \in 1..common : k < common => a[k + 1] # b[k + 1]}
<1>1. Len(a) \in Nat /\ Len(b) \in Nat
  BY DEF IsSeq
<1>2. common \in Nat /\ common >= 1
  <2> DEFINE T == {Len(a), Len(b)}
  <2>1. T \subseteq Nat /\ T # {}
    BY <1>1
  <2> HIDE DEF T
  <2>2. Min(T) \in T
    BY <2>1, SmallestOf
  <2> QED BY <1>1, <2>2 DEF T
<1> HIDE DEF common
<1>3. common \in S /\ S \subseteq Nat
  BY <1>2
<1>4. \A k \in S : k >= 1
  BY <1>2
<1>5. Matching(a, b) = Min(S)
  BY DEF Matching, common
<1> HIDE DEF S
<1>6. Min(S) \in S
  BY <1>3, SmallestOf
<1> QED BY <1>3, <1>4, <1>5, <1>6

LEMMA NotEmpty ==
  ASSUME NEW n \in Nat, n >= 1, NEW e, IsSeq(e)
  PROVE  Resized(e, n) # <<>> /\ Resized(e, n) = [k \in 1..n |-> IF k <= Len(e) THEN e[k] ELSE <<0, 0>>]
<1>1. 1 \in DOMAIN Resized(e, n)
  BY DEF Resized
<1>2. DOMAIN <<>> = {}
  OBVIOUS
<1> QED BY <1>1, <1>2 DEF Resized

(* The next groups that are used: without a gap, from the ones before the  *)
(* second on, one of each.                                                 *)
LEMMA Chained ==
  ASSUME NEW next, NEW remaining \in 0..3, NEW ks \in Chains(next, remaining)
  PROVE  /\ IsSeq(ks) /\ DOMAIN ks = 1..Len(ks) /\ Len(ks) \in Nat
         /\ \A n \in DOMAIN ks : /\ n \in Nat /\ remaining - n \in Remaining
                                 /\ ks[n] \in DOMAIN next[remaining - n]
<1> DEFINE reached == {n \in 1..remaining : \A i \in 1..n : DOMAIN next[remaining - i] # {}}
           keys == UNION {DOMAIN next[r] : r \in Remaining}
           Has(i) == DOMAIN next[remaining - i] # {}
<1>1. ks \in [1..Cardinality(reached) -> keys] /\ \A i \in reached : ks[i] \in Best(next[remaining - i])
  BY DEF Chains
<1>2. reached = {n \in 1..remaining : \A i \in 1..n : Has(i)}
  OBVIOUS
<1> HIDE DEF Has, reached, keys
<1>3. \E m \in 0..3 : reached = 1..m /\ m <= remaining
  <2>1. CASE remaining = 0
    <3>1. reached = 1..0
      BY <1>2, <2>1
    <3> QED BY <3>1
  <2>2. CASE remaining = 1
    <3>1. reached = 1..1 \/ reached = 1..0
      BY <1>2, <2>2
    <3> QED BY <2>2, <3>1
  <2>3. CASE remaining = 2
    <3>1. \A n \in 1..2 : n \in reached <=> \A i \in 1..n : Has(i)
      BY <1>2, <2>3
    <3>2. reached \subseteq 1..2
      BY <1>2, <2>3
    <3>3. 1..0 = {} /\ 1..1 = {1} /\ 1..2 = {1, 2}
      OBVIOUS
    <3>4. reached = 1..2 \/ reached = 1..1 \/ reached = 1..0
      BY <3>1, <3>2, <3>3
    <3> QED BY <2>3, <3>4
  <2>4. CASE remaining = 3
    <3>1. \A n \in 1..3 : n \in reached <=> \A i \in 1..n : Has(i)
      BY <1>2, <2>4
    <3>2. reached \subseteq 1..3
      BY <1>2, <2>4
    <3>3. 1..0 = {} /\ 1..1 = {1} /\ 1..2 = {1, 2} /\ 1..3 = {1, 2, 3}
      OBVIOUS
    <3>4. reached = 1..3 \/ reached = 1..2 \/ reached = 1..1 \/ reached = 1..0
      BY <3>1, <3>2, <3>3
    <3> QED BY <2>4, <3>4
  <2> QED BY <2>1, <2>2, <2>3, <2>4
<1>4. PICK m \in 0..3 : reached = 1..m /\ m <= remaining
  BY <1>3
<1>5. Cardinality(reached) = m
  <2>1. Cardinality(1..m) = m
    <3>1. 1 \in Int /\ m \in Int
      OBVIOUS
    <3>2. Cardinality(1..m) = IF 1 > m THEN 0 ELSE m - 1 + 1
      BY <3>1, FS_Interval, Zenon
    <3> QED BY <3>2
  <2> QED BY <1>4, <2>1
<1>6. ks \in [1..m -> keys] /\ ks \in Seq(keys) /\ Len(ks) = m
  BY <1>1, <1>5
<1>7. ASSUME NEW n \in DOMAIN ks
      PROVE  n \in Nat /\ remaining - n \in Remaining /\ ks[n] \in DOMAIN next[remaining - n]
  <2>1. n \in 1..m
    BY <1>6
  <2>2. ks[n] \in DOMAIN next[remaining - n]
    BY <1>1, <1>4, <2>1 DEF Best
  <2> QED BY <1>4, <2>1, <2>2 DEF Remaining
<1> QED BY <1>6, <1>7 DEF IsSeq

-----------------------------------------------------------------------------
(* Dropping an index, and adding a complete message.                       *)

Emptied(c, i) ==
  /\ DOMAIN c.first[i] = {} /\ DOMAIN c.second[i] = {}
  /\ \A r \in Remaining : DOMAIN c.next[i][r] = {}

Same(c, d, i) ==
  d.first[i] = c.first[i] /\ d.second[i] = c.second[i] /\ d.next[i] = c.next[i]

Drops(c, i, d) ==
  /\ Shape(d) /\ d.pending = c.pending /\ Emptied(d, i)
  /\ \A j \in ContinuityIndices \ {i} : Same(c, d, j)

LEMMA Dropping ==
  ASSUME NEW c, Shape(c), NEW i \in ContinuityIndices
  PROVE  Drops(c, i, Dropped(c, i))
<1> DEFINE d == Dropped(c, i)
           none == [r \in Remaining |-> NoParts]
<1>1. DOMAIN c = {"first", "second", "next", "pending"}
  BY DEF Shape, NewCollector
<1> HIDE DEF none
<1>2. /\ DOMAIN d = DOMAIN c /\ d.pending = c.pending
      /\ d.first = [c.first EXCEPT ![i] = NoParts]
      /\ d.second = [c.second EXCEPT ![i] = NoParts]
      /\ d.next = [c.next EXCEPT ![i] = none]
  BY <1>1 DEF Dropped, none
<1> HIDE DEF d
<1>3. /\ DOMAIN d.first = ContinuityIndices /\ DOMAIN d.second = ContinuityIndices
      /\ DOMAIN d.next = ContinuityIndices
      /\ d.first[i] = NoParts /\ d.second[i] = NoParts /\ d.next[i] = none
  BY <1>2 DEF Shape
<1>4. \A j \in ContinuityIndices \ {i} : Same(c, d, j)
  BY <1>2 DEF Shape, Same
<1>5. DOMAIN NoParts = {} /\ DOMAIN none = Remaining /\ \A r \in Remaining : none[r] = NoParts
  BY DEF NoParts, none
<1>6. \A j \in ContinuityIndices : DOMAIN d.next[j] = Remaining
  <2>1. ASSUME NEW j \in ContinuityIndices \ {i} PROVE DOMAIN d.next[j] = Remaining
    BY <1>4 DEF Same, Shape
  <2> QED BY <1>3, <1>5, <2>1
<1>7. Shape(d)
  BY <1>2, <1>3, <1>6 DEF Shape
<1>8. Emptied(d, i)
  BY <1>3, <1>5 DEF Emptied
<1>9. Drops(c, i, d)
  BY <1>2, <1>4, <1>7, <1>8 DEF Drops
<1> QED BY <1>9 DEF d

Confirmed(c, msg, check, multi) ==
  IF multi THEN [msg EXCEPT !.extra = Resized(@, Matching(c.pending[check[1]], check))]
  ELSE msg

Adds(c, msg, check, status, multi, x) ==
  /\ Shape(x.tmc)
  /\ \A j \in ContinuityIndices : Same(c, x.tmc, j)
  /\ \/ /\ status = Valid
        /\ x.said = <<msg>> /\ x.tmc.pending = Without(c.pending, check[1])
     \/ /\ check[1] \in DOMAIN c.pending
        /\ x.said = <<Confirmed(c, msg, check, multi)>>
        /\ x.tmc.pending = Without(c.pending, check[1])
     \/ /\ check[1] \notin DOMAIN c.pending
        /\ x.said = <<>> /\ x.tmc.pending = With(c.pending, check[1], check)

LEMMA Adding ==
  ASSUME NEW c, Shape(c), NEW msg, NEW check, NEW status, NEW multi
  PROVE  Adds(c, msg, check, status, multi, AddMessage(c, msg, check, status, multi))
<1> DEFINE x == AddMessage(c, msg, check, status, multi)
           announced == Confirmed(c, msg, check, multi)
           To(pending) == [c EXCEPT !.pending = pending]
<1>1. ASSUME NEW pending
      PROVE  /\ Shape(To(pending)) /\ To(pending).pending = pending
             /\ \A j \in ContinuityIndices : Same(c, To(pending), j)
  <2> DEFINE d == To(pending)
  <2>1. DOMAIN c = {"first", "second", "next", "pending"}
    BY DEF Shape, NewCollector
  <2>2. /\ DOMAIN d = DOMAIN c /\ d.pending = pending
        /\ d.first = c.first /\ d.second = c.second /\ d.next = c.next
    BY <2>1
  <2> HIDE DEF d
  <2>3. Shape(d)
    BY <2>2 DEF Shape
  <2>4. \A j \in ContinuityIndices : Same(c, d, j)
    BY <2>2 DEF Same
  <2> QED BY <2>2, <2>3, <2>4 DEF d
<1>2. \/ status = Valid /\ x = [tmc |-> To(Without(c.pending, check[1])), said |-> <<msg>>]
      \/ /\ check[1] \in DOMAIN c.pending
         /\ x = [tmc |-> To(Without(c.pending, check[1])), said |-> <<announced>>]
      \/ /\ check[1] \notin DOMAIN c.pending
         /\ x = [tmc |-> To(With(c.pending, check[1], check)), said |-> <<>>]
  BY Zenon DEF AddMessage, Confirmed
<1> HIDE DEF x, To, announced
<1>3. ASSUME NEW d, NEW s, x = [tmc |-> d, said |-> s] PROVE x.tmc = d /\ x.said = s
  BY <1>3
<1>4. Adds(c, msg, check, status, multi, x)
  <2>1. CASE status = Valid /\ x = [tmc |-> To(Without(c.pending, check[1])), said |-> <<msg>>]
    <3>1. x.tmc = To(Without(c.pending, check[1])) /\ x.said = <<msg>>
      BY <1>3, <2>1
    <3> QED BY <1>1, <2>1, <3>1 DEF Adds
  <2>2. CASE /\ check[1] \in DOMAIN c.pending
             /\ x = [tmc |-> To(Without(c.pending, check[1])), said |-> <<announced>>]
    <3>1. x.tmc = To(Without(c.pending, check[1])) /\ x.said = <<announced>>
      BY <1>3, <2>2
    <3> QED BY <1>1, <2>2, <3>1 DEF Adds, announced
  <2>3. CASE /\ check[1] \notin DOMAIN c.pending
             /\ x = [tmc |-> To(With(c.pending, check[1], check)), said |-> <<>>]
    <3>1. x.tmc = To(With(c.pending, check[1], check)) /\ x.said = <<>>
      BY <1>3, <2>3
    <3> QED BY <1>1, <2>3, <3>1 DEF Adds
  <2> QED BY <1>2, <2>1, <2>2, <2>3
<1> QED BY <1>4 DEF x

(* A check may wait when it was heard, and what is still kept of it under  *)
(* some index was heard twice.                                             *)
MayWait(c, check, ev) ==
  /\ IsSeq(check) /\ Len(check) >= 1
  /\ Bits(check[1][1], 0, 5) = 0 => What(check[1]) \in DOMAIN ev
  /\ Bits(check[1][1], 0, 5) # 0 => Spoken(check[1]) \in DOMAIN ev
  /\ \A i \in ContinuityIndices : check[1] \in DOMAIN c.first[i] => Sure(ev, What(check[1]))

LEMMA AddedEvident ==
  ASSUME NEW c, NEW ev, Evident(c, ev), NEW msg, NEW check, MayWait(c, check, ev),
         NEW status, NEW multi, NEW x, Adds(c, msg, check, status, multi, x)
  PROVE  Evident(x.tmc, ev)
<1>1. \A i \in ContinuityIndices : x.tmc.first[i] = c.first[i]
  BY DEF Adds, Same
<1>2. \/ x.tmc.pending = Without(c.pending, check[1])
      \/ x.tmc.pending = With(c.pending, check[1], check)
  BY DEF Adds
<1>3. ASSUME NEW f \in DOMAIN x.tmc.pending
      PROVE  \/ f = check[1] /\ x.tmc.pending[f] = check
             \/ f \in DOMAIN c.pending /\ x.tmc.pending[f] = c.pending[f]
  BY <1>2 DEF Without, With
<1>4. \A i \in ContinuityIndices : FirstsEvident(x.tmc.first[i], ev)
  BY <1>1 DEF Evident
<1>5. PendingEvident(x.tmc.pending, ev)
  BY <1>3 DEF Evident, PendingEvident, MayWait
<1>6. TwiceEvident(x.tmc, ev)
  <2>1. ASSUME NEW i \in ContinuityIndices, NEW f \in DOMAIN x.tmc.first[i],
               \/ f \in DOMAIN x.tmc.pending
               \/ \E j \in ContinuityIndices \ {i} : f \in DOMAIN x.tmc.first[j]
        PROVE  Sure(ev, What(f))
    <3>1. f \in DOMAIN c.first[i]
      BY <1>1
    <3>2. CASE f = check[1]
      BY <3>1, <3>2 DEF MayWait
    <3>3. CASE f # check[1]
      <4>1. \/ f \in DOMAIN c.pending
            \/ \E j \in ContinuityIndices \ {i} : f \in DOMAIN c.first[j]
        BY <1>1, <1>3, <2>1, <3>3
      <4> QED BY <3>1, <4>1 DEF Evident, TwiceEvident
    <3> QED BY <3>2, <3>3
  <2> QED BY <2>1 DEF TwiceEvident
<1> QED BY <1>4, <1>5, <1>6 DEF Evident

LEMMA DroppedCollects ==
  ASSUME NEW c, NEW on, NEW ev, Collects(c, on, ev), NEW i \in ContinuityIndices,
         NEW d, Drops(c, i, d)
  PROVE  /\ Collects(d, on, ev)
         /\ \A f \in DOMAIN c.first[i] :
              \A j \in ContinuityIndices : f \in DOMAIN d.first[j] => Sure(ev, What(f))
<1>1. /\ DOMAIN d.first[i] = {} /\ DOMAIN d.second[i] = {}
      /\ \A r \in Remaining : DOMAIN d.next[i][r] = {}
  BY DEF Drops, Emptied
<1>2. \A j \in ContinuityIndices \ {i} :
        d.first[j] = c.first[j] /\ d.second[j] = c.second[j] /\ d.next[j] = c.next[j]
  BY DEF Drops, Same
<1>3. d.pending = c.pending /\ Shape(d)
  BY DEF Drops
<1>4. \A j \in ContinuityIndices : \A f \in DOMAIN d.first[j] : j # i /\ f \in DOMAIN c.first[j]
  BY <1>1, <1>2
<1>5. \A j \in ContinuityIndices : IndexFrom(d, j, on[j])
  <2>1. IndexFrom(d, i, on[i])
    BY <1>1 DEF IndexFrom, FirstsFrom, OthersFrom
  <2>2. ASSUME NEW j \in ContinuityIndices \ {i} PROVE IndexFrom(d, j, on[j])
    <3>1. IndexFrom(c, j, on[j])
      BY DEF Collects
    <3> QED BY <1>2, <3>1 DEF IndexFrom
  <2> QED BY <2>1, <2>2
<1>6. \A j \in ContinuityIndices : FirstsEvident(d.first[j], ev)
  <2>1. FirstsEvident(d.first[i], ev)
    BY <1>1 DEF FirstsEvident
  <2>2. ASSUME NEW j \in ContinuityIndices \ {i} PROVE FirstsEvident(d.first[j], ev)
    BY <1>2 DEF Collects, Evident
  <2> QED BY <2>1, <2>2
<1>7. TwiceEvident(d, ev)
  <2>1. ASSUME NEW j \in ContinuityIndices, NEW f \in DOMAIN d.first[j],
               \/ f \in DOMAIN d.pending
               \/ \E k \in ContinuityIndices \ {j} : f \in DOMAIN d.first[k]
        PROVE  Sure(ev, What(f))
    <3>1. \/ f \in DOMAIN c.pending
          \/ \E k \in ContinuityIndices \ {j} : f \in DOMAIN c.first[k]
      BY <1>3, <1>4, <2>1
    <3> QED BY <1>4, <3>1 DEF Collects, Evident, TwiceEvident
  <2> QED BY <2>1 DEF TwiceEvident
<1>8. Evident(d, ev)
  BY <1>3, <1>6, <1>7 DEF Evident, Collects
<1>9. ASSUME NEW f \in DOMAIN c.first[i], NEW j \in ContinuityIndices, f \in DOMAIN d.first[j]
      PROVE  Sure(ev, What(f))
  <2>1. j # i /\ f \in DOMAIN c.first[j]
    BY <1>4, <1>9
  <2> QED BY <2>1 DEF Collects, Evident, TwiceEvident
<1> QED BY <1>3, <1>5, <1>8, <1>9 DEF Collects

LEMMA AddedCollects ==
  ASSUME NEW c, NEW on, NEW ev, Collects(c, on, ev), NEW msg, NEW check, MayWait(c, check, ev),
         NEW status, NEW multi, NEW x, Adds(c, msg, check, status, multi, x)
  PROVE  Collects(x.tmc, on, ev)
<1>1. Evident(x.tmc, ev)
  BY AddedEvident DEF Collects
<1>2. ASSUME NEW i \in ContinuityIndices PROVE IndexFrom(x.tmc, i, on[i])
  <2>1. IndexFrom(c, i, on[i])
    BY DEF Collects
  <2>2. Same(c, x.tmc, i)
    BY DEF Adds
  <2> QED BY <2>1, <2>2 DEF IndexFrom, Same
<1> QED BY <1>1, <1>2 DEF Collects, Adds

LEMMA TailWords ==
  ASSUME NEW a, NEW b, NEW c
  PROVE  Tail(<<a, b, c>>) = <<b, c>>
  OBVIOUS

(* All that was kept of the extra groups is from message m.                *)
LEMMA FineMulti ==
  ASSUME NEW ev, NEW f, Sure(ev, What(f)), NEW msg, msg.extra # <<>>,
         NEW low, msg.words = <<low, f[2], f[3]>>,
         NEW m \in TmcSent, \E d \in m : msg.words = <<Bits(d[1], 0, 3), d[2], d[3]>>,
         \A n \in DOMAIN msg.extra :
           \/ msg.extra[n] = <<0, 0>>
           \/ \E d \in m : msg.extra[n] = <<Bits(d[2], 0, 12), d[3]>>
  PROVE  Fine(msg, ev)
<1>1. Tail(msg.words) = What(f)
  BY TailWords DEF What
<1>2. WholeMessage(msg)
  BY DEF WholeMessage
<1> QED BY <1>1, <1>2 DEF Fine

LEMMA Listed ==
  ASSUME NEW L \in Nat, NEW s, DOMAIN s = 1..L, s = [n \in 1..L |-> s[n]]
  PROVE  IsSeq(s) /\ Len(s) = L
<1>1. s \in [1..L -> {s[n] : n \in 1..L}]
  OBVIOUS
<1>2. s \in Seq({s[n] : n \in 1..L}) /\ Len(s) = L
  BY <1>1
<1> QED BY <1>2 DEF IsSeq

-----------------------------------------------------------------------------
(* Flushing an index.                                                      *)

Flushed(c, on, ev, i, x) ==
  /\ Collects(x.tmc, on, ev) /\ AllFine(x.said, ev) /\ Emptied(x.tmc, i)
  /\ \A j \in ContinuityIndices \ {i} : Same(c, x.tmc, j)

LEMMA Assembling ==
  ASSUME NEW c, NEW on, NEW ev, NEW t, Collects(c, on, ev), Uses(on, t),
         NEW i \in ContinuityIndices, NEW f \in DOMAIN c.first[i], NEW s \in DOMAIN c.second[i],
         NEW ks \in Chains(c.next[i], c.second[i][s].remaining)
  PROVE  Flushed(c, on, ev, i, Assembled(c, i, f, s, ks))
<1> DEFINE first == c.first[i][f]
           second == c.second[i][s]
           next == [n \in DOMAIN ks |-> c.next[i][second.remaining - n][ks[n]]]
           data == [n \in DOMAIN next |-> next[n].data]
           counts == {first.count, second.count} \cup {next[n].count : n \in DOMAIN next}
           msg == [words |-> first.words, extra |-> <<second.data>> \o data,
                   total |-> second.remaining + 1]
           check == <<f, s>> \o ks
           status == IF Min(counts) >= 2 THEN Valid ELSE Corrected
           d == Dropped(c, i)
           x == Assembled(c, i, f, s, ks)
           m == on[i].groups
           From(e) == \E g \in m : e = <<Bits(g[2], 0, 12), g[3]>>
<1>1. x = AddMessage(d, msg, check, status, TRUE)
  BY DEF Assembled
<1>2. FirstsFrom(c.first[i], on[i]) /\ OthersFrom(c.second[i], on[i])
      /\ \A r \in Remaining : OthersFrom(c.next[i][r], on[i])
  BY DEF Collects, IndexFrom
<1>3. /\ first.count \in Nat /\ \E g \in m : first.words = <<Bits(g[1], 0, 3), g[2], g[3]>>
  BY <1>2 DEF FirstsFrom, Taken
<1>4. second.count \in Nat /\ second.remaining \in 0..3 /\ From(second.data)
  BY <1>2 DEF OthersFrom, Taken
<1>5. /\ IsSeq(ks) /\ DOMAIN ks = 1..Len(ks) /\ Len(ks) \in Nat
      /\ \A n \in DOMAIN ks : /\ n \in Nat /\ second.remaining - n \in Remaining
                              /\ ks[n] \in DOMAIN c.next[i][second.remaining - n]
  BY <1>4, Chained
<1>6. \A n \in DOMAIN ks : next[n].count \in Nat /\ From(next[n].data)
  BY <1>2, <1>5 DEF OthersFrom, Taken
<1>7. m \in TmcSent
  BY <1>3 DEF Uses
<1>8. DOMAIN next = DOMAIN ks
  OBVIOUS
<1> HIDE DEF first, second, next, m, From
<1>9. IsSeq(data) /\ Len(data) = Len(ks) /\ \A n \in 1..Len(ks) : data[n] = next[n].data
  <2>1. DOMAIN data = 1..Len(ks)
    BY <1>5, <1>8
  <2>2. data = [n \in 1..Len(ks) |-> data[n]]
    BY <1>5, <1>8
  <2>3. \A n \in 1..Len(ks) : data[n] = next[n].data
    BY <1>5, <1>8
  <2> HIDE DEF data
  <2> QED BY <1>5, <2>1, <2>2, <2>3, Listed
<1>10. counts \subseteq Nat /\ counts # {} /\ first.count \in counts
  BY <1>3, <1>4, <1>6, <1>8
<1>11. status = Valid => first.count >= 2
  <2> HIDE DEF counts
  <2>1. Min(counts) \in Nat /\ Min(counts) <= first.count
    BY <1>10, SmallestOf
  <2> QED BY <1>3, <2>1 DEF Valid, Corrected
<1> DEFINE extra == <<second.data>> \o data
<1> HIDE DEF data, counts, status
<1>12. /\ IsSeq(extra) /\ Len(extra) = 1 + Len(ks) /\ \A n \in 1..Len(extra) : From(extra[n])
  <2> DEFINE one == <<second.data>>
  <2>1. IsSeq(one) /\ Len(one) = 1 /\ one[1] = second.data
    BY TuplesAre
  <2> HIDE DEF one
  <2>2. /\ IsSeq(one \o data) /\ Len(one \o data) = 1 + Len(data)
        /\ \A k \in 1..Len(one) : (one \o data)[k] = one[k]
        /\ \A k \in 1..Len(data) : (one \o data)[1 + k] = data[k]
    <3>1. IsSeq(one) /\ IsSeq(data)
      BY <1>9, <2>1
    <3>2. /\ IsSeq(one \o data) /\ Len(one \o data) = Len(one) + Len(data)
          /\ \A k \in 1..Len(one) : (one \o data)[k] = one[k]
          /\ \A k \in 1..Len(data) : (one \o data)[Len(one) + k] = data[k]
      BY <3>1, Joined
    <3> QED BY <2>1, <3>2
  <2>3. extra = one \o data
    BY DEF one
  <2> HIDE DEF extra
  <2>4. ASSUME NEW n \in 1..Len(extra) PROVE From(extra[n])
    <3>1. CASE n = 1
      BY <1>4, <2>1, <2>2, <2>3, <3>1
    <3>2. CASE n # 1
      <4>1. n - 1 \in 1..Len(ks) /\ 1 + (n - 1) = n
        BY <1>5, <1>9, <2>2, <2>3, <3>2
      <4>2. extra[n] = next[n - 1].data
        BY <1>9, <2>2, <2>3, <4>1
      <4>3. From(next[n - 1].data)
        BY <1>5, <1>6, <4>1
      <4> QED BY <4>2, <4>3
    <3> QED BY <3>1, <3>2
  <2> QED BY <1>9, <2>2, <2>3, <2>4
<1>13. msg.words = first.words /\ msg.extra = extra /\ DOMAIN msg = {"words", "extra", "total"}
  OBVIOUS
<1> HIDE DEF extra, msg
<1>14. IsSeq(check) /\ Len(check) >= 1 /\ check[1] = f
  <2> DEFINE two == <<f, s>>
  <2>1. IsSeq(two) /\ Len(two) = 2 /\ two[1] = f
    BY TuplesAre
  <2> HIDE DEF two
  <2>2. /\ IsSeq(two \o ks) /\ Len(two \o ks) = 2 + Len(ks)
        /\ \A k \in 1..Len(two) : (two \o ks)[k] = two[k]
    <3>1. IsSeq(two) /\ IsSeq(ks)
      BY <1>5, <2>1
    <3>2. /\ IsSeq(two \o ks) /\ Len(two \o ks) = Len(two) + Len(ks)
          /\ \A k \in 1..Len(two) : (two \o ks)[k] = two[k]
      BY <3>1, Joined
    <3> QED BY <2>1, <3>2
  <2>3. (two \o ks)[1] = f /\ Len(two \o ks) >= 1
    BY <1>5, <2>1, <2>2
  <2> QED BY <2>2, <2>3 DEF two
<1> HIDE DEF check, d
<1>15. Drops(c, i, d)
  BY Dropping DEF Collects, d
<1>16. Collects(d, on, ev) /\ \A j \in ContinuityIndices : f \in DOMAIN d.first[j] => Sure(ev, What(f))
  BY <1>15, DroppedCollects
<1>17. /\ Bits(f[1], 0, 5) = 0 /\ What(f) \in DOMAIN ev /\ (first.count >= 2 => Sure(ev, What(f)))
       /\ \E low : first.words = <<low, f[2], f[3]>>
  BY DEF Collects, Evident, FirstsEvident, first
<1>18. MayWait(d, check, ev)
  BY <1>14, <1>16, <1>17 DEF MayWait
<1>19. Adds(d, msg, check, status, TRUE, x)
  BY <1>1, <1>16, Adding DEF Collects
<1> SUFFICES Flushed(c, on, ev, i, x)
  OBVIOUS
<1> HIDE DEF x
<1>20. Collects(x.tmc, on, ev)
  BY <1>16, <1>18, <1>19, AddedCollects
<1>21. Emptied(x.tmc, i) /\ \A j \in ContinuityIndices \ {i} : Same(c, x.tmc, j)
  <2>1. \A j \in ContinuityIndices : Same(d, x.tmc, j)
    BY <1>19 DEF Adds
  <2>2. Emptied(d, i) /\ \A j \in ContinuityIndices \ {i} : Same(c, d, j)
    BY <1>15 DEF Drops
  <2> QED BY <2>1, <2>2 DEF Emptied, Same
<1>22. PICK low : first.words = <<low, f[2], f[3]>>
  BY <1>17
<1>23. PICK g \in m : first.words = <<Bits(g[1], 0, 3), g[2], g[3]>>
  BY <1>3
<1>24. CASE status = Valid /\ x.said = <<msg>>
  <2>1. msg.extra # <<>> /\ DOMAIN msg.extra = 1..Len(extra)
    <3>1. Len(<<>>) = 0
      OBVIOUS
    <3>2. Len(extra) >= 1 /\ DOMAIN extra = 1..Len(extra)
      BY <1>5, <1>12 DEF IsSeq
    <3> QED BY <1>13, <3>1, <3>2
  <2>2. Fine(msg, ev)
    <3>1. Sure(ev, What(f))
      BY <1>11, <1>17, <1>24
    <3>2. \A n \in DOMAIN msg.extra : \E y \in m : msg.extra[n] = <<Bits(y[2], 0, 12), y[3]>>
      BY <1>12, <1>13, <2>1 DEF From
    <3> QED BY <1>7, <1>13, <1>22, <1>23, <2>1, <3>1, <3>2, FineMulti
  <2>3. AllFine(x.said, ev)
    <3>1. AllFine(<<msg>>, ev)
      BY <2>2, FineOne
    <3> QED BY <1>24, <3>1
  <2> QED BY <1>20, <1>21, <2>3 DEF Flushed
<1>25. CASE f \in DOMAIN d.pending /\ x.said = <<Confirmed(d, msg, check, TRUE)>>
  <2> DEFINE k == Matching(d.pending[f], check)
             confirmed == Confirmed(d, msg, check, TRUE)
  <2>1. k \in Nat /\ k >= 1
    <3>1. IsSeq(d.pending[f]) /\ Len(d.pending[f]) >= 1
      BY <1>16, <1>25 DEF Collects, Evident, PendingEvident
    <3> QED BY <1>14, <3>1, MatchingOne
  <2>2. confirmed.words = first.words /\ confirmed.extra = Resized(extra, k)
    BY <1>13, <1>14 DEF Confirmed
  <2> HIDE DEF k, confirmed
  <2>3. /\ Resized(extra, k) # <<>>
        /\ Resized(extra, k) = [n \in 1..k |-> IF n <= Len(extra) THEN extra[n] ELSE <<0, 0>>]
    BY <1>12, <2>1, NotEmpty
  <2>4. ASSUME NEW n \in DOMAIN confirmed.extra
        PROVE  \/ confirmed.extra[n] = <<0, 0>>
               \/ \E y \in m : confirmed.extra[n] = <<Bits(y[2], 0, 12), y[3]>>
    <3>1. n \in 1..k /\ confirmed.extra[n] = IF n <= Len(extra) THEN extra[n] ELSE <<0, 0>>
      BY <2>2, <2>3
    <3>2. n <= Len(extra) => n \in 1..Len(extra)
      BY <1>5, <1>12, <2>1, <3>1
    <3> QED BY <1>12, <3>1, <3>2 DEF From
  <2>5. Sure(ev, What(f))
    <3>1. f \in DOMAIN c.pending
      BY <1>15, <1>25 DEF Drops
    <3> QED BY <3>1 DEF Collects, Evident, TwiceEvident
  <2>6. Fine(confirmed, ev)
    BY <1>7, <1>22, <1>23, <2>2, <2>3, <2>4, <2>5, FineMulti
  <2>7. x.said = <<confirmed>>
    BY <1>25 DEF confirmed
  <2>8. AllFine(<<confirmed>>, ev)
    BY <2>6, FineOne
  <2>9. AllFine(x.said, ev)
    BY <2>7, <2>8
  <2> QED BY <1>20, <1>21, <2>9 DEF Flushed
<1>26. CASE x.said = <<>>
  <2>1. AllFine(<<>>, ev)
    BY FineOne
  <2>2. AllFine(x.said, ev)
    BY <1>26, <2>1
  <2> QED BY <1>20, <1>21, <2>2 DEF Flushed
<1> QED
  <2>1. \/ status = Valid /\ x.said = <<msg>>
        \/ check[1] \in DOMAIN d.pending /\ x.said = <<Confirmed(d, msg, check, TRUE)>>
        \/ x.said = <<>>
    BY <1>19, Zenon DEF Adds
  <2>2. check[1] \in DOMAIN d.pending => f \in DOMAIN d.pending
    BY <1>14
  <2> QED BY <1>24, <1>25, <1>26, <2>1, <2>2

LEMMA Flushing ==
  ASSUME NEW c, NEW on, NEW ev, NEW t, Collects(c, on, ev), Uses(on, t),
         NEW i \in ContinuityIndices, NEW x \in Flushes(c, i)
  PROVE  Flushed(c, on, ev, i, x)
<1>1. \/ x = [tmc |-> Dropped(c, i), said |-> <<>>]
      \/ \E f \in DOMAIN c.first[i], s \in DOMAIN c.second[i] :
           \E ks \in Chains(c.next[i], c.second[i][s].remaining) : x = Assembled(c, i, f, s, ks)
  BY DEF Flushes, Best
<1>2. CASE x = [tmc |-> Dropped(c, i), said |-> <<>>]
  <2> DEFINE d == Dropped(c, i)
  <2>1. Drops(c, i, d)
    BY Dropping DEF Collects
  <2>2. x.tmc = d /\ x.said = <<>>
    BY <1>2
  <2> HIDE DEF d
  <2>3. Collects(d, on, ev)
    BY <2>1, DroppedCollects
  <2> QED BY <2>1, <2>2, <2>3, FineOne DEF Flushed, Drops
<1> QED BY <1>1, <1>2, Assembling

LEMMA ExpiredIs ==
  ASSUME NEW c, NEW i, NEW t
  PROVE  TmcExpired(c, i, t) <=>
           \/ \E k \in DOMAIN c.first[i] : t - c.first[i][k].timestamp > TmcImmediateTimeout
           \/ \E k \in DOMAIN c.second[i] : t - c.second[i][k].timestamp > TmcImmediateTimeout
           \/ \E r \in Remaining : \E k \in DOMAIN c.next[i][r] :
                t - c.next[i][r][k].timestamp > TmcImmediateTimeout
<1> DEFINE Old(parts) == \E k \in DOMAIN parts : t - parts[k].timestamp > TmcImmediateTimeout
<1>1. TmcExpired(c, i, t) <=>
        \E parts \in {c.first[i], c.second[i]} \cup {c.next[i][r] : r \in Remaining} : Old(parts)
  BY DEF TmcExpired
<1> HIDE DEF Old
<1>2. TmcExpired(c, i, t) <=>
        Old(c.first[i]) \/ Old(c.second[i]) \/ \E r \in Remaining : Old(c.next[i][r])
  BY <1>1
<1> QED BY <1>2 DEF Old

LEMMA ExpiredKept ==
  ASSUME NEW c, NEW d, NEW i, NEW t
  PROVE  /\ Emptied(c, i) => ~TmcExpired(c, i, t)
         /\ Same(c, d, i) /\ TmcExpired(d, i, t) => TmcExpired(c, i, t)
  BY ExpiredIs DEF Emptied, Same

(* After all indices, nothing that is too old is kept.                     *)
LEMMA ClearCollects ==
  ASSUME NEW c, NEW on, NEW ev, NEW u, Collects(c, on, ev), Uses(on, u),
         NEW everything, NEW t, NEW x \in ClearTmc(c, everything, t)
  PROVE  /\ Collects(x.tmc, on, ev) /\ AllFine(x.said, ev)
         /\ \A i \in ContinuityIndices : ~TmcExpired(x.tmc, i, t)
<1>1. PICK F : Clears(F, c, everything, t)
  BY Clearing
<1> DEFINE Fit(o, n) == /\ Collects(o.tmc, on, ev) /\ AllFine(o.said, ev)
                        /\ \A j \in ContinuityIndices : j < n => ~TmcExpired(o.tmc, j, t)
           Good(n) == \A o \in F[n] : Fit(o, n)
<1>2. Good(0)
  <2>1. ASSUME NEW o \in F[0] PROVE Fit(o, 0)
    <3>1. o = [tmc |-> c, said |-> <<>>]
      BY <1>1, <2>1 DEF Clears
    <3>2. o.tmc = c /\ o.said = <<>>
      BY <3>1
    <3>3. AllFine(<<>>, ev)
      BY FineOne
    <3>4. AllFine(o.said, ev)
      BY <3>2, <3>3
    <3>5. \A j \in ContinuityIndices : ~(j < 0)
      BY DEF ContinuityIndices
    <3> QED BY <3>2, <3>4, <3>5
  <2> QED BY <2>1
<1>3. ASSUME NEW i \in 0..5, Good(i) PROVE Good(i + 1)
  <2>0. i \in ContinuityIndices
    BY DEF ContinuityIndices
  <2>1. ASSUME NEW n \in F[i + 1] PROVE Fit(n, i + 1)
    <3>1. PICK o \in F[i] : n \in ClearedAt(o, i, everything, t)
      <4>1. F[i + 1] = UNION {ClearedAt(o, i, everything, t) : o \in F[i]}
        BY <1>1, Zenon DEF Clears
      <4>2. n \in UNION {ClearedAt(o, i, everything, t) : o \in F[i]}
        BY <2>1, <4>1
      <4> QED BY <4>2
    <3>2. Fit(o, i)
      BY <1>3
    <3>3. CASE everything \/ TmcExpired(o.tmc, i, t)
      <4>1. PICK f \in Flushes(o.tmc, i) : n = [tmc |-> f.tmc, said |-> o.said \o f.said]
        BY <3>1, <3>3, Zenon DEF ClearedAt
      <4>2. n.tmc = f.tmc /\ n.said = o.said \o f.said
        BY <4>1
      <4>3. Flushed(o.tmc, on, ev, i, f)
        BY <2>0, <3>2, Flushing
      <4>4. AllFine(o.said \o f.said, ev)
        BY <3>2, <4>3, FineJoined DEF Flushed
      <4>5. AllFine(n.said, ev)
        BY <4>2, <4>4
      <4>6. ASSUME NEW j \in ContinuityIndices, j < i + 1 PROVE ~TmcExpired(f.tmc, j, t)
        <5>1. CASE j = i
          BY <4>3, <5>1, ExpiredKept DEF Flushed
        <5>2. CASE j # i
          <6>1. j < i
            BY <4>6, <5>2 DEF ContinuityIndices
          <6>2. Same(o.tmc, f.tmc, j)
            BY <4>3, <5>2 DEF Flushed
          <6> QED BY <3>2, <6>1, <6>2, ExpiredKept
        <5> QED BY <5>1, <5>2
      <4>7. Collects(n.tmc, on, ev)
        BY <4>2, <4>3 DEF Flushed
      <4> QED BY <4>2, <4>5, <4>6, <4>7
    <3>4. CASE ~(everything \/ TmcExpired(o.tmc, i, t))
      <4>1. n = o
        BY <3>1, <3>4, Zenon DEF ClearedAt
      <4>2. \A j \in ContinuityIndices : j < i + 1 => j < i \/ j = i
        BY DEF ContinuityIndices
      <4> QED BY <3>2, <3>4, <4>1, <4>2
    <3> QED BY <3>3, <3>4
  <2> QED BY <2>1
<1> HIDE DEF Good
<1>4. Good(6)
  <2>1. Good(1)
    BY <1>2, <1>3
  <2>2. Good(2)
    BY <1>3, <2>1
  <2>3. Good(3)
    BY <1>3, <2>2
  <2>4. Good(4)
    BY <1>3, <2>3
  <2>5. Good(5)
    BY <1>3, <2>4
  <2> QED BY <1>3, <2>5
<1>5. Fit(x, 6)
  BY <1>1, <1>4 DEF Good, Clears
<1> QED BY <1>5 DEF ContinuityIndices

(* An index may be used for another message when nothing is kept for it.   *)
LEMMA NothingOld ==
  ASSUME NEW c, NEW i \in ContinuityIndices, NEW t \in Nat, ~TmcExpired(c, i, t),
         NEW use, use.time \in Nat, t - use.time > TmcImmediateTimeout, IndexFrom(c, i, use)
  PROVE  Emptied(c, i)
<1>1. ASSUME NEW part, Taken(part, use) PROVE t - part.timestamp > TmcImmediateTimeout
  BY <1>1, TmcTimeoutAssumption DEF Taken
<1>2. /\ \A k \in DOMAIN c.first[i] : Taken(c.first[i][k], use)
      /\ \A k \in DOMAIN c.second[i] : Taken(c.second[i][k], use)
      /\ \A r \in Remaining : \A k \in DOMAIN c.next[i][r] : Taken(c.next[i][r][k], use)
  BY DEF IndexFrom, FirstsFrom, OthersFrom
<1>3. DOMAIN c.first[i] = {}
  BY <1>1, <1>2, ExpiredIs
<1>4. DOMAIN c.second[i] = {}
  BY <1>1, <1>2, ExpiredIs
<1>5. \A r \in Remaining : DOMAIN c.next[i][r] = {}
  BY <1>1, <1>2, ExpiredIs
<1> QED BY <1>3, <1>4, <1>5 DEF Emptied

UsedFor(on, i, use) == [on EXCEPT ![i] = use]

LEMMA UsesLater ==
  ASSUME NEW on, NEW t \in Nat, NEW u \in Nat, t <= u, Uses(on, t)
  PROVE  Uses(on, u)
BY DEF Uses

LEMMA IndexUsed ==
  ASSUME NEW c, NEW on, NEW ev, NEW t \in Nat, NEW u \in Nat, t <= u,
         Collects(c, on, ev), Uses(on, t),
         \A i \in ContinuityIndices : ~TmcExpired(c, i, t),
         NEW m \in TmcSent, NEW i,
         i \in ContinuityIndices =>
           on[i].groups \in {m, {}} \/ t - on[i].time > TmcImmediateTimeout
  PROVE  LET after == UsedFor(on, i, [groups |-> m, time |-> u])
         IN Collects(c, after, ev) /\ Uses(after, u)
<1> DEFINE use == [groups |-> m, time |-> u]
           after == UsedFor(on, i, use)
<1>0. use.groups = m /\ use.time = u
  OBVIOUS
<1> HIDE DEF use
<1>1. /\ DOMAIN after = ContinuityIndices
      /\ \A j \in ContinuityIndices : after[j] = IF j = i THEN use ELSE on[j]
  BY DEF Uses, UsedFor
<1> HIDE DEF after
<1>2. Uses(after, u)
  BY <1>0, <1>1, UsesLater DEF Uses
<1>3. ASSUME NEW j \in ContinuityIndices PROVE IndexFrom(c, j, after[j])
  <2>1. IndexFrom(c, j, on[j])
    BY DEF Collects
  <2>2. CASE j # i
    BY <1>1, <2>1, <2>2
  <2>3. CASE j = i
    <3>1. /\ on[j].time \in Nat /\ on[j].time <= t /\ after[j] = use
          /\ on[j].time <= use.time
      BY <1>0, <1>1, <2>3 DEF Uses
    <3>2. CASE t - on[j].time > TmcImmediateTimeout
      <4>1. Emptied(c, j)
        BY <2>1, <3>1, <3>2, NothingOld
      <4> QED BY <4>1 DEF Emptied, IndexFrom, FirstsFrom, OthersFrom
    <3>3. CASE on[j].groups \in {m, {}}
      <4>1. \A part : Taken(part, on[j]) => Taken(part, use)
        BY <1>0, <3>1 DEF Taken
      <4>2. on[j].groups \subseteq use.groups
        BY <1>0, <3>3
      <4> QED BY <2>1, <3>1, <4>1, <4>2 DEF IndexFrom, FirstsFrom, OthersFrom
    <3> QED BY <2>3, <3>2, <3>3
  <2> QED BY <2>2, <2>3
<1>4. Collects(c, after, ev)
  BY <1>3 DEF Collects
<1> QED BY <1>2, <1>4 DEF after, use

-----------------------------------------------------------------------------
(* A group of a message is kept.                                           *)

HeardAs(ev, k, certain) == With(ev, k, IF k \in DOMAIN ev \/ certain THEN 2 ELSE 1)

LEMMA HeardMore ==
  ASSUME NEW ev, NEW k, NEW certain
  PROVE  LET later == HeardAs(ev, k, certain)
         IN /\ Grows(ev, later) /\ k \in DOMAIN later
            /\ k \in DOMAIN ev \/ certain => Sure(later, k)
<1> DEFINE later == HeardAs(ev, k, certain)
<1>1. /\ DOMAIN later = DOMAIN ev \cup {k}
      /\ later[k] = IF k \in DOMAIN ev \/ certain THEN 2 ELSE 1
      /\ \A j \in DOMAIN ev : j # k => later[j] = ev[j]
  BY DEF HeardAs, With
<1> HIDE DEF later
<1>2. Grows(ev, later)
  BY <1>1 DEF Grows
<1>3. k \in DOMAIN ev \/ certain => Sure(later, k)
  BY <1>1 DEF Sure
<1> QED BY <1>1, <1>2, <1>3 DEF later

(* What a part says is heard now, and it was heard again or for certain    *)
(* when more than one is counted.                                          *)
IsHeard(ev, later, parts, key, part) ==
  /\ Grows(ev, later)
  /\ Bits(key[1], 0, 5) = 0
  /\ What(key) \in DOMAIN later
  /\ What(key) \in DOMAIN ev => Sure(later, What(key))
  /\ part.count >= 2 /\ key \notin DOMAIN parts => Sure(later, What(key))

LEMMA FirstKept ==
  ASSUME NEW c, NEW on, NEW ev, NEW later, Collects(c, on, ev), NEW i \in ContinuityIndices,
         NEW key, NEW part, IsHeard(ev, later, c.first[i], key, part),
         Taken(part, on[i]), \E low : part.words = <<low, key[2], key[3]>>,
         \E d \in on[i].groups : part.words = <<Bits(d[1], 0, 3), d[2], d[3]>>
  PROVE  Collects([c EXCEPT !.first[i] = With(c.first[i], key, part)], on, later)
<1> DEFINE d == [c EXCEPT !.first[i] = With(c.first[i], key, part)]
<1>1. DOMAIN c = {"first", "second", "next", "pending"} /\ Shape(c)
  BY DEF Collects, Shape, NewCollector
<1>2. /\ DOMAIN d = DOMAIN c /\ d.pending = c.pending /\ d.second = c.second /\ d.next = c.next
      /\ d.first = [c.first EXCEPT ![i] = With(c.first[i], key, part)]
  BY <1>1
<1> SUFFICES Collects(d, on, later)
  OBVIOUS
<1> HIDE DEF d
<1>3. /\ DOMAIN d.first = ContinuityIndices
      /\ DOMAIN d.first[i] = DOMAIN c.first[i] \cup {key} /\ d.first[i][key] = part
      /\ \A f \in DOMAIN c.first[i] : f # key => d.first[i][f] = c.first[i][f]
      /\ \A j \in ContinuityIndices : j # i => d.first[j] = c.first[j]
  BY <1>1, <1>2 DEF Shape, With
<1>4. Shape(d)
  BY <1>1, <1>2, <1>3 DEF Shape
<1>5. Collects(c, on, later)
  BY CollectsMore DEF IsHeard
<1>6. What(key) \in DOMAIN ev => Sure(later, What(key))
  BY DEF IsHeard
<1>7. ASSUME NEW j \in ContinuityIndices, key \in DOMAIN c.first[j] PROVE Sure(later, What(key))
  BY <1>6, <1>7 DEF Collects, Evident, FirstsEvident
<1>8. key \in DOMAIN c.pending => Sure(later, What(key))
  <2>1. Bits(key[1], 0, 5) = 0
    BY DEF IsHeard
  <2> QED BY <1>6, <2>1 DEF Collects, Evident, PendingEvident
<1>9. FirstsEvident(d.first[i], later)
  <2>1. FirstsEvident(c.first[i], later)
    BY <1>5 DEF Collects, Evident
  <2>2. part.count >= 2 => Sure(later, What(key))
    BY <1>7 DEF IsHeard
  <2>3. Bits(key[1], 0, 5) = 0 /\ What(key) \in DOMAIN later
    BY DEF IsHeard
  <2> QED BY <1>3, <2>1, <2>2, <2>3 DEF FirstsEvident
<1>10. \A j \in ContinuityIndices : FirstsEvident(d.first[j], later)
  BY <1>3, <1>5, <1>9 DEF Collects, Evident
<1>11. TwiceEvident(d, later)
  <2>1. ASSUME NEW j \in ContinuityIndices, NEW f \in DOMAIN d.first[j],
               \/ f \in DOMAIN d.pending
               \/ \E k \in ContinuityIndices \ {j} : f \in DOMAIN d.first[k]
        PROVE  Sure(later, What(f))
    <3>1. \A k \in ContinuityIndices : f # key /\ f \in DOMAIN d.first[k] => f \in DOMAIN c.first[k]
      BY <1>3
    <3>2. CASE f # key
      BY <1>2, <1>5, <2>1, <3>1, <3>2 DEF Collects, Evident, TwiceEvident
    <3>3. CASE f = key
      <4>1. CASE f \in DOMAIN d.pending
        BY <1>2, <1>8, <3>3, <4>1
      <4>2. CASE \E k \in ContinuityIndices \ {j} : f \in DOMAIN d.first[k]
        <5>1. PICK k \in ContinuityIndices \ {j} : key \in DOMAIN d.first[k]
          BY <3>3, <4>2
        <5>2. \E n \in ContinuityIndices : key \in DOMAIN c.first[n]
          <6>1. CASE k # i
            BY <1>3, <5>1, <6>1
          <6>2. CASE k = i
            BY <1>3, <2>1, <3>3, <5>1, <6>2
          <6> QED BY <6>1, <6>2
        <5> QED BY <1>7, <3>3, <5>2
      <4> QED BY <2>1, <4>1, <4>2
    <3> QED BY <3>2, <3>3
  <2> QED BY <2>1 DEF TwiceEvident
<1>12. Evident(d, later)
  BY <1>2, <1>5, <1>10, <1>11 DEF Collects, Evident
<1>13. ASSUME NEW j \in ContinuityIndices PROVE IndexFrom(d, j, on[j])
  <2>1. IndexFrom(c, j, on[j])
    BY DEF Collects
  <2>2. FirstsFrom(d.first[j], on[j])
    BY <1>3, <2>1 DEF IndexFrom, FirstsFrom
  <2> QED BY <1>2, <2>1, <2>2 DEF IndexFrom
<1> QED BY <1>4, <1>12, <1>13 DEF Collects

(* One more of the groups that follow: nothing else changes.               *)
LEMMA OthersKept ==
  ASSUME NEW c, NEW on, NEW ev, NEW later, Collects(c, on, ev), Grows(ev, later),
         NEW d, Shape(d), d.first = c.first, d.pending = c.pending,
         \A i \in ContinuityIndices :
           /\ OthersFrom(d.second[i], on[i])
           /\ \A r \in Remaining : OthersFrom(d.next[i][r], on[i])
  PROVE  Collects(d, on, later)
<1>1. Collects(c, on, later)
  BY CollectsMore
<1>2. Evident(d, later)
  BY <1>1 DEF Collects, Evident, TwiceEvident
<1>3. ASSUME NEW i \in ContinuityIndices PROVE IndexFrom(d, i, on[i])
  <2>1. IndexFrom(c, i, on[i])
    BY DEF Collects
  <2> QED BY <2>1 DEF IndexFrom
<1> QED BY <1>2, <1>3 DEF Collects

MayFollow(part, use) ==
  /\ Taken(part, use) /\ part.remaining \in 0..3
  /\ \E d \in use.groups : part.data = <<Bits(d[2], 0, 12), d[3]>>

LEMMA OneMore ==
  ASSUME NEW parts, NEW use, OthersFrom(parts, use), NEW key, NEW part, MayFollow(part, use)
  PROVE  OthersFrom(With(parts, key, part), use)
  BY DEF OthersFrom, MayFollow, With

LEMMA SecondKept ==
  ASSUME NEW c, NEW on, NEW ev, NEW later, Collects(c, on, ev), Grows(ev, later),
         NEW i \in ContinuityIndices, NEW key, NEW part, MayFollow(part, on[i])
  PROVE  Collects([c EXCEPT !.second[i] = With(c.second[i], key, part)], on, later)
<1> DEFINE d == [c EXCEPT !.second[i] = With(c.second[i], key, part)]
           parts == With(c.second[i], key, part)
<1>1. DOMAIN c = {"first", "second", "next", "pending"} /\ Shape(c)
  BY DEF Collects, Shape, NewCollector
<1>2. \A j \in ContinuityIndices :
        OthersFrom(c.second[j], on[j]) /\ \A r \in Remaining : OthersFrom(c.next[j][r], on[j])
  BY DEF Collects, IndexFrom
<1>3. OthersFrom(parts, on[i])
  BY <1>2, OneMore
<1> HIDE DEF parts
<1>4. /\ DOMAIN d = DOMAIN c /\ d.pending = c.pending /\ d.first = c.first /\ d.next = c.next
      /\ d.second = [c.second EXCEPT ![i] = parts]
  BY <1>1 DEF parts
<1> SUFFICES Collects(d, on, later)
  OBVIOUS
<1> HIDE DEF d
<1>5. Shape(d)
  BY <1>1, <1>4 DEF Shape
<1>6. ASSUME NEW j \in ContinuityIndices PROVE OthersFrom(d.second[j], on[j])
  BY <1>1, <1>2, <1>3, <1>4 DEF Shape
<1> QED BY <1>2, <1>4, <1>5, <1>6, OthersKept

LEMMA NextKept ==
  ASSUME NEW c, NEW on, NEW ev, NEW later, Collects(c, on, ev), Grows(ev, later),
         NEW i \in ContinuityIndices, NEW r, NEW key, NEW part, r \in Remaining => MayFollow(part, on[i])
  PROVE  Collects([c EXCEPT !.next[i][r] = With(c.next[i][r], key, part)], on, later)
<1> DEFINE d == [c EXCEPT !.next[i][r] = With(c.next[i][r], key, part)]
           parts == With(c.next[i][r], key, part)
           groups == [c.next[i] EXCEPT ![r] = parts]
<1>1. DOMAIN c = {"first", "second", "next", "pending"} /\ Shape(c)
  BY DEF Collects, Shape, NewCollector
<1>2. \A j \in ContinuityIndices :
        OthersFrom(c.second[j], on[j]) /\ \A n \in Remaining : OthersFrom(c.next[j][n], on[j])
  BY DEF Collects, IndexFrom
<1>3. r \in Remaining => OthersFrom(parts, on[i])
  BY <1>2, OneMore
<1>4. d = [c EXCEPT !.next = [c.next EXCEPT ![i] = groups]]
  OBVIOUS
<1> HIDE DEF d, groups
<1>5. /\ DOMAIN d = DOMAIN c /\ d.pending = c.pending /\ d.first = c.first /\ d.second = c.second
      /\ d.next = [c.next EXCEPT ![i] = groups]
  BY <1>1, <1>4
<1> SUFFICES Collects(d, on, later)
  BY DEF d
<1> HIDE DEF parts
<1>6. /\ DOMAIN groups = Remaining
      /\ \A n \in Remaining : groups[n] = IF n = r THEN parts ELSE c.next[i][n]
  BY <1>1 DEF Shape, groups
<1>7. /\ DOMAIN d.next = ContinuityIndices /\ d.next[i] = groups
      /\ \A j \in ContinuityIndices : j # i => d.next[j] = c.next[j]
  BY <1>1, <1>5 DEF Shape
<1>8. Shape(d)
  BY <1>1, <1>5, <1>6, <1>7 DEF Shape
<1>9. ASSUME NEW j \in ContinuityIndices, NEW n \in Remaining
      PROVE  OthersFrom(d.next[j][n], on[j])
  <2>1. CASE j # i
    BY <1>2, <1>7, <2>1
  <2>2. CASE j = i /\ n # r
    BY <1>2, <1>6, <1>7, <2>2
  <2>3. CASE j = i /\ n = r
    BY <1>3, <1>6, <1>7, <2>3
  <2> QED BY <2>1, <2>2, <2>3
<1> QED BY <1>2, <1>5, <1>8, <1>9, OthersKept

-----------------------------------------------------------------------------
(* A group is processed.                                                   *)

LEMMA StatusOf ==
  ASSUME NEW g \in Groups
  PROVE  GroupStatus(g) \in 0..2
<1>1. g.status[1] \in 0..2 /\ g.status[2] \in 0..2 /\ g.status[3] \in 0..2
  BY DEF Groups, Uncorrectable, Corrected, Valid
<1> DEFINE a == g.status[1]
           b == g.status[2]
           c == g.status[3]
<1>2. a \in 0..2 /\ b \in 0..2 /\ c \in 0..2
  BY <1>1
<1> HIDE DEF a, b, c
<1>3. Min({a, b, c}) \in {a, b, c}
  BY <1>2, MinThree
<1>4. Min({a, b, c}) \in 0..2
  BY <1>2, <1>3
<1> QED BY <1>4 DEF GroupStatus, a, b, c

LEMMA WordsOf ==
  ASSUME NEW g \in Groups
  PROVE  g.data[1] \in Nat /\ g.data[2] \in Nat /\ g.data[3] \in Nat
  BY GroupWords DEF Words

LEMMA IndexOf ==
  ASSUME NEW d \in Nat, Bits(d, 0, 5) \in 1..6
  PROVE  /\ Bits(d, 0, 3) - 1 \in ContinuityIndices
         /\ Bits(d - Bits(d, 0, 3), 0, 5) = 0
<1>1. Bits(d, 0, 5) = d % 32 /\ Bits(d, 0, 3) = d % 8
  BY LowBits
<1>2. d % 8 = d % 32
  BY <1>1
<1>3. d - (d % 8) \in Nat /\ (d - (d % 8)) % 32 = 0
  BY <1>1, <1>2
<1>4. Bits(d - (d % 8), 0, 5) = (d - (d % 8)) % 32
  BY <1>3, LowBits
<1> DEFINE low == Bits(d, 0, 3)
<1>5. low = d % 8
  BY <1>1
<1> HIDE DEF low
<1>6. Bits(d - low, 0, 5) = 0
  BY <1>3, <1>4, <1>5
<1>7. low - 1 \in ContinuityIndices
  BY <1>1, <1>2, <1>5 DEF ContinuityIndices
<1> QED BY <1>6, <1>7 DEF low

CountIn(parts, key, g) ==
  (IF GroupStatus(g) = Valid THEN 2 ELSE 1) + IF key \in DOMAIN parts THEN parts[key].count ELSE 0

LEMMA Counted ==
  ASSUME NEW parts, NEW use, NEW key, NEW g,
         \A k \in DOMAIN parts : Taken(parts[k], use)
  PROVE  /\ CountIn(parts, key, g) \in Nat
         /\ CountIn(parts, key, g) >= 2 /\ key \notin DOMAIN parts => GroupStatus(g) = Valid
<1>1. key \in DOMAIN parts => parts[key].count \in Nat
  BY DEF Taken
<1> DEFINE n == parts[key].count
<1>2. CASE key \in DOMAIN parts
  <2>1. n \in Nat
    BY <1>1, <1>2
  <2> HIDE DEF n
  <2>2. CountIn(parts, key, g) = (IF GroupStatus(g) = Valid THEN 2 ELSE 1) + n
    BY <1>2 DEF CountIn, n
  <2> QED BY <1>2, <2>1, <2>2
<1>3. CASE key \notin DOMAIN parts
  BY <1>3 DEF CountIn
<1> QED BY <1>2, <1>3

LEMMA MultiCollects ==
  ASSUME NEW c, NEW on, NEW ev, NEW t \in Nat, Collects(c, on, ev), Uses(on, t),
         NEW g \in Groups, IsPart(g), g.data \in on[Index(g)].groups, on[Index(g)].time = t,
         NEW later, later = HeardAs(ev, Says(g), GroupStatus(g) = Valid),
         NEW x \in MultiGroup(c, g, t)
  PROVE  Collects(x.tmc, on, later) /\ AllFine(x.said, later)
<1> DEFINE i == Bits(g.data[1], 0, 3) - 1
           key == <<g.data[1] - Bits(g.data[1], 0, 3), g.data[2], g.data[3]>>
           remaining == Bits(g.data[2], 12, 2)
           data == <<Bits(g.data[2], 0, 12), g.data[3]>>
           Part(parts) == [timestamp |-> t, count |-> CountIn(parts, key, g),
                           data |-> data, remaining |-> remaining]
           FirstPart(parts) == [timestamp |-> t, count |-> CountIn(parts, key, g),
                                words |-> TmcWords(g)]
           first == [c EXCEPT !.first[i] = With(c.first[i], key, FirstPart(c.first[i]))]
           second == [c EXCEPT !.second[i] = With(c.second[i], key, Part(c.second[i]))]
           next == [c EXCEPT !.next[i][remaining] =
                      With(c.next[i][remaining], key, Part(c.next[i][remaining]))]
<1>1. \E kept \in {first, second, next} :
        x \in Flushes(kept, i) \/ x = [tmc |-> kept, said |-> <<>>]
  BY DEF MultiGroup, CountIn
<1>2. i \in ContinuityIndices /\ Bits(key[1], 0, 5) = 0 /\ Index(g) = i
  BY WordsOf, IndexOf DEF IsPart, Index
<1>3. Says(g) = What(key)
  <2>1. Says(g) = Tail(TmcWords(g))
    BY DEF Says
  <2>2. TmcWords(g) = <<Bits(g.data[1], 0, 3), g.data[2], g.data[3]>>
    BY DEF TmcWords
  <2>3. Tail(TmcWords(g)) = <<g.data[2], g.data[3]>>
    BY <2>2, TailWords
  <2> QED BY <2>1, <2>3 DEF What
<1>4. /\ Grows(ev, later) /\ What(key) \in DOMAIN later
      /\ What(key) \in DOMAIN ev \/ GroupStatus(g) = Valid => Sure(later, What(key))
  <2> DEFINE k == Says(g)
             certain == GroupStatus(g) = Valid
  <2>1. later = HeardAs(ev, k, certain)
    OBVIOUS
  <2> HIDE DEF k, certain
  <2>2. /\ Grows(ev, later) /\ k \in DOMAIN later
        /\ k \in DOMAIN ev \/ certain => Sure(later, k)
    BY <2>1, HeardMore
  <2>3. k = What(key)
    BY <1>3 DEF k
  <2> QED BY <2>2, <2>3 DEF certain
<1>5. remaining \in 0..3
  BY WordsOf, BitsNat
<1>6. g.data \in on[i].groups /\ on[i].time = t
  BY <1>2
<1>7. IndexFrom(c, i, on[i])
  BY <1>2 DEF Collects
<1> HIDE DEF i, remaining
<1>8. Collects(first, on, later)
  <2> DEFINE parts == c.first[i]
             part == FirstPart(parts)
  <2>1. \A k \in DOMAIN parts : Taken(parts[k], on[i])
    BY <1>7 DEF IndexFrom, FirstsFrom
  <2>2. /\ CountIn(parts, key, g) \in Nat
        /\ CountIn(parts, key, g) >= 2 /\ key \notin DOMAIN parts => GroupStatus(g) = Valid
    <3> HIDE DEF parts, key
    <3> QED BY <2>1, Counted
  <2>3. /\ part.timestamp = t /\ part.count = CountIn(parts, key, g)
        /\ part.words = <<Bits(g.data[1], 0, 3), g.data[2], g.data[3]>>
    BY DEF TmcWords
  <2>4. part.words = <<Bits(g.data[1], 0, 3), key[2], key[3]>>
    BY <2>3
  <2> HIDE DEF parts, part, key
  <2>5. Taken(part, on[i])
    BY <1>6, <2>2, <2>3 DEF Taken
  <2>6. IsHeard(ev, later, parts, key, part)
    BY <1>2, <1>4, <2>2, <2>3 DEF IsHeard
  <2>7. \E low : part.words = <<low, key[2], key[3]>>
    BY <2>4
  <2>8. \E d \in on[i].groups : part.words = <<Bits(d[1], 0, 3), d[2], d[3]>>
    BY <1>6, <2>3
  <2>9. Collects([c EXCEPT !.first[i] = With(c.first[i], key, part)], on, later)
    BY <1>2, <2>5, <2>6, <2>7, <2>8, FirstKept DEF parts
  <2> QED BY <2>9 DEF part, parts
<1>9. ASSUME NEW parts, OthersFrom(parts, on[i]) PROVE MayFollow(Part(parts), on[i])
  <2> DEFINE part == Part(parts)
  <2>1. \A k \in DOMAIN parts : Taken(parts[k], on[i])
    BY <1>9 DEF OthersFrom
  <2>2. CountIn(parts, key, g) \in Nat
    <3> HIDE DEF key
    <3> QED BY <2>1, Counted
  <2>3. /\ part.timestamp = t /\ part.count = CountIn(parts, key, g)
        /\ part.remaining = remaining /\ part.data = data
    OBVIOUS
  <2> HIDE DEF part, key
  <2> QED BY <1>5, <1>6, <2>2, <2>3 DEF MayFollow, Taken, part
<1>10. Collects(second, on, later)
  <2> DEFINE part == Part(c.second[i])
  <2>1. MayFollow(part, on[i])
    BY <1>7, <1>9 DEF IndexFrom
  <2> HIDE DEF part, key
  <2>2. Collects([c EXCEPT !.second[i] = With(c.second[i], key, part)], on, later)
    BY <1>2, <1>4, <2>1, SecondKept
  <2> QED BY <2>2 DEF part
<1>11. Collects(next, on, later)
  <2> DEFINE part == Part(c.next[i][remaining])
  <2>1. remaining \in Remaining => MayFollow(part, on[i])
    BY <1>7, <1>9 DEF IndexFrom
  <2> HIDE DEF part, key
  <2>2. Collects([c EXCEPT !.next[i][remaining] = With(c.next[i][remaining], key, part)], on, later)
    BY <1>2, <1>4, <2>1, NextKept
  <2> QED BY <2>2 DEF part
<1> HIDE DEF first, second, next
<1>12. PICK kept \in {first, second, next} :
         x \in Flushes(kept, i) \/ x = [tmc |-> kept, said |-> <<>>]
  BY <1>1
<1>13. Collects(kept, on, later)
  BY <1>8, <1>10, <1>11, <1>12
<1>14. CASE x \in Flushes(kept, i)
  BY <1>2, <1>13, <1>14, Flushing DEF Flushed
<1>15. CASE x = [tmc |-> kept, said |-> <<>>]
  <2>1. x.tmc = kept /\ x.said = <<>>
    BY <1>15
  <2>2. AllFine(<<>>, later)
    BY FineOne
  <2>3. AllFine(x.said, later)
    BY <2>1, <2>2
  <2> QED BY <1>13, <2>1, <2>3
<1> QED BY <1>12, <1>14, <1>15

LEMMA SingleCollects ==
  ASSUME NEW c, NEW on, NEW ev, Collects(c, on, ev),
         NEW g \in Groups, Bits(g.data[1], 0, 5) \in 8..15,
         NEW later, later = HeardAs(ev, Says(g), GroupStatus(g) = Valid),
         NEW x \in SingleGroup(c, g)
  PROVE  Collects(x.tmc, on, later) /\ AllFine(x.said, later)
<1> DEFINE key == <<g.data[1], g.data[2], g.data[3]>>
           check == <<key>>
           msg == [words |-> TmcWords(g), extra |-> <<>>, total |-> 0]
           status == GroupStatus(g)
           certain == status = Valid
<1>1. x = AddMessage(c, msg, check, status, FALSE)
  BY DEF SingleGroup
<1>2. Says(g) = TmcWords(g) /\ TmcWords(g) = Spoken(key)
  BY DEF Says, IsPart, TmcWords, Spoken
<1>3. Bits(key[1], 0, 5) # 0
  OBVIOUS
<1>4. msg.words = TmcWords(g) /\ msg.extra = <<>>
  OBVIOUS
<1> HIDE DEF key, msg, status
<1>5. /\ Grows(ev, later) /\ Spoken(key) \in DOMAIN later
      /\ Spoken(key) \in DOMAIN ev \/ certain => Sure(later, Spoken(key))
  <2> DEFINE k == Says(g)
  <2>1. later = HeardAs(ev, k, certain)
    BY DEF status
  <2> HIDE DEF k, certain
  <2>2. /\ Grows(ev, later) /\ k \in DOMAIN later
        /\ k \in DOMAIN ev \/ certain => Sure(later, k)
    BY <2>1, HeardMore
  <2>3. k = Spoken(key)
    BY <1>2 DEF k
  <2> QED BY <2>2, <2>3
<1>6. Collects(c, on, later)
  BY <1>5, CollectsMore
<1>7. IsSeq(check) /\ Len(check) = 1 /\ check[1] = key
  BY TuplesAre
<1> HIDE DEF check
<1>8. MayWait(c, check, later)
  <2>1. \A i \in ContinuityIndices : key \notin DOMAIN c.first[i]
    BY <1>3 DEF Collects, Evident, FirstsEvident
  <2> QED BY <1>3, <1>5, <1>7, <2>1 DEF MayWait
<1>9. Adds(c, msg, check, status, FALSE, x)
  BY <1>1, Adding DEF Collects
<1>10. Collects(x.tmc, on, later)
  BY <1>6, <1>8, <1>9, AddedCollects
<1>11. Sure(later, Spoken(key)) => AllFine(<<msg>>, later)
  <2>1. ASSUME Sure(later, Spoken(key)) PROVE Fine(msg, later)
    BY <1>2, <1>4, <2>1 DEF Fine
  <2> QED BY <2>1, FineOne
<1>12. \/ status = Valid /\ x.said = <<msg>>
       \/ check[1] \in DOMAIN c.pending /\ x.said = <<Confirmed(c, msg, check, FALSE)>>
       \/ x.said = <<>>
  BY <1>9, Zenon DEF Adds
<1>13. CASE status = Valid /\ x.said = <<msg>>
  <2>1. AllFine(<<msg>>, later)
    BY <1>5, <1>11, <1>13
  <2>2. AllFine(x.said, later)
    BY <1>13, <2>1
  <2> QED BY <1>10, <2>2
<1>14. CASE check[1] \in DOMAIN c.pending /\ x.said = <<Confirmed(c, msg, check, FALSE)>>
  <2>1. Confirmed(c, msg, check, FALSE) = msg
    BY DEF Confirmed
  <2>2. key \in DOMAIN c.pending
    BY <1>7, <1>14
  <2>3. Spoken(key) \in DOMAIN ev
    BY <1>3, <2>2 DEF Collects, Evident, PendingEvident
  <2>4. AllFine(<<msg>>, later)
    BY <1>5, <1>11, <2>3
  <2>5. AllFine(x.said, later)
    BY <1>14, <2>1, <2>4
  <2> QED BY <1>10, <2>5
<1>15. CASE x.said = <<>>
  <2>1. AllFine(<<>>, later)
    BY FineOne
  <2>2. AllFine(x.said, later)
    BY <1>15, <2>1
  <2> QED BY <1>10, <2>2
<1> QED BY <1>12, <1>13, <1>14, <1>15

LEMMA GroupCollects ==
  ASSUME NEW c, NEW on, NEW ev, NEW t \in Nat, Collects(c, on, ev), Uses(on, t), NEW g \in Groups,
         IsPart(g) => g.data \in on[Index(g)].groups /\ on[Index(g)].time = t,
         NEW later, later = HeardAs(ev, Says(g), GroupStatus(g) = Valid),
         NEW x \in TmcGroup(c, g, t)
  PROVE  Collects(x.tmc, on, later) /\ AllFine(x.said, later)
<1> DEFINE type == Bits(g.data[1], 0, 5)
<1>1. CASE type \in 1..6
  <2>1. x \in MultiGroup(c, g, t)
    BY <1>1 DEF TmcGroup
  <2>2. IsPart(g)
    BY <1>1 DEF IsPart
  <2> QED BY <2>1, <2>2, MultiCollects
<1>2. CASE type \in 8..15
  <2>1. x \in SingleGroup(c, g)
    BY <1>2 DEF TmcGroup
  <2> QED BY <1>2, <2>1, SingleCollects
<1>3. CASE type \notin 1..6 /\ type \notin 8..15
  <2>1. x = [tmc |-> c, said |-> <<>>]
    BY <1>3 DEF TmcGroup
  <2>2. x.tmc = c /\ x.said = <<>>
    BY <2>1
  <2>3. Grows(ev, later)
    BY HeardMore
  <2>4. AllFine(<<>>, later)
    BY FineOne
  <2>5. AllFine(x.said, later)
    BY <2>2, <2>4
  <2> QED BY <2>2, <2>3, <2>5, CollectsMore
<1> QED BY <1>1, <1>2, <1>3

(* A group that is taken for a part of a message is one.                   *)
LEMMA PartsAreSent ==
  ASSUME NEW air \in Programmes, NEW g \in air, NEW vs, Aired(vs, air),
         \A p \in Missing(vs, g) : IsChannel(p), IsTmc(vs, g), IsPart(g)
  PROVE  Sends(g) # {}
<1>1. Type(g) = 16 \/ \E a \in air : Announces(a, Type(g))
  <2>1. CASE ~IsOda(vs, g)
    BY <2>1 DEF IsTmc
  <2>2. CASE IsOda(vs, g)
    <3> DEFINE p == OdaPath(g)
    <3>1. vs[p].sentValue \in TmcAids /\ g.status[1] >= Corrected
      BY <2>2 DEF IsTmc
    <3>2. p \in DOMAIN vs /\ vs[p].sent
      <4>1. ~HasValue(vs[p]) => p \in Missing(vs, g)
        BY <2>2, <3>1 DEF Missing
      <4>2. ~IsChannel(p)
        BY DEF OdaPath, IsChannel
      <4> QED BY <2>2, <4>1, <4>2 DEF IsOda, HasValue
    <3>3. p[1] = "oda_aids" /\ p[2] = Type(g)
      BY DEF OdaPath
    <3> HIDE DEF p
    <3>4. PICK a \in air : /\ Type(a) = 6 /\ p[2] = Bits(a.data[1], 0, 5)
                           /\ vs[p].sentValue = a.data[3]
      BY <3>2, <3>3 DEF Aired
    <3>5. Announces(a, Type(g))
      BY <3>1, <3>3, <3>4 DEF Announces
    <3> QED BY <3>5
  <2> QED BY <2>1, <2>2
<1> QED BY <1>1, SentAssumption

-----------------------------------------------------------------------------
(* The invariant, and what follows from it.                                *)

TmcInv ==
  /\ RdsInv
  /\ Collects(tmc, onIndex, evidence)
  /\ Uses(onIndex, now)
  /\ AllFine(said, evidence)

LEMMA TmcInit == Init => TmcInv
<1> SUFFICES ASSUME Init PROVE TmcInv
  OBVIOUS
<1>1. RdsInv
  BY RdsInit
<1> DEFINE none == [r \in Remaining |-> NoParts]
<1>2. DOMAIN NoParts = {} /\ DOMAIN Nothing = {}
  BY DEF NoParts, Nothing
<1>3. DOMAIN none = Remaining /\ \A r \in Remaining : none[r] = NoParts
  OBVIOUS
<1> HIDE DEF none
<1>4. /\ tmc = NewCollector /\ DOMAIN tmc = DOMAIN NewCollector
      /\ tmc.first = [i \in ContinuityIndices |-> NoParts]
      /\ tmc.second = [i \in ContinuityIndices |-> NoParts]
      /\ tmc.next = [i \in ContinuityIndices |-> none]
      /\ tmc.pending = NoParts
  BY DEF Init, NewCollector, none
<1>5. Shape(tmc)
  BY <1>3, <1>4 DEF Shape
<1>6. Evident(tmc, evidence)
  BY <1>2, <1>4 DEF Evident, FirstsEvident, PendingEvident, TwiceEvident
<1>7. \A i \in ContinuityIndices : IndexFrom(tmc, i, onIndex[i])
  BY <1>2, <1>3, <1>4 DEF IndexFrom, FirstsFrom, OthersFrom
<1>8. Uses(onIndex, now)
  <2>1. onIndex = [i \in ContinuityIndices |-> [groups |-> {}, time |-> 0]] /\ now = 0
    BY DEF Init
  <2> QED BY <2>1 DEF Uses
<1>9. AllFine(said, evidence)
  BY FineOne DEF Init
<1> QED BY <1>1, <1>5, <1>6, <1>7, <1>8, <1>9 DEF TmcInv, Collects

LEMMA TmcProcess == ASSUME TmcInv, NEW g \in onAir, Process(g) PROVE TmcInv'
<1> DEFINE vs == Clear(values, FALSE, now)
           all == Sends(g)
           m == CHOOSE y \in all : TRUE
           use == [groups |-> m, time |-> now']
           later == HeardAs(evidence, Says(g), GroupStatus(g) = Valid)
<1>1. RdsInv' /\ RdsInv /\ Settings /\ now \in Nat
  BY RdsNext, NowNat DEF Next, TmcInv, RdsInv
<1>2. g \in Groups /\ onAir \in Programmes
  BY <1>1, OnTheAir DEF Settings
<1>3. Aired(vs, onAir) /\ \A p \in Missing(vs, g) : IsChannel(p)
  <2>1. \A air : Aired(values, air) => Aired(Clear(values, FALSE, now), air)
    BY <1>1, ClearSound DEF RdsInv
  <2>2. Aired(values, onAir) /\ Sound(values, heard, now, torn)
    BY <1>1 DEF RdsInv
  <2>3. \A p \in Missing(Clear(values, FALSE, now), g) : IsChannel(p)
    BY <1>1, <1>2, <2>2, ClearMissing
  <2> QED BY <2>1, <2>2, <2>3
<1> HIDE DEF vs
<1>4. PICK c \in ClearTmc(tmc, FALSE, now) :
        \E d \in IF IsTmc(vs, g) THEN TmcGroup(c.tmc, g, now')
                 ELSE {[tmc |-> c.tmc, said |-> <<>>]} :
          tmc' = d.tmc /\ said' = c.said \o d.said
  BY DEF Process, vs
<1>5. PICK d \in IF IsTmc(vs, g) THEN TmcGroup(c.tmc, g, now')
                 ELSE {[tmc |-> c.tmc, said |-> <<>>]} :
          tmc' = d.tmc /\ said' = c.said \o d.said
  BY <1>4
<1>6. /\ Collects(c.tmc, onIndex, evidence) /\ AllFine(c.said, evidence)
      /\ \A i \in ContinuityIndices : ~TmcExpired(c.tmc, i, now)
  BY ClearCollects DEF TmcInv
<1>7. /\ all = {} => onIndex' = onIndex
      /\ all # {} => onIndex' = UsedFor(onIndex, Index(g), use)
  BY DEF Process, UsedFor
<1>8. SenderMay(g) /\ now' \in Nat /\ now <= now'
  <2>1. SenderMay(g)
    BY DEF Process
  <2>2. now' \in now..MaxTime
    BY <1>1, <1>2, ProcessSound
  <2> QED BY <1>1, <2>1, <2>2, BoundsAssumption
<1>9. evidence' = IF IsTmc(vs, g) THEN later ELSE evidence
  BY DEF Process, vs, HeardAs
<1>10. /\ Collects(c.tmc, onIndex', evidence) /\ Uses(onIndex', now')
       /\ all # {} => /\ g.data \in m
                      /\ Index(g) \in ContinuityIndices =>
                           onIndex'[Index(g)].groups = m /\ onIndex'[Index(g)].time = now'
  <2>1. CASE all = {}
    <3>1. Uses(onIndex, now')
      BY <1>1, <1>8, UsesLater DEF TmcInv
    <3> QED BY <1>6, <1>7, <2>1, <3>1
  <2>2. CASE all # {}
    <3>1. m \in all /\ m \in TmcSent /\ g.data \in m
      <4>1. m \in all
        BY <2>2
      <4> QED BY <4>1 DEF Sends
    <3>2. onIndex[Index(g)].groups \in {m, {}} \/ now - onIndex[Index(g)].time > TmcImmediateTimeout
      BY <1>8, <3>1 DEF SenderMay
    <3> DEFINE i == Index(g)
               after == UsedFor(onIndex, i, use)
    <3>3. Collects(c.tmc, after, evidence) /\ Uses(after, now')
      <4> HIDE DEF i, m, all
      <4>1. i \in ContinuityIndices =>
              onIndex[i].groups \in {m, {}} \/ now - onIndex[i].time > TmcImmediateTimeout
        BY <3>2 DEF i
      <4> QED BY <1>1, <1>6, <1>8, <3>1, <4>1, IndexUsed DEF TmcInv
    <3>4. use.groups = m /\ use.time = now'
      OBVIOUS
    <3> HIDE DEF m, use, all
    <3>5. i \in ContinuityIndices => after[i] = use
      BY DEF UsedFor, TmcInv, Uses
    <3>6. onIndex' = after
      BY <1>7, <2>2
    <3> QED BY <3>1, <3>3, <3>4, <3>5, <3>6
  <2> QED BY <2>1, <2>2
<1> HIDE DEF m, use, all, later
<1>11. Collects(tmc', onIndex', evidence') /\ AllFine(d.said, evidence') /\ Grows(evidence, evidence')
  <2>1. CASE ~IsTmc(vs, g)
    <3>1. d = [tmc |-> c.tmc, said |-> <<>>]
      BY <1>5, <2>1
    <3>2. d.tmc = c.tmc /\ d.said = <<>>
      BY <3>1
    <3>3. AllFine(<<>>, evidence)
      BY FineOne
    <3>4. AllFine(d.said, evidence)
      BY <3>2, <3>3
    <3>5. Grows(evidence, evidence)
      BY DEF Grows
    <3> QED BY <1>5, <1>9, <1>10, <2>1, <3>2, <3>4, <3>5
  <2>2. CASE IsTmc(vs, g)
    <3>1. d \in TmcGroup(c.tmc, g, now')
      BY <1>5, <2>2
    <3>2. IsPart(g) => g.data \in onIndex'[Index(g)].groups /\ onIndex'[Index(g)].time = now'
      <4>1. SUFFICES ASSUME IsPart(g)
                     PROVE  g.data \in onIndex'[Index(g)].groups /\ onIndex'[Index(g)].time = now'
        OBVIOUS
      <4>2. all # {}
        BY <1>2, <1>3, <2>2, <4>1, PartsAreSent DEF all
      <4>3. Index(g) \in ContinuityIndices
        BY <1>2, <4>1, WordsOf, IndexOf DEF IsPart, Index
      <4> QED BY <1>10, <4>2, <4>3
    <3>3. evidence' = later
      BY <1>9, <2>2
    <3> DEFINE on == onIndex'
    <3>4. Collects(c.tmc, on, evidence) /\ Uses(on, now')
      BY <1>10
    <3>5. IsPart(g) => g.data \in on[Index(g)].groups /\ on[Index(g)].time = now'
      BY <3>2
    <3> HIDE DEF on
    <3>6. Collects(d.tmc, on, later) /\ AllFine(d.said, later)
      BY <1>1, <1>2, <1>8, <3>1, <3>4, <3>5, GroupCollects DEF later
    <3>7. Grows(evidence, later)
      BY HeardMore DEF later
    <3> QED BY <1>5, <3>3, <3>6, <3>7 DEF on
  <2> QED BY <2>1, <2>2
<1>12. AllFine(said', evidence')
  <2>1. AllFine(c.said, evidence')
    BY <1>6, <1>11, FineMore
  <2>2. AllFine(c.said \o d.said, evidence')
    BY <1>11, <2>1, FineJoined
  <2> QED BY <1>5, <2>2
<1> QED BY <1>1, <1>8, <1>10, <1>11, <1>12 DEF TmcInv

LEMMA TmcNext == ASSUME TmcInv, [Next]_vars PROVE TmcInv'
<1>1. RdsInv'
  BY RdsNext DEF TmcInv
<1>2. ASSUME NEW g \in onAir, Process(g) PROVE TmcInv'
  BY <1>2, TmcProcess
<1>3. CASE State
  <2>1. PICK c \in ClearTmc(tmc, FALSE, now) : said' = c.said
    BY <1>3 DEF State
  <2>2. AllFine(c.said, evidence)
    BY ClearCollects DEF TmcInv
  <2>3. tmc' = tmc /\ onIndex' = onIndex /\ evidence' = evidence /\ now' = now
    BY <1>3 DEF State
  <2> QED BY <1>1, <2>1, <2>2, <2>3 DEF TmcInv
<1>4. CASE Reset
  <2>1. PICK c \in ClearTmc(tmc, TRUE, 0) : tmc' = c.tmc /\ said' = c.said
    BY <1>4 DEF Reset
  <2>2. Collects(c.tmc, onIndex, evidence) /\ AllFine(c.said, evidence)
    BY ClearCollects DEF TmcInv
  <2>3. onIndex' = onIndex /\ evidence' = evidence /\ now' = now
    BY <1>4 DEF Reset
  <2> QED BY <1>1, <2>1, <2>2, <2>3 DEF TmcInv
<1>5. CASE Tick
  <2>1. tmc' = tmc /\ onIndex' = onIndex /\ evidence' = evidence /\ now' = now + 1 /\ said' = <<>>
    BY <1>5 DEF Tick
  <2>2. now \in Nat
    BY NowNat DEF TmcInv, RdsInv
  <2>3. Uses(onIndex', now')
    BY <2>1, <2>2 DEF TmcInv, Uses
  <2>4. AllFine(<<>>, evidence)
    BY FineOne
  <2>5. AllFine(said', evidence')
    BY <2>1, <2>4
  <2> QED BY <1>1, <2>1, <2>3, <2>5 DEF TmcInv
<1>6. CASE UNCHANGED vars
  BY <1>1, <1>6 DEF vars, TmcInv
<1> QED BY <1>2, <1>3, <1>4, <1>5, <1>6 DEF Next

THEOREM TmcInvHolds == Spec => []TmcInv
<1> QED BY TmcInit, TmcNext, PTL DEF Spec

\* A message put together from several groups is put together from groups of
\* one message that was sent.
THEOREM AnnouncedWholeHolds == Spec => []AnnouncedWhole
<1>1. ASSUME TmcInv PROVE AnnouncedWhole
  <2>1. IsSeq(said) /\ \A k \in 1..Len(said) : Fine(said[k], evidence)
    BY <1>1 DEF TmcInv, AllFine
  <2>2. DOMAIN said = 1..Len(said)
    BY <2>1 DEF IsSeq
  <2> QED BY <2>1, <2>2 DEF AnnouncedWhole, Fine, WholeMessage
<1> QED BY <1>1, TmcInvHolds, PTL

\* What is announced has been heard in a Valid group, or more than once.
THEOREM AnnouncedOnEvidenceHolds == Spec => []AnnouncedOnEvidence
<1>1. ASSUME TmcInv PROVE AnnouncedOnEvidence
  <2>1. IsSeq(said) /\ \A k \in 1..Len(said) : Fine(said[k], evidence)
    BY <1>1 DEF TmcInv, AllFine
  <2>2. DOMAIN said = 1..Len(said)
    BY <2>1 DEF IsSeq
  <2> QED BY <2>1, <2>2 DEF AnnouncedOnEvidence, Fine, Sure
<1> QED BY <1>1, TmcInvHolds, PTL
=============================================================================
