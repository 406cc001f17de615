---------------------------- MODULE TmcMessages -----------------------------
(***************************************************************************)
(* Traffic messages (TMC) of filters/fm/rds_messages_decoder.cpp: how      *)
(* messages sent as one group, or as up to five groups that share a        *)
(* continuity index, are collected until there is evidence for them.       *)
(*                                                                         *)
(* A collector is the TMC part of RdsState: for every continuity index the *)
(* first, second and next groups heard, each a map from check data to what *)
(* is kept of the group, and the messages waiting for a confirmation.      *)
(* Operations that depend on the order of a hash map return the set of     *)
(* their possible outcomes, records of the collector and of the messages   *)
(* announced (the calls of addTmcMessage).                                 *)
(***************************************************************************)
EXTENDS RdsFields

CONSTANT TmcImmediateTimeout   \* seconds a part waits for the others

ASSUME TmcTimeoutAssumption == TmcImmediateTimeout \in Nat

ContinuityIndices == 0..5      \* TmcContinuityCount
Remaining == 0..2              \* TmcMaxExtraGroupsCount

NoParts == [k \in {} |-> Unset]

NewCollector ==
  [first   |-> [i \in ContinuityIndices |-> NoParts],
   second  |-> [i \in ContinuityIndices |-> NoParts],
   next    |-> [i \in ContinuityIndices |-> [r \in Remaining |-> NoParts]],
   pending |-> NoParts]

Without(f, k) == [j \in DOMAIN f \ {k} |-> f[j]]
With(f, k, v) == [j \in DOMAIN f \cup {k} |-> IF j = k THEN v ELSE f[j]]

-----------------------------------------------------------------------------
(* A complete message: announced when Valid, or when it confirms the       *)
(* pending one with the same first group.  Its extra parts are then cut    *)
(* (or padded with zeros) to one more than those that match.                *)

Matching(a, b) ==
  LET common == Min({Len(a), Len(b)})
  IN Min({k \in 1..common : k < common => a[k + 1] # b[k + 1]})

Resized(extra, n) ==
  [k \in 1..n |-> IF k <= Len(extra) THEN extra[k] ELSE <<0, 0>>]

AddMessage(tmc, msg, check, status, multi) ==
  LET key == check[1]
      known == key \in DOMAIN tmc.pending
      confirmed ==
        IF multi THEN [msg EXCEPT !.extra = Resized(@, Matching(tmc.pending[key], check))]
        ELSE msg
  IN CASE status = Valid ->
            [tmc |-> [tmc EXCEPT !.pending = Without(@, key)], said |-> <<msg>>]
       [] status # Valid /\ known ->
            [tmc |-> [tmc EXCEPT !.pending = Without(@, key)], said |-> <<confirmed>>]
       [] status # Valid /\ ~known ->
            [tmc |-> [tmc EXCEPT !.pending = With(@, key, check)], said |-> <<>>]

-----------------------------------------------------------------------------
(* Flushing a continuity index: the best first, second and next groups     *)
(* become a message and everything kept for the index is dropped.          *)

Best(parts) ==
  {k \in DOMAIN parts : \A j \in DOMAIN parts : parts[j].count <= parts[k].count}

\* Best next groups from remaining - 1 down to 0, as far as there are any.
Chains(next, remaining) ==
  LET heard == {n \in 1..remaining : \A i \in 1..n : DOMAIN next[remaining - i] # {}}
  IN {ks \in [1..Cardinality(heard) -> UNION {DOMAIN next[r] : r \in Remaining}] :
        \A i \in heard : ks[i] \in Best(next[remaining - i])}

Dropped(tmc, i) ==
  [tmc EXCEPT !.first[i] = NoParts, !.second[i] = NoParts,
              !.next[i] = [r \in Remaining |-> NoParts]]

(* Mutant: parts heard once are evidence enough.                           *)
AssembledAtOnce(tmc, i, f, s, ks) ==
  LET first == tmc.first[i][f]
      second == tmc.second[i][s]
      next == [n \in DOMAIN ks |-> tmc.next[i][second.remaining - n][ks[n]]]
      count == Min({first.count, second.count} \cup {next[n].count : n \in DOMAIN next})
      msg == [words |-> first.words, extra |-> <<second.data>> \o [n \in DOMAIN next |-> next[n].data],
              total |-> second.remaining + 1]
  IN AddMessage(Dropped(tmc, i), msg, <<f, s>> \o ks,
                IF count >= 1 THEN Valid ELSE Corrected, TRUE)

Assembled(tmc, i, f, s, ks) ==
  LET first == tmc.first[i][f]
      second == tmc.second[i][s]
      next == [n \in DOMAIN ks |-> tmc.next[i][second.remaining - n][ks[n]]]
      count == Min({first.count, second.count} \cup {next[n].count : n \in DOMAIN next})
      msg == [words |-> first.words, extra |-> <<second.data>> \o [n \in DOMAIN next |-> next[n].data],
              total |-> second.remaining + 1]
  IN AddMessage(Dropped(tmc, i), msg, <<f, s>> \o ks,
                IF count >= 2 THEN Valid ELSE Corrected, TRUE)

Flushes(tmc, i) ==
  LET firsts == Best(tmc.first[i])
      seconds == Best(tmc.second[i])
  IN IF firsts = {} \/ seconds = {} THEN {[tmc |-> Dropped(tmc, i), said |-> <<>>]}
     ELSE UNION {{Assembled(tmc, i, f, s, ks) :
                    ks \in Chains(tmc.next[i], tmc.second[i][s].remaining)} :
                 f \in firsts, s \in seconds}

(* Mutant: the age of the first groups only.                               *)
TmcExpiredFirst(tmc, i, t) ==
  \E k \in DOMAIN tmc.first[i] : t - tmc.first[i][k].timestamp > TmcImmediateTimeout

TmcExpired(tmc, i, t) ==
  \E parts \in {tmc.first[i], tmc.second[i]} \cup {tmc.next[i][r] : r \in Remaining} :
    \E k \in DOMAIN parts : t - parts[k].timestamp > TmcImmediateTimeout

\* One after another, each index that has a part too old is flushed.
ClearTmc(tmc, everything, t) ==
  LET Cleared(o, i) ==
        IF everything \/ TmcExpired(o.tmc, i, t)
        THEN {[tmc |-> f.tmc, said |-> o.said \o f.said] : f \in Flushes(o.tmc, i)}
        ELSE {o}
      before[i \in 0..6] ==
        IF i = 0 THEN {[tmc |-> tmc, said |-> <<>>]}
        ELSE UNION {Cleared(o, i - 1) : o \in before[i - 1]}
  IN before[6]

-----------------------------------------------------------------------------
(* A TMC group, all its blocks being at least Corrected.                   *)

GroupStatus(g) == Min({g.status[1], g.status[2], g.status[3]})

\* extractTmcMessage: what the message says is in these bits.
TmcWords(g) == <<Bits(g.data[1], 0, 3), g.data[2], g.data[3]>>

SingleGroup(tmc, g) ==
  {AddMessage(tmc, [words |-> TmcWords(g), extra |-> <<>>, total |-> 0],
              <<<<g.data[1], g.data[2], g.data[3]>>>>, GroupStatus(g), FALSE)}

\* After the second group remaining is 2 at most (RemainingAssumption of
\* RdsMessages): with 3 the code writes past its array of next groups, and the
\* EXCEPT below changes nothing.
MultiGroup(tmc, g, t) ==
  LET i == Bits(g.data[1], 0, 3) - 1
      key == <<g.data[1] - Bits(g.data[1], 0, 3), g.data[2], g.data[3]>>
      inc == IF GroupStatus(g) = Valid THEN 2 ELSE 1
      CountIn(parts) == inc + IF key \in DOMAIN parts THEN parts[key].count ELSE 0
      remaining == Bits(g.data[2], 12, 2)
      data == <<Bits(g.data[2], 0, 12), g.data[3]>>
      Kept(parts) == With(parts, key, [timestamp |-> t, count |-> CountIn(parts),
                                       data |-> data, remaining |-> remaining])
      isFirst == Bits(g.data[2], 15, 1) = 1
      isSecond == ~isFirst /\ Bits(g.data[2], 14, 1) = 1
      total == IF isSecond THEN CountIn(tmc.second[i]) ELSE CountIn(tmc.next[i][remaining])
      kept == CASE isFirst ->
                     [tmc EXCEPT !.first[i] =
                        With(@, key, [timestamp |-> t, count |-> CountIn(@),
                                      words |-> TmcWords(g)])]
                [] isSecond -> [tmc EXCEPT !.second[i] = Kept(@)]
                [] OTHER -> [tmc EXCEPT !.next[i][remaining] = Kept(@)]
  IN IF ~isFirst /\ remaining = 0 /\ total >= 2 THEN Flushes(kept, i)
     ELSE {[tmc |-> kept, said |-> <<>>]}

TmcGroup(tmc, g, t) ==
  LET type == Bits(g.data[1], 0, 5)
  IN CASE type \in 1..6 -> MultiGroup(tmc, g, t)
       [] type \in 8..15 -> SingleGroup(tmc, g)
       [] OTHER -> {[tmc |-> tmc, said |-> <<>>]}
=============================================================================
