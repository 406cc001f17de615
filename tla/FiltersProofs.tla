---------------------------- MODULE FiltersProofs ----------------------------
(***************************************************************************)
(* What a filter makes of a stream does not depend on how the stream is    *)
(* cut into slices, and the filters keep to the states they have declared, *)
(* for any rates, windows, blocks and sizes of slices.  For every filter   *)
(* there is an invariant of its own, and a lemma that every step keeps it; *)
(* at the end they are joined.                                             *)
(***************************************************************************)
EXTENDS Filters, CorrectorProofs

-----------------------------------------------------------------------------
(* Numbers.                                                                *)
LEMMA Rounding ==
  ASSUME NEW n \in Nat, NEW unit \in Nat \ {0}
  PROVE  /\ n \div unit \in Nat /\ n % unit \in 0..(unit - 1)
         /\ (n \div unit) * unit \in Nat
         /\ n = (n \div unit) * unit + (n % unit)
         /\ (n \div unit) * unit <= n /\ n < (n \div unit) * unit + unit
<1>1. n \div unit \in Nat /\ n % unit \in 0..(unit - 1)
  OBVIOUS
<1>2. (n \div unit) * unit \in Nat
  BY <1>1
<1>3. n = (n \div unit) * unit + (n % unit)
  OBVIOUS
<1>4. (n \div unit) * unit <= n /\ n < (n \div unit) * unit + unit
  OBVIOUS
<1> QED BY <1>1, <1>2, <1>3, <1>4

LEMMA Quotients ==
  ASSUME NEW k \in Nat, NEW unit \in Nat \ {0}, NEW j \in 0..(unit - 1)
  PROVE  (k * unit + j) \div unit = k /\ (k * unit + j) % unit = j
OBVIOUS

LEMMA Successor ==
  ASSUME NEW n \in Nat, NEW unit \in Nat \ {0}
  PROVE  (n + 1) % unit = IF (n % unit) + 1 = unit THEN 0 ELSE (n % unit) + 1
<1> DEFINE q == n \div unit
           r == n % unit
<1>1. q \in Nat /\ r \in 0..(unit - 1) /\ n = q * unit + r
  BY Rounding
<1> HIDE DEF q, r
<1>2. CASE r + 1 # unit
  <2>1. r + 1 \in 0..(unit - 1) /\ n + 1 = q * unit + (r + 1)
    BY <1>1, <1>2
  <2>2. (q * unit + (r + 1)) % unit = r + 1
    BY <1>1, <2>1, Quotients
  <2> QED BY <1>2, <2>1, <2>2 DEF r
<1>3. CASE r + 1 = unit
  <2>1. (q + 1) * unit = q * unit + unit
    BY <1>1
  <2>2. n + 1 = (q + 1) * unit + 0
    BY <1>1, <1>3, <2>1
  <2>3. ((q + 1) * unit + 0) % unit = 0
    BY <1>1, Quotients
  <2> QED BY <1>3, <2>2, <2>3 DEF r
<1> QED BY <1>2, <1>3

LEMMA Scaled ==
  ASSUME NEW k \in Int, NEW m \in Int, NEW unit \in Nat \ {0}
  PROVE  /\ k * unit \in Int /\ (k + 1) * unit = k * unit + unit
         /\ (k + m) * unit = k * unit + m * unit
         /\ (k <= m <=> k * unit <= m * unit)
         /\ (k < m <=> k * unit < m * unit)
OBVIOUS

-----------------------------------------------------------------------------
(* Sequences of whatever a filter puts out.                                *)
Listing(s) == s \in Seq({s[k] : k \in DOMAIN s})

LEMMA Listings ==
  /\ Listing(<<>>) /\ Len(<<>>) = 0
  /\ \A x : Listing(<<x>>) /\ Len(<<x>>) = 1 /\ <<x>>[1] = x
BY DEF Listing

LEMMA Joined ==
  ASSUME NEW s, Listing(s), NEW t, Listing(t)
  PROVE  /\ Len(s) \in Nat /\ Len(t) \in Nat
         /\ Listing(s \o t) /\ Len(s \o t) = Len(s) + Len(t)
         /\ \A k \in 1..Len(s) : (s \o t)[k] = s[k]
         /\ \A k \in 1..Len(t) : (s \o t)[Len(s) + k] = t[k]
<1> DEFINE R == {s[k] : k \in DOMAIN s} \cup {t[k] : k \in DOMAIN t}
<1>1. s \in Seq(R) /\ t \in Seq(R)
  BY DEF Listing
<1>2. s \o t \in Seq(R) /\ Len(s \o t) = Len(s) + Len(t)
  BY <1>1
<1>3. /\ \A k \in 1..Len(s) : (s \o t)[k] = s[k]
      /\ \A k \in 1..Len(t) : (s \o t)[Len(s) + k] = t[k]
  BY <1>1
<1>4. Listing(s \o t)
  <2> DEFINE u == s \o t
  <2>1. u \in Seq(R)
    BY <1>2
  <2> HIDE DEF u, R
  <2>2. u \in Seq({u[k] : k \in DOMAIN u})
    <3>1. u \in [1..Len(u) -> R] /\ Len(u) \in Nat /\ DOMAIN u = 1..Len(u)
      BY <2>1
    <3>2. u \in [1..Len(u) -> {u[k] : k \in DOMAIN u}]
      BY <3>1
    <3> QED BY <3>1, <3>2
  <2> QED BY <2>2 DEF Listing, u
<1> QED BY <1>1, <1>2, <1>3, <1>4

LEMMA ByOne == \A n \in Nat : n % 1 = 0
OBVIOUS

LEMMA Made ==
  ASSUME NEW n \in Nat, NEW s, s = [k \in 1..n |-> s[k]]
  PROVE  Listing(s) /\ Len(s) = n
<1>1. s \in [1..n -> {s[k] : k \in DOMAIN s}] /\ DOMAIN s = 1..n
  OBVIOUS
<1> QED BY <1>1 DEF Listing

-----------------------------------------------------------------------------
(* What a slice is, whatever the filter.                                   *)
Counts ==
  /\ kind \in Kinds
  /\ taken \in Nat /\ given \in Nat /\ room \in Nat
  /\ input_index \in Nat /\ output_index \in Nat
  /\ Listing(made)
  /\ pc = "idle" => input_index = 0 /\ output_index = 0

(* How much of the stream has gone by.                                     *)
Place == taken + input_index

(* All that has been put out is what is made of the stream as a whole.     *)
MadeWhole == \A k \in 1..Len(made) : made[k] = Whole(k - 1)

Unslice == <<samplerVars, fftVars, deviceVars, rdsVars, equalizerVars, graphVars>>

LEMMA Declared ==
  /\ \A k \in {"sampler", "fir", "snr"} :
       StatesOf[k] = [required |-> Rate, room |-> 1, provided |-> 1, idle |-> FALSE]
  /\ \A k \in {"windows", "resampler", "bits", "groups", "air"} :
       StatesOf[k] = [required |-> 1, room |-> 1, provided |-> 0, idle |-> FALSE]
  /\ \A k \in {"demod", "cma"} :
       StatesOf[k] = [required |-> 1, room |-> 1, provided |-> 1, idle |-> FALSE]
  /\ StatesOf["fft"] =
       [required |-> OutputBlock, room |-> OutputBlock, provided |-> 1, idle |-> FALSE]
  /\ StatesOf["decimator"] =
       [required |-> OutputBlock, room |-> (OutputBlock + Rate - 1) \div Rate, provided |-> 1, idle |-> FALSE]
  /\ StatesOf["alsa"] = [required |-> 1, room |-> 0, provided |-> 0, idle |-> TRUE]
  /\ \A k \in {"file", "loop"} :
       StatesOf[k] = [required |-> 0, room |-> 1, provided |-> 1, idle |-> TRUE]
BY DEF StatesOf, States

LEMMA DeclaredNat ==
  ASSUME NEW k \in Kinds \ {"graph"}
  PROVE  StatesOf[k].required \in Nat /\ StatesOf[k].room \in Nat
<1>1. (OutputBlock + Rate - 1) \div Rate \in Nat
  BY FftAssumption, SamplersAssumption, Rounding
<1>2. k \in {"sampler", "fir", "snr", "windows", "resampler", "bits", "groups", "air", "demod", "cma",
             "fft", "decimator", "alsa", "file", "loop"}
  BY DEF Kinds, StatesOf
<1> QED BY <1>1, <1>2, FftAssumption, SamplersAssumption, Declared

LEMMA Entering ==
  ASSUME Counts, Called
  PROVE  /\ pc = "idle" /\ pc' = "loop" /\ ~eof /\ kind # "graph"
         /\ kind' = kind /\ taken' = taken /\ made' = made /\ checked' = checked
         /\ input_index' = 0 /\ output_index' = 0 /\ input_index = 0 /\ output_index = 0
         /\ given' \in Nat /\ StatesOf[kind].required <= given'
         /\ room' \in Nat /\ StatesOf[kind].room <= room' /\ room' <= MaxRoom
         /\ UNCHANGED Unslice
         /\ Counts' /\ Place' = Place /\ (MadeWhole => MadeWhole')
<1>1. /\ kind \in Kinds \ {"graph"} /\ pc = "idle" /\ pc' = "loop" /\ ~eof
      /\ UNCHANGED <<kind, taken, made, checked>> /\ UNCHANGED Unslice
      /\ input_index' = 0 /\ output_index' = 0
      /\ given' \in StatesOf[kind].required..(IF StatesOf[kind].required = 0 THEN 0 ELSE Total - taken)
      /\ room' \in StatesOf[kind].room..MaxRoom
  BY DEF Called, Enter, Counts, Unslice
<1>2. /\ given' \in Nat /\ StatesOf[kind].required <= given'
      /\ room' \in Nat /\ StatesOf[kind].room <= room' /\ room' <= MaxRoom
  <2>1. taken \in Nat
    BY DEF Counts
  <2> QED BY <1>1, <2>1, DeclaredNat, SlicesAssumption
<1>3. Place' = Place
  BY <1>1 DEF Place, Counts
<1> QED BY <1>1, <1>2, <1>3 DEF Counts, Listing, MadeWhole, Whole

LEMMA Leaving ==
  ASSUME Counts, Returns
  PROVE  /\ pc = "leave" /\ pc' = "idle"
         /\ kind' = kind /\ taken' = taken + input_index /\ made' = made
         /\ input_index' = 0 /\ output_index' = 0
         /\ checked' = /\ checked
                       /\ \/ StatesOf[kind].idle
                          \/ input_index > 0 /\ input_index % StatesOf[kind].required = 0
                       /\ output_index >= StatesOf[kind].provided \/ eof
         /\ UNCHANGED Unslice
         /\ Counts' /\ Place' = Place /\ (MadeWhole => MadeWhole')
<1>1. /\ kind' = kind /\ made' = made /\ input_index' = 0 /\ output_index' = 0 /\ given' = 0 /\ room' = 0
      /\ taken' = taken + input_index
  BY DEF Returns, Leave
<1>2. Counts'
  BY <1>1 DEF Counts, Listing
<1>3. MadeWhole => MadeWhole'
  BY <1>1 DEF MadeWhole, Whole
<1>4. Place' = Place
  BY <1>1 DEF Place, Counts
<1> QED BY <1>1, <1>2, <1>3, <1>4 DEF Returns, Leave, Unslice

LEMMA Resetting ==
  ASSUME Counts, Reset
  PROVE  /\ pc = "idle" /\ pc' = "idle" /\ kind' = kind /\ checked' = checked
         /\ taken' = 0 /\ made' = <<>> /\ Len(made') = 0
         /\ input_index' = 0 /\ output_index' = 0 /\ room' = room
         /\ Counts' /\ Place' = 0 /\ MadeWhole' /\ output_index' <= room'
<1>1. /\ pc = "idle" /\ taken' = 0 /\ made' = <<>>
      /\ UNCHANGED <<kind, given, room, input_index, output_index, pc, checked>>
  BY DEF Reset, ResetSlices
<1>2. Listing(made')
  BY <1>1, Listings
<1>3. MadeWhole'
  BY <1>1, Listings DEF MadeWhole
<1>4. Place' = 0 /\ output_index' <= room'
  BY <1>1 DEF Place, Counts
<1> QED BY <1>1, <1>2, <1>3, <1>4, Listings DEF Counts

LEMMA Emitting ==
  ASSUME Counts, pc # "idle", input_index' \in Nat, NEW outs, Listing(outs),
         made' = made \o outs, output_index' = output_index + Len(outs), UNCHANGED <<kind, taken, given, room>>
  PROVE  /\ Len(outs) \in Nat /\ Len(made) \in Nat /\ Len(made') = Len(made) + Len(outs)
         /\ \A k \in 1..Len(made) : made'[k] = made[k]
         /\ \A k \in 1..Len(outs) : made'[Len(made) + k] = outs[k]
         /\ pc' # "idle" => Counts'
         /\ MadeWhole /\ (\A k \in 1..Len(outs) : outs[k] = Whole(Len(made) + k - 1)) => MadeWhole'
<1>2. /\ Len(outs) \in Nat /\ Len(made) \in Nat /\ Len(made') = Len(made) + Len(outs)
      /\ Listing(made')
      /\ \A k \in 1..Len(made) : made'[k] = made[k]
      /\ \A k \in 1..Len(outs) : made'[Len(made) + k] = outs[k]
  BY Joined DEF Counts
<1>3. pc' # "idle" => Counts'
  BY <1>2 DEF Counts
<1>4. ASSUME MadeWhole, \A k \in 1..Len(outs) : outs[k] = Whole(Len(made) + k - 1)
      PROVE  MadeWhole'
  <2>1. \A k : Whole(k)' = Whole(k)
    BY DEF Whole
  <2>2. ASSUME NEW k \in 1..Len(made') PROVE made'[k] = Whole(k - 1)
    <3>1. CASE k \in 1..Len(made)
      BY <1>2, <1>4, <3>1 DEF MadeWhole
    <3>2. CASE k > Len(made)
      <4> DEFINE j == k - Len(made)
      <4>1. j \in 1..Len(outs) /\ k = Len(made) + j
        BY <1>2, <3>2
      <4>2. made'[k] = Whole(Len(made) + j - 1)
        BY <1>2, <1>4, <4>1
      <4> QED BY <1>2, <4>1, <4>2
    <3> QED BY <1>2, <3>1, <3>2
  <2> QED BY <2>1, <2>2 DEF MadeWhole
<1> QED BY <1>2, <1>3, <1>4

LEMMA EmittingNone ==
  ASSUME Counts, pc # "idle", input_index' \in Nat, made' = made \o <<>>,
         output_index' = output_index + Len(<<>>), UNCHANGED <<kind, taken, given, room>>
  PROVE  /\ Len(made) \in Nat /\ Len(made') = Len(made) /\ output_index' = output_index
         /\ \A k \in 1..Len(made) : made'[k] = made[k]
         /\ pc' # "idle" => Counts'
         /\ MadeWhole => MadeWhole'
<1> DEFINE outs == <<>>
<1>1. Listing(outs) /\ Len(outs) = 0 /\ output_index' = output_index + Len(outs) /\ made' = made \o outs
  BY Listings
<1> HIDE DEF outs
<1>2. \A k \in 1..Len(outs) : outs[k] = Whole(Len(made) + k - 1)
  BY <1>1
<1>3. output_index' = output_index
  BY <1>1 DEF Counts
<1>4. /\ Len(made) \in Nat /\ Len(made') = Len(made) + Len(outs)
      /\ \A k \in 1..Len(made) : made'[k] = made[k]
      /\ pc' # "idle" => Counts'
  BY <1>1, Emitting
<1>5. MadeWhole => MadeWhole'
  BY <1>1, <1>2, Emitting
<1> QED BY <1>1, <1>3, <1>4, <1>5

LEMMA EmittingOne ==
  ASSUME Counts, pc # "idle", input_index' \in Nat, NEW out, made' = made \o <<out>>,
         output_index' = output_index + Len(<<out>>), UNCHANGED <<kind, taken, given, room>>
  PROVE  /\ Len(made) \in Nat /\ Len(made') = Len(made) + 1 /\ output_index' = output_index + 1
         /\ \A k \in 1..Len(made) : made'[k] = made[k]
         /\ made'[Len(made) + 1] = out
         /\ pc' # "idle" => Counts'
         /\ MadeWhole /\ out = Whole(Len(made)) => MadeWhole'
<1> DEFINE outs == <<out>>
<1>1. /\ Listing(outs) /\ Len(outs) = 1 /\ outs[1] = out
      /\ output_index' = output_index + Len(outs) /\ made' = made \o outs
  BY Listings
<1> HIDE DEF outs
<1>2. /\ Len(made) \in Nat /\ Len(made') = Len(made) + 1
      /\ \A k \in 1..Len(made) : made'[k] = made[k]
      /\ made'[Len(made) + 1] = out
      /\ pc' # "idle" => Counts'
  BY <1>1, Emitting
<1>3. ASSUME MadeWhole, out = Whole(Len(made)) PROVE MadeWhole'
  <2>1. \A k \in 1..Len(outs) : outs[k] = Whole(Len(made) + k - 1)
    <3>1. ASSUME NEW k \in 1..Len(outs) PROVE outs[k] = Whole(Len(made) + k - 1)
      <4>1. k = 1 /\ Len(made) + k - 1 = Len(made)
        BY <1>1, <1>2
      <4> QED BY <1>1, <1>3, <4>1
    <3> QED BY <3>1
  <2> QED BY <1>1, <1>3, <2>1, Emitting
<1> QED BY <1>1, <1>2, <1>3

LEMMA Returning ==
  ASSUME Counts, Return
  PROVE  /\ pc' = "leave" /\ Counts'
         /\ UNCHANGED <<kind, taken, made, given, room, input_index, output_index>>
BY DEF Return, Counts, Listing

-----------------------------------------------------------------------------
(* Sampler of single samples, and FirFilter.                               *)
Picked ==
  /\ checked /\ MadeWhole /\ output_index <= room
  /\ Place = Len(made) * Rate
  /\ pc \in {"idle", "loop", "leave"}
  /\ pc = "loop" => input_index = 0 /\ output_index = 0 /\ Rate <= given /\ 1 <= room
  /\ pc = "leave" => input_index > 0 /\ input_index % Rate = 0 /\ 1 <= output_index

LEMMA PickedKeeps ==
  ASSUME Counts, Picked, kind \in {"sampler", "fir"}, Next
  PROVE  Counts' /\ Picked'
<1> USE SamplersAssumption
<1>1. CASE Called
  <2>1. Rate <= given' /\ 1 <= room'
    BY <1>1, Entering, Declared
  <2> QED BY <1>1, <2>1, Entering DEF Picked, Place
<1>2. CASE Returns
  <2>1. checked'
    <3>1. StatesOf[kind] = [required |-> Rate, room |-> 1, provided |-> 1, idle |-> FALSE]
      BY Declared
    <3> QED BY <1>2, <3>1, Leaving DEF Picked
  <2> QED BY <1>2, <2>1, Leaving DEF Picked, Place, Counts
<1>3. CASE Reset
  <2>1. 0 * Rate = 0
    OBVIOUS
  <2>2. Place' = Len(made') * Rate
    BY <1>3, <2>1, Resetting
  <2> QED BY <1>3, <2>2, Resetting DEF Picked
<1>4. CASE Pick
  <2> DEFINE n == PickSize
             outs == [k \in 1..n |-> taken + (k - 1) * Rate]
  <2>1. /\ pc = "loop" /\ pc' = "leave" /\ checked' = checked
        /\ made' = made \o outs /\ output_index' = output_index + Len(outs)
        /\ input_index' = input_index + n * Rate /\ UNCHANGED <<kind, taken, given, room>>
        /\ input_index = 0 /\ output_index = 0 /\ Rate <= given /\ 1 <= room
    BY <1>4 DEF Pick, Picked, Emit
  <2>2. n \in Nat /\ 1 <= n /\ n <= room
    <3>1. given \div Rate \in Nat /\ given < (given \div Rate) * Rate + Rate
      BY Rounding DEF Counts
    <3>2. given \div Rate # 0
      BY <2>1, <3>1 DEF Counts
    <3> QED BY <2>1, <3>1, <3>2 DEF PickSize, Least, Counts
  <2>3. n * Rate \in Nat /\ n * Rate > 0 /\ (n * Rate) % Rate = 0
    BY <2>2, Quotients, Scaled
  <2>4. Listing(outs) /\ Len(outs) = n /\ \A k \in 1..n : outs[k] = taken + (k - 1) * Rate
    <3>1. outs = [k \in 1..n |-> outs[k]]
      OBVIOUS
    <3> QED BY <2>2, <3>1, Made
  <2> HIDE DEF n, outs
  <2>5. /\ input_index' = n * Rate /\ output_index' = n /\ Len(made) \in Nat /\ Len(made') = Len(made) + n
        /\ Counts' /\ (MadeWhole /\ (\A k \in 1..Len(outs) : outs[k] = Whole(Len(made) + k - 1)) => MadeWhole')
    <3>1. pc # "idle" /\ pc' # "idle"
      BY <2>1
    <3>2. input_index' = n * Rate BY <2>1, <2>3
    <3>3. output_index' = n BY <2>1, <2>2, <2>4
    <3>4. input_index' \in Nat BY <3>2, <2>3
    <3>5. Len(made) \in Nat /\ Len(made') = Len(made) + Len(outs) BY <2>1, <2>4, <3>1, <3>4, Emitting
    <3>6. Counts' BY <2>1, <2>4, <3>1, <3>4, Emitting
    <3>7. (MadeWhole /\ (\A k \in 1..Len(outs) : outs[k] = Whole(Len(made) + k - 1)) => MadeWhole') BY <2>1, <2>4, <3>1, <3>4, Emitting
    <3> QED BY <2>4, <3>2, <3>3, <3>5, <3>6, <3>7
  <2>6. taken = Len(made) * Rate /\ taken \in Nat
    BY <2>1 DEF Picked, Place, Counts
  <2>7. ASSUME NEW k \in 1..Len(outs) PROVE outs[k] = Whole(Len(made) + k - 1)
    <3>1. (Len(made) + (k - 1)) * Rate = Len(made) * Rate + (k - 1) * Rate
      BY <2>2, <2>4, <2>5, Scaled
    <3>2. Len(made) + (k - 1) = Len(made) + k - 1
      BY <2>2, <2>4, <2>5
    <3> QED BY <2>4, <2>6, <3>1, <3>2 DEF Whole
  <2>8. Place' = Len(made') * Rate
    <3>1. (Len(made) + n) * Rate = Len(made) * Rate + n * Rate
      BY <2>2, <2>5, Scaled
    <3> QED BY <2>1, <2>5, <2>6, <3>1 DEF Place
  <2> QED BY <2>1, <2>2, <2>3, <2>5, <2>7, <2>8 DEF Picked
<1> QED
  BY <1>1, <1>2, <1>3, <1>4
     DEF Next, Sampling, Convolving, Playing, Reading, DecodingBits, EqualizingTaps, Building

-----------------------------------------------------------------------------
(* Sampler of windows: window w is being copied, or is the next after the  *)
(* samples that are skipped.                                               *)
WindowAt(w) ==
  IF skip = 0
  THEN /\ Len(made) = w * WindowSize + (WindowSize - left)
       /\ Place = w * WindowSize * Rate + (WindowSize - left)
  ELSE Len(made) = w * WindowSize /\ Place = w * WindowSize * Rate - skip

Windowed ==
  /\ checked /\ MadeWhole /\ output_index <= room
  /\ pc \in {"idle", "loop", "leave"}
  /\ left \in 0..WindowSize /\ skip \in Nat /\ (left = 0 <=> skip > 0)
  /\ \E w \in Nat : WindowAt(w)
  /\ pc = "loop" => 1 <= given /\ 1 <= room /\ output_index <= input_index
  /\ pc = "leave" => input_index > 0

LEMMA WindowedKeeps ==
  ASSUME Counts, Windowed, kind = "windows", Next
  PROVE  Counts' /\ Windowed'
<1> USE SamplersAssumption
<1>1. CASE Called
  <2>1. 1 <= given' /\ 1 <= room'
    BY <1>1, Entering, Declared
  <2>2. UNCHANGED <<skip, left>>
    BY <1>1, Entering DEF Unslice, samplerVars
  <2>3. \E w \in Nat : WindowAt(w)'
    BY <1>1, <2>2, Entering DEF Windowed, WindowAt
  <2> QED BY <1>1, <2>1, <2>2, <2>3, Entering DEF Windowed
<1>2. CASE Returns
  <2>1. checked'
    <3>1. input_index % 1 = 0 /\ output_index >= 0
      BY ByOne DEF Counts
    <3>2. StatesOf[kind] = [required |-> 1, room |-> 1, provided |-> 0, idle |-> FALSE]
      BY Declared
    <3> QED BY <1>2, <3>1, <3>2, Leaving DEF Windowed
  <2>2. UNCHANGED <<skip, left>>
    BY <1>2, Leaving DEF Unslice, samplerVars
  <2>3. \E w \in Nat : WindowAt(w)'
    BY <1>2, <2>2, Leaving DEF Windowed, WindowAt
  <2>4. output_index' <= room'
    BY <1>2 DEF Returns, Leave
  <2> QED BY <1>2, <2>1, <2>2, <2>3, <2>4, Leaving DEF Windowed
<1>3. CASE Reset
  <2>1. skip' = 0 /\ left' = WindowSize
    BY <1>3 DEF Reset, SamplersReset
  <2>2. 0 * WindowSize = 0 /\ 0 * Rate = 0
    OBVIOUS
  <2>3. WindowAt(0)'
    BY <1>3, <2>1, <2>2, Resetting DEF WindowAt
  <2>4. checked'
    BY <1>3, Resetting DEF Windowed
  <2> QED BY <1>3, <2>1, <2>3, <2>4, Resetting DEF Windowed
<1>4. CASE SkipSamples
  <2> DEFINE n == Least(skip, given - input_index)
  <2>1. /\ Windowing /\ skip > 0 /\ pc = "loop" /\ pc' = "loop" /\ checked' = (checked /\ left = 0)
        /\ made' = made \o <<>> /\ output_index' = output_index + Len(<<>>)
        /\ input_index' = input_index + n /\ UNCHANGED <<kind, taken, given, room>>
        /\ skip' = skip - n /\ left' = IF n = skip THEN WindowSize ELSE left
    BY <1>4 DEF SkipSamples, Emit, Windowing
  <2>2. n \in Nat /\ 1 <= n /\ n <= skip
    BY <2>1 DEF Least, Windowing, Counts, Windowed
  <2> HIDE DEF n
  <2>3. input_index' \in Nat /\ pc # "idle" /\ pc' # "idle"
    BY <2>1, <2>2 DEF Counts
  <2>4. Counts' /\ Len(made) \in Nat /\ Len(made') = Len(made) /\ output_index' = output_index
    BY <2>1, <2>3, EmittingNone
  <2>5. MadeWhole'
    BY <2>1, <2>3, EmittingNone DEF Windowed
  <2>6. Place' = Place + n /\ Place \in Nat
    BY <2>1, <2>2 DEF Place, Counts
  <2>7. PICK w \in Nat : WindowAt(w)
    BY DEF Windowed
  <2>8. w * WindowSize \in Nat /\ w * WindowSize * Rate \in Nat
    OBVIOUS
  <2>9. WindowAt(w)'
    BY <2>1, <2>2, <2>4, <2>6, <2>7, <2>8 DEF WindowAt, Windowed
  <2>10. left' \in 0..WindowSize /\ skip' \in Nat /\ (left' = 0 <=> skip' > 0)
    BY <2>1, <2>2 DEF Windowed
  <2>11. output_index' <= room' /\ output_index' <= input_index'
    BY <2>1, <2>2, <2>4 DEF Windowed, Counts
  <2>12. 1 <= given' /\ 1 <= room'
    BY <2>1 DEF Windowed
  <2>13. left = 0
    BY <2>1 DEF Windowed
  <2>14. checked'
    BY <2>1, <2>13 DEF Windowed
  <2> QED BY <2>1, <2>4, <2>5, <2>9, <2>10, <2>11, <2>12, <2>14 DEF Windowed
<1>5. CASE CopySamples
  <2> DEFINE n == Least(left, Least(given - input_index, room - output_index))
             outs == [k \in 1..n |-> taken + input_index + k - 1]
  <2>1. /\ Windowing /\ skip = 0 /\ pc = "loop" /\ pc' = "loop" /\ checked' = (checked /\ left > 0)
        /\ made' = made \o outs /\ output_index' = output_index + Len(outs)
        /\ input_index' = input_index + n /\ UNCHANGED <<kind, taken, given, room>>
        /\ left' = left - n /\ skip' = IF n = left THEN WindowSize * (Rate - 1) ELSE 0
    BY <1>5 DEF CopySamples, Emit, Windowing
  <2>2. n \in Nat /\ 1 <= n /\ n <= left /\ output_index + n <= room
    BY <2>1 DEF Least, Windowing, Counts, Windowed
  <2>3. Listing(outs) /\ Len(outs) = n /\ \A k \in 1..n : outs[k] = taken + input_index + k - 1
    <3>1. outs = [k \in 1..n |-> outs[k]]
      OBVIOUS
    <3> QED BY <2>2, <3>1, Made
  <2> HIDE DEF n, outs
  <2>4. input_index' \in Nat /\ pc # "idle" /\ pc' # "idle"
    BY <2>1, <2>2 DEF Counts
  <2>5. Counts' /\ Len(made) \in Nat /\ Len(made') = Len(made) + n /\ output_index' = output_index + n
    BY <2>1, <2>3, <2>4, Emitting DEF Counts
  <2>6. Place' = Place + n /\ Place \in Nat /\ Place = taken + input_index
    BY <2>1, <2>2 DEF Place, Counts
  <2>7. PICK w \in Nat : WindowAt(w)
    BY DEF Windowed
  <2>8. w * WindowSize \in Nat /\ w * WindowSize * Rate \in Nat /\ left \in 1..WindowSize
    BY <2>2 DEF Windowed
  <2>9. ASSUME NEW k \in 1..Len(outs) PROVE outs[k] = Whole(Len(made) + k - 1)
    <3> DEFINE j == WindowSize - left + k - 1
    <3>1. j \in 0..(WindowSize - 1)
      BY <2>2, <2>3, <2>8
    <3>2. Len(made) + k - 1 = w * WindowSize + j /\ outs[k] = w * WindowSize * Rate + j
      <4>1. /\ Len(made) = w * WindowSize + (WindowSize - left)
            /\ Place = w * WindowSize * Rate + (WindowSize - left)
        BY <2>1, <2>7 DEF WindowAt
      <4>2. outs[k] = Place + k - 1
        BY <2>3, <2>6
      <4> HIDE DEF j
      <4>3. j = WindowSize - left + k - 1 /\ k \in Int
        BY <2>3, <2>2 DEF j
      <4> QED BY <2>8, <4>1, <4>2, <4>3
    <3> HIDE DEF j
    <3>3. (w * WindowSize + j) \div WindowSize = w /\ (w * WindowSize + j) % WindowSize = j
      BY <3>1, Quotients
    <3> QED BY <3>2, <3>3 DEF Whole
  <2>10. MadeWhole'
    BY <2>1, <2>3, <2>4, <2>9, Emitting DEF Windowed
  <2>11. \E v \in Nat : WindowAt(v)'
    <3>1. CASE n = left
      <4>1. /\ (w + 1) * WindowSize = w * WindowSize + WindowSize
            /\ (w * WindowSize + WindowSize) * Rate = w * WindowSize * Rate + WindowSize * Rate
            /\ WindowSize * Rate \in Nat
        BY Scaled
      <4>2. WindowSize * (Rate - 1) = WindowSize * Rate - WindowSize
        BY Scaled
      <4>3. skip' > 0
        BY <2>1, <3>1
      <4>4. Len(made') = (w + 1) * WindowSize
        BY <2>1, <2>5, <2>7, <2>8, <3>1, <4>1 DEF WindowAt
      <4>5. Place' = (w + 1) * WindowSize * Rate - skip'
        BY <2>1, <2>6, <2>7, <2>8, <3>1, <4>1, <4>2 DEF WindowAt
      <4>6. WindowAt(w + 1)'
        BY <4>3, <4>4, <4>5 DEF WindowAt
      <4> QED BY <4>6
    <3>2. CASE n # left
      <4>1. /\ Len(made) = w * WindowSize + (WindowSize - left)
            /\ Place = w * WindowSize * Rate + (WindowSize - left)
        BY <2>1, <2>7 DEF WindowAt
      <4>2. skip' = 0 /\ left' = left - n
        BY <2>1, <3>2
      <4>3. /\ Len(made') = w * WindowSize + (WindowSize - left')
            /\ Place' = w * WindowSize * Rate + (WindowSize - left')
        BY <2>2, <2>5, <2>6, <2>8, <4>1, <4>2
      <4>4. WindowAt(w)'
        BY <4>2, <4>3 DEF WindowAt
      <4> QED BY <4>4
    <3> QED BY <3>1, <3>2
  <2>12. left' \in 0..WindowSize /\ skip' \in Nat /\ (left' = 0 <=> skip' > 0)
    BY <2>1, <2>2 DEF Windowed
  <2>13. output_index' <= room' /\ output_index' <= input_index'
    BY <2>1, <2>2, <2>5 DEF Windowed, Counts
  <2>14. 1 <= given' /\ 1 <= room'
    BY <2>1 DEF Windowed
  <2>15. left > 0
    BY <2>8
  <2>16. checked'
    BY <2>1, <2>15 DEF Windowed
  <2> QED BY <2>1, <2>5, <2>10, <2>11, <2>12, <2>13, <2>14, <2>16 DEF Windowed
<1>6. CASE WindowDone
  <2>1. /\ pc = "loop" /\ pc' = "leave" /\ checked' = checked /\ UNCHANGED <<skip, left>>
        /\ UNCHANGED <<kind, taken, made, given, room, input_index, output_index>> /\ Counts'
    BY <1>6, Returning DEF WindowDone, samplerVars, Return
  <2>2. input_index > 0
    BY <1>6, <2>1 DEF WindowDone, Windowing, Windowed, Counts
  <2>3. \E w \in Nat : WindowAt(w)'
    BY <2>1 DEF Windowed, WindowAt, Place
  <2> QED BY <2>1, <2>2, <2>3 DEF Windowed, MadeWhole, Whole
<1> QED
  BY <1>1, <1>2, <1>3, <1>4, <1>5, <1>6
     DEF Next, Sampling, Convolving, Playing, Reading, DecodingBits, EqualizingTaps, Building

-----------------------------------------------------------------------------
(* Resampler: after an output its kernel is behind, so that every call that *)
(* puts something out takes something.                                     *)
Resampled ==
  /\ checked /\ MadeWhole /\ output_index <= room
  /\ pc \in {"idle", "loop", "leave"}
  /\ kernel \in Nat /\ Place * Interpolation + kernel = Len(made) * Rate
  /\ pc = "loop" => 1 <= given /\ 1 <= room
  /\ pc = "loop" /\ output_index > 0 /\ input_index = 0 => kernel >= Interpolation
  /\ pc = "leave" => input_index > 0

LEMMA ResampledKeeps ==
  ASSUME Counts, Resampled, kind = "resampler", Next
  PROVE  Counts' /\ Resampled'
<1> USE SamplersAssumption
<1>1. CASE Called
  <2>1. 1 <= given' /\ 1 <= room'
    BY <1>1, Entering, Declared
  <2>2. kernel' = kernel
    BY <1>1, Entering DEF Unslice, samplerVars
  <2>3. output_index' <= room'
    BY <1>1, <2>1, Entering
  <2> QED BY <1>1, <2>1, <2>2, <2>3, Entering DEF Resampled
<1>2. CASE Returns
  <2>1. checked'
    <3>1. input_index % 1 = 0 /\ output_index >= 0
      BY ByOne DEF Counts
    <3>2. StatesOf[kind] = [required |-> 1, room |-> 1, provided |-> 0, idle |-> FALSE]
      BY Declared
    <3> QED BY <1>2, <3>1, <3>2, Leaving DEF Resampled
  <2>2. kernel' = kernel
    BY <1>2, Leaving DEF Unslice, samplerVars
  <2>3. output_index' <= room'
    BY <1>2 DEF Returns, Leave
  <2> QED BY <1>2, <2>1, <2>2, <2>3, Leaving DEF Resampled
<1>3. CASE Reset
  <2>1. kernel' = 0
    BY <1>3 DEF Reset, SamplersReset
  <2>2. 0 * Interpolation = 0 /\ 0 * Rate = 0
    OBVIOUS
  <2>3. Place' * Interpolation + kernel' = Len(made') * Rate
    BY <1>3, <2>1, <2>2, Resetting
  <2>4. checked'
    BY <1>3, Resetting DEF Resampled
  <2> QED BY <1>3, <2>1, <2>3, <2>4, Resetting DEF Resampled
<1>4. CASE NextSample
  <2>1. /\ pc = "loop" /\ pc' = "loop" /\ checked' = checked /\ kernel >= Interpolation
        /\ made' = made \o <<>> /\ output_index' = output_index + Len(<<>>)
        /\ input_index' = input_index + 1 /\ UNCHANGED <<kind, taken, given, room>>
        /\ kernel' = kernel - Interpolation
    BY <1>4 DEF NextSample, Emit, Behind
  <2>2. input_index' \in Nat /\ input_index' > 0 /\ pc # "idle" /\ pc' # "idle"
    BY <2>1 DEF Counts
  <2>3. Counts' /\ Len(made') = Len(made) /\ output_index' = output_index
    BY <2>1, <2>2, EmittingNone
  <2>4. MadeWhole'
    BY <2>1, <2>2, EmittingNone DEF Resampled
  <2>5. Place' = Place + 1 /\ Place \in Nat
    BY <2>1 DEF Place, Counts
  <2>6. kernel' \in Nat /\ Place' * Interpolation + kernel' = Len(made') * Rate
    <3>1. (Place + 1) * Interpolation = Place * Interpolation + Interpolation
          /\ Place * Interpolation \in Int
      BY <2>5, Scaled
    <3>2. kernel \in Nat /\ Place * Interpolation + kernel = Len(made) * Rate
      BY DEF Resampled
    <3> QED BY <2>1, <2>3, <2>5, <3>1, <3>2
  <2>7. output_index' <= room' /\ 1 <= given' /\ 1 <= room'
    BY <2>1, <2>3 DEF Resampled
  <2> QED BY <2>1, <2>2, <2>3, <2>4, <2>6, <2>7 DEF Resampled
<1>5. CASE ApplyKernel
  <2> DEFINE out == <<taken + input_index, kernel>>
  <2>1. /\ pc = "loop" /\ pc' = "loop" /\ checked' = checked /\ ~Behind
        /\ made' = made \o <<out>> /\ output_index' = output_index + Len(<<out>>)
        /\ input_index' = input_index + 0 /\ UNCHANGED <<kind, taken, given, room>>
        /\ kernel' = kernel + Rate /\ input_index < given /\ output_index < room
    BY <1>5 DEF ApplyKernel, Emit
  <2>2. out = <<Place, kernel>> /\ kernel \in Nat /\ kernel < Interpolation
    BY <2>1 DEF Resampled, Behind, Place
  <2> HIDE DEF out
  <2>3. input_index' = input_index /\ input_index' \in Nat /\ pc # "idle" /\ pc' # "idle"
    BY <2>1 DEF Counts
  <2>4. Counts' /\ Len(made) \in Nat /\ Len(made') = Len(made) + 1 /\ output_index' = output_index + 1
    BY <2>1, <2>3, EmittingOne
  <2>5. Place' = Place /\ Place \in Nat
    BY <2>1, <2>3 DEF Place, Counts
  <2>6. Place * Interpolation + kernel = Len(made) * Rate
    BY DEF Resampled
  <2>7. out = Whole(Len(made))
    <3>1. /\ (Place * Interpolation + kernel) \div Interpolation = Place
          /\ (Place * Interpolation + kernel) % Interpolation = kernel
      <4>1. Interpolation \in Nat \ {0} /\ kernel \in 0..(Interpolation - 1)
        BY <2>2
      <4> QED BY <2>5, <4>1, Quotients
    <3> QED BY <2>2, <2>6, <3>1 DEF Whole
  <2>8. MadeWhole'
    BY <2>1, <2>3, <2>7, EmittingOne DEF Resampled
  <2>9. kernel' \in Nat /\ kernel' >= Interpolation /\ Place' * Interpolation + kernel' = Len(made') * Rate
    <3>1. (Len(made) + 1) * Rate = Len(made) * Rate + Rate /\ Len(made) * Rate \in Int
      <4>1. Rate \in Nat \ {0} /\ Len(made) \in Int
        BY <2>4
      <4> QED BY <4>1, Scaled
    <3>2. Place * Interpolation \in Int
      BY <2>5
    <3>3. kernel' = kernel + Rate /\ kernel' \in Nat /\ kernel' >= Interpolation
      BY <2>1, <2>2
    <3>4. Place' * Interpolation = Place * Interpolation /\ Len(made') * Rate = Len(made) * Rate + Rate
      BY <2>4, <2>5, <3>1
    <3> QED BY <2>2, <2>6, <3>1, <3>2, <3>3, <3>4
  <2>10. output_index' <= room' /\ 1 <= given' /\ 1 <= room'
    BY <2>1, <2>4 DEF Resampled, Counts
  <2> QED BY <2>1, <2>3, <2>4, <2>8, <2>9, <2>10 DEF Resampled
<1>6. CASE ResamplerDone
  <2>1. /\ pc = "loop" /\ pc' = "leave" /\ checked' = checked /\ kernel' = kernel
        /\ UNCHANGED <<kind, taken, made, given, room, input_index, output_index>> /\ Counts'
    BY <1>6, Returning DEF ResamplerDone, samplerVars, Return
  <2>2. input_index > 0
    BY <1>6, <2>1 DEF ResamplerDone, Behind, Resampled, Counts
  <2>3. Place' = Place
    BY <2>1 DEF Place
  <2> QED BY <2>1, <2>2, <2>3 DEF Resampled, MadeWhole, Whole
<1> QED
  BY <1>1, <1>2, <1>3, <1>4, <1>5, <1>6
     DEF Next, Sampling, Convolving, Playing, Reading, DecodingBits, EqualizingTaps, Building

-----------------------------------------------------------------------------
(* RunningSum after the values 0..(n - 1): the latest of them are in their *)
(* cells, and the sum is of them.                                          *)
Oldest(n) == Greatest(0, n - SumSize)

Summed(s, n) ==
  /\ s.data \in [0..(SumSize - 1) -> Int]
  /\ s.size = Least(n, SumSize) /\ s.index = n % SumSize
  /\ \A j \in Oldest(n)..(n - 1) : s.data[j % SumSize] = j
  /\ \A i \in 0..(SumSize - 1) :
       s.data[i] # Zero => s.data[i] \in Oldest(n)..(n - 1) /\ s.data[i] % SumSize = i
  /\ s.sum = Oldest(n)..(n - 1)

LEMMA Cells ==
  ASSUME NEW n \in Nat
  PROVE  /\ n % SumSize \in 0..(SumSize - 1)
         /\ (n + 1) % SumSize = ((n % SumSize) + 1) % SumSize
         /\ n >= SumSize => (n - SumSize) % SumSize = n % SumSize
         /\ \A j \in Nat : j < n /\ n - j < SumSize => j % SumSize # n % SumSize
<1> USE RunningSumAssumption
<1> DEFINE q == n \div SumSize
           r == n % SumSize
<1>1. q \in Nat /\ r \in 0..(SumSize - 1) /\ n = q * SumSize + r
  BY Rounding
<1> HIDE DEF q, r
<1>2. (n + 1) % SumSize = (r + 1) % SumSize
  <2>1. (n + 1) % SumSize = IF r + 1 = SumSize THEN 0 ELSE r + 1
    BY Successor DEF r
  <2>2. r % SumSize = r
    <3>1. (0 * SumSize + r) % SumSize = r /\ 0 * SumSize + r = r
      BY <1>1, Quotients
    <3> QED BY <3>1
  <2>3. (r + 1) % SumSize = IF (r % SumSize) + 1 = SumSize THEN 0 ELSE (r % SumSize) + 1
    <3>1. r \in Nat /\ SumSize \in Nat \ {0}
      BY <1>1
    <3> QED BY <3>1, Successor
  <2> QED BY <2>1, <2>2, <2>3
<1>3. ASSUME n >= SumSize PROVE (n - SumSize) % SumSize = r
  <2>1. q # 0
    BY <1>1, <1>3
  <2>2. q - 1 \in Nat /\ (q - 1 + 1) * SumSize = (q - 1) * SumSize + SumSize
    BY <1>1, <2>1, Scaled
  <2>3. n - SumSize = (q - 1) * SumSize + r
    BY <1>1, <2>2
  <2> QED BY <1>1, <2>2, <2>3, Quotients
<1>4. ASSUME NEW j \in Nat, j < n, n - j < SumSize, j % SumSize = r PROVE FALSE
  <2> DEFINE p == j \div SumSize
  <2>1. p \in Nat /\ j = p * SumSize + r
    BY <1>4, Rounding
  <2> HIDE DEF p
  <2>2. p * SumSize \in Int /\ q * SumSize \in Int /\ (p + 1) * SumSize = p * SumSize + SumSize
    BY <1>1, <2>1, Scaled
  <2>3. p * SumSize < q * SumSize /\ q * SumSize < (p + 1) * SumSize
    BY <1>1, <1>4, <2>1, <2>2
  <2>4. p < q /\ q < p + 1
    BY <1>1, <2>1, <2>3, Scaled
  <2> QED BY <1>1, <2>1, <2>4
<1> QED BY <1>1, <1>2, <1>3, <1>4 DEF r

LEMMA Starting == Summed(Cleared, 0)
<1>1. 0 % SumSize = 0
  BY RunningSumAssumption
<1>2. Oldest(0) = 0 /\ Least(0, SumSize) = 0
  BY RunningSumAssumption DEF Oldest, Greatest, Least
<1>3. 0..(0 - 1) = {}
  OBVIOUS
<1> QED BY <1>1, <1>2, <1>3 DEF Summed, Cleared, Zero

LEMMA Adding ==
  ASSUME NEW s, NEW n \in Nat, Summed(s, n)
  PROVE  Summed(Add(s, n), n + 1)
<1> USE RunningSumAssumption
<1> DEFINE t == Add(s, n)
           d == [s.data EXCEPT ![s.index] = n]
<1>1. /\ s.data \in [0..(SumSize - 1) -> Int] /\ s.size = Least(n, SumSize) /\ s.index = n % SumSize
      /\ s.sum = Oldest(n)..(n - 1)
      /\ n % SumSize \in 0..(SumSize - 1)
  BY Cells DEF Summed
<1>2. /\ t.data = d /\ t.index = (s.index + 1) % SumSize
      /\ t.size = IF s.size = SumSize THEN s.size ELSE s.size + 1
      /\ t.sum = IF s.iterations + 1 > MaxIterations THEN {d[i] : i \in DOMAIN d} \ {Zero}
                 ELSE (IF s.size = SumSize THEN s.sum \ {s.data[s.index]} ELSE s.sum) \cup {n}
  BY DEF Add
<1>3. d \in [0..(SumSize - 1) -> Int] /\ d[n % SumSize] = n
      /\ \A i \in 0..(SumSize - 1) : i # n % SumSize => d[i] = s.data[i]
  BY <1>1
<1> HIDE DEF t, d
<1>4. t.size = Least(n + 1, SumSize)
  BY <1>1, <1>2 DEF Least
<1>5. t.index = (n + 1) % SumSize
  BY <1>1, <1>2, Cells
<1>6. /\ Oldest(n) \in Nat /\ Oldest(n + 1) \in Nat
      /\ Oldest(n + 1) = IF n < SumSize THEN Oldest(n) ELSE Oldest(n) + 1
      /\ n < SumSize => Oldest(n) = 0
      /\ n >= SumSize => Oldest(n) = n - SumSize
      /\ Oldest(n) <= n
  BY DEF Oldest, Greatest
<1>7. ASSUME NEW j \in Oldest(n + 1)..(n + 1 - 1) PROVE d[j % SumSize] = j
  <2>1. CASE j = n
    BY <1>3, <2>1
  <2>2. CASE j # n
    <3>1. j \in Nat /\ j \in Oldest(n)..(n - 1) /\ j < n /\ n - j < SumSize
      BY <1>6, <2>2
    <3>2. j % SumSize # n % SumSize /\ j % SumSize \in 0..(SumSize - 1)
      BY <3>1, Cells
    <3>3. s.data[j % SumSize] = j
      BY <3>1 DEF Summed
    <3> QED BY <1>3, <3>2, <3>3
  <2> QED BY <2>1, <2>2
<1>8. ASSUME NEW i \in 0..(SumSize - 1), d[i] # Zero
      PROVE  d[i] \in Oldest(n + 1)..(n + 1 - 1) /\ d[i] % SumSize = i
  <2>1. CASE i = n % SumSize
    BY <1>3, <1>6, <2>1
  <2>2. CASE i # n % SumSize
    <3>1. d[i] = s.data[i] /\ d[i] \in Oldest(n)..(n - 1) /\ d[i] % SumSize = i
      BY <1>3, <1>8, <2>2 DEF Summed
    <3>2. n >= SumSize => d[i] # n - SumSize
      BY <2>2, <3>1, Cells
    <3> QED BY <1>6, <3>1, <3>2
  <2> QED BY <2>1, <2>2
<1>9. t.sum = Oldest(n + 1)..(n + 1 - 1)
  <2>1. {d[i] : i \in DOMAIN d} \ {Zero} = Oldest(n + 1)..(n + 1 - 1)
    <3>1. ASSUME NEW j \in Oldest(n + 1)..(n + 1 - 1) PROVE \E i \in DOMAIN d : d[i] = j /\ j # Zero
      <4>1. j \in Nat
        BY <1>6
      <4>2. d[j % SumSize] = j /\ j % SumSize \in DOMAIN d /\ j # Zero
        BY <1>3, <1>7, <4>1, Cells DEF Zero
      <4> QED BY <4>2
    <3>2. ASSUME NEW i \in DOMAIN d, d[i] # Zero PROVE d[i] \in Oldest(n + 1)..(n + 1 - 1)
      BY <1>3, <1>8, <3>2
    <3> QED BY <3>1, <3>2
  <2>2. CASE n < SumSize
    <3>1. s.size # SumSize
      BY <1>1, <2>2 DEF Least
    <3>2. (Oldest(n)..(n - 1)) \cup {n} = Oldest(n + 1)..(n + 1 - 1)
      BY <1>6, <2>2
    <3> QED BY <1>1, <1>2, <2>1, <3>1, <3>2
  <2>3. CASE n >= SumSize
    <3>1. s.size = SumSize
      BY <1>1, <2>3 DEF Least
    <3>2. s.data[s.index] = n - SumSize
      <4>1. n - SumSize \in Nat /\ n - SumSize \in Oldest(n)..(n - 1)
        BY <1>6, <2>3
      <4>2. s.data[(n - SumSize) % SumSize] = n - SumSize
        BY <4>1 DEF Summed
      <4> QED BY <1>1, <2>3, <4>2, Cells
    <3>3. ((Oldest(n)..(n - 1)) \ {n - SumSize}) \cup {n} = Oldest(n + 1)..(n + 1 - 1)
      BY <1>6, <2>3
    <3> QED BY <1>1, <1>2, <2>1, <3>1, <3>2, <3>3
  <2> QED BY <2>2, <2>3
<1>10. t.data \in [0..(SumSize - 1) -> Int]
  BY <1>2, <1>3
<1>11. Summed(t, n + 1)
  BY <1>2, <1>4, <1>5, <1>7, <1>8, <1>9, <1>10 DEF Summed
<1> QED BY <1>11 DEF t

-----------------------------------------------------------------------------
(* FmSnrEstimator: a call takes whole steps, so that none is left to skip. *)
Estimated ==
  /\ checked /\ MadeWhole /\ output_index <= room
  /\ pc \in {"idle", "loop", "leave"}
  /\ skip \in 0..(Rate - 1) /\ Place + skip = Len(made) * Rate
  /\ Summed(power, Place)
  /\ pc # "loop" => skip = 0
  /\ pc = "loop" => /\ Rate <= given /\ 1 <= room
                    /\ input_index <= SnrSize /\ output_index * Rate = input_index + skip
  /\ pc = "leave" => input_index > 0 /\ input_index % Rate = 0 /\ 1 <= output_index

LEMMA SnrSizes ==
  ASSUME NEW g \in Nat, NEW r \in Nat, Rate <= g, 1 <= r
  PROVE  \E q \in Nat : q >= 1 /\ q <= r /\ RoundDown(Least(g, r * Rate), Rate) = q * Rate
<1> USE SamplersAssumption
<1> DEFINE n == Least(g, r * Rate)
           q == n \div Rate
<1>1. r * Rate \in Nat /\ 1 * Rate <= r * Rate /\ 1 * Rate = Rate
  BY Scaled
<1>2. n \in Nat /\ Rate <= n /\ n <= r * Rate
  BY <1>1 DEF Least
<1>3. RoundDown(n, Rate) = q * Rate
  BY DEF RoundDown
<1> HIDE DEF n
<1>4. q \in Nat /\ q * Rate <= n /\ n < q * Rate + Rate
  BY <1>2, Rounding
<1> HIDE DEF q
<1>5. q # 0
  BY <1>2, <1>4
<1>6. q <= r
  <2>1. q * Rate \in Int /\ q * Rate <= r * Rate
    BY <1>1, <1>2, <1>4
  <2> QED BY <1>4, <2>1, Scaled
<1>7. RoundDown(Least(g, r * Rate), Rate) = q * Rate
  BY <1>3 DEF n
<1>8. q >= 1
  BY <1>4, <1>5
<1> QED BY <1>4, <1>6, <1>7, <1>8

LEMMA EstimatedKeeps ==
  ASSUME Counts, Estimated, kind = "snr", Next
  PROVE  Counts' /\ Estimated'
<1> USE SamplersAssumption
<1>1. CASE Called
  <2>1. Rate <= given' /\ 1 <= room'
    BY <1>1, Entering, Declared
  <2>2. UNCHANGED <<skip, power>>
    BY <1>1, Entering DEF Unslice, samplerVars
  <2>3. output_index' <= room'
    BY <1>1, <2>1, Entering
  <2>4. input_index' <= SnrSize' /\ output_index' * Rate = input_index' + skip'
    <3>1. PICK q \in Nat : SnrSize' = q * Rate
      <4>1. given' \in Nat /\ room' \in Nat
        BY <1>1, Entering
      <4> QED BY <2>1, <4>1, SnrSizes DEF SnrSize
    <3>2. q * Rate \in Nat /\ 0 * Rate = 0
      OBVIOUS
    <3>3. skip = 0
      BY <1>1, Entering DEF Estimated
    <3> QED BY <1>1, <2>2, <3>1, <3>2, <3>3, Entering
  <2> QED BY <1>1, <2>1, <2>2, <2>3, <2>4, Entering DEF Estimated
<1>2. CASE Returns
  <2>1. checked'
    <3>1. StatesOf[kind] = [required |-> Rate, room |-> 1, provided |-> 1, idle |-> FALSE]
      BY Declared
    <3> QED BY <1>2, <3>1, Leaving DEF Estimated
  <2>2. UNCHANGED <<skip, power>>
    BY <1>2, Leaving DEF Unslice, samplerVars
  <2>3. output_index' <= room'
    BY <1>2 DEF Returns, Leave
  <2>4. Summed(power, Place)'
    BY <1>2, <2>2, Leaving DEF Estimated
  <2> QED BY <1>2, <2>1, <2>2, <2>3, <2>4, Leaving DEF Estimated
<1>3. CASE Reset
  <2>1. skip' = 0 /\ power' = Cleared
    BY <1>3 DEF Reset, SamplersReset
  <2>2. 0 * Rate = 0
    OBVIOUS
  <2>3. Place' + skip' = Len(made') * Rate
    BY <1>3, <2>1, <2>2, Resetting
  <2>4. checked'
    BY <1>3, Resetting DEF Estimated
  <2>5. Summed(power, Place)'
    BY <1>3, <2>1, Resetting, Starting
  <2> QED BY <1>3, <2>1, <2>3, <2>4, <2>5, Resetting DEF Estimated
<1>4. CASE AddPower
  <2> DEFINE out == <<taken + input_index, power'.sum, power'.size>>
  <2>1. /\ pc = "loop" /\ pc' = "loop" /\ checked' = checked /\ input_index < SnrSize
        /\ power' = Add(power, taken + input_index)
        /\ made' = made \o (IF skip = 0 THEN <<out>> ELSE <<>>)
        /\ output_index' = output_index + Len(IF skip = 0 THEN <<out>> ELSE <<>>)
        /\ input_index' = input_index + 1 /\ UNCHANGED <<kind, taken, given, room>>
        /\ skip' = (IF skip = 0 THEN Rate ELSE skip) - 1
    BY <1>4 DEF AddPower, Emit
  <2>2. Place = taken + input_index /\ Place \in Nat
    BY DEF Place, Counts
  <2>3. out = <<Place, power'.sum, power'.size>>
    BY <2>2
  <2> HIDE DEF out
  <2>4. Summed(power', Place + 1)
    BY <2>1, <2>2, Adding DEF Estimated
  <2>5. input_index' \in Nat /\ pc # "idle" /\ pc' # "idle" /\ Place' = Place + 1
    BY <2>1, <2>2 DEF Counts, Place
  <2>6. Place + skip = Len(made) * Rate /\ skip \in 0..(Rate - 1) /\ output_index * Rate = input_index + skip
    BY <2>1 DEF Estimated
  <2>7. SnrSize' = SnrSize /\ Rate <= given' /\ 1 <= room'
    BY <2>1 DEF Estimated, SnrSize, RoundDown
  <2>8. PICK q \in Nat : q >= 1 /\ q <= room /\ SnrSize = q * Rate
    BY <2>1, SnrSizes DEF Estimated, SnrSize, Counts
  <2>9. input_index' <= SnrSize' /\ q * Rate \in Nat
    BY <2>1, <2>7, <2>8 DEF Counts
  <2>10. skip' \in 0..(Rate - 1)
    BY <2>1, <2>6
  <2>11. CASE skip = 0
    <3>1. made' = made \o <<out>> /\ output_index' = output_index + Len(<<out>>) /\ skip' = Rate - 1
      BY <2>1, <2>11
    <3>2. Counts' /\ Len(made) \in Nat /\ Len(made') = Len(made) + 1 /\ output_index' = output_index + 1
      BY <2>1, <2>5, <3>1, EmittingOne
    <3>3. Len(made) * Rate = Place
      BY <2>2, <2>6, <2>11, <3>2
    <3>4. out = Whole(Len(made))
      <4> DEFINE first == Greatest(0, Len(made) * Rate - SumSize + 1)
      <4>1. first = Oldest(Place + 1) /\ first \in Nat
        BY <2>2, <3>3, RunningSumAssumption DEF Oldest, Greatest
      <4>2. power'.sum = first..Place
        BY <2>2, <2>4, <4>1 DEF Summed
      <4>3. power'.size = Place - first + 1
        BY <2>2, <2>4, <3>3, RunningSumAssumption DEF Summed, Greatest, Least
      <4> HIDE DEF first
      <4>4. Whole(Len(made)) = <<Place, first..Place, Place - first + 1>>
        BY <3>3 DEF Whole, first
      <4> QED BY <2>3, <4>2, <4>3, <4>4
    <3>5. MadeWhole'
      BY <2>1, <2>5, <3>1, <3>4, EmittingOne DEF Estimated
    <3>6. Place' + skip' = Len(made') * Rate
      <4>1. (Len(made) + 1) * Rate = Len(made) * Rate + Rate
        BY <3>2, Scaled
      <4> QED BY <2>2, <2>5, <3>1, <3>2, <3>3, <4>1
    <3>7. output_index' * Rate = input_index' + skip'
      <4>1. output_index \in Nat /\ input_index \in Nat
        BY DEF Counts
      <4>2. (output_index + 1) * Rate = output_index * Rate + Rate
        BY <4>1, Scaled
      <4> QED BY <2>1, <2>6, <2>11, <3>1, <3>2, <4>1, <4>2
    <3>8. output_index' <= room'
      <4>1. output_index \in Nat /\ input_index \in Nat /\ room \in Nat
        BY DEF Counts
      <4>2. output_index * Rate < q * Rate
        BY <2>1, <2>6, <2>8, <2>11, <4>1
      <4>3. output_index < q
        BY <4>1, <4>2, Scaled
      <4> QED BY <2>1, <2>8, <3>2, <4>1, <4>3
    <3>9. Summed(power, Place)'
      BY <2>4, <2>5
    <3> QED BY <2>1, <2>7, <2>9, <2>10, <3>2, <3>5, <3>6, <3>7, <3>8, <3>9 DEF Estimated
  <2>12. CASE skip # 0
    <3>1. made' = made \o <<>> /\ output_index' = output_index + Len(<<>>) /\ skip' = skip - 1
      BY <2>1, <2>12
    <3>2. Counts' /\ Len(made) \in Nat /\ Len(made') = Len(made) /\ output_index' = output_index
      BY <2>1, <2>5, <3>1, EmittingNone
    <3>3. MadeWhole'
      BY <2>1, <2>5, <3>1, EmittingNone DEF Estimated
    <3>4. Place' + skip' = Len(made') * Rate
      BY <2>2, <2>5, <2>6, <3>1, <3>2
    <3>5. output_index' * Rate = input_index' + skip'
      BY <2>1, <2>6, <3>1, <3>2 DEF Counts
    <3>6. output_index' <= room'
      BY <2>1, <3>2 DEF Estimated
    <3>7. Summed(power, Place)'
      BY <2>4, <2>5
    <3> QED BY <2>1, <2>7, <2>9, <2>10, <3>2, <3>3, <3>4, <3>5, <3>6, <3>7 DEF Estimated
  <2> QED BY <2>11, <2>12
<1>5. CASE SnrDone
  <2>1. /\ pc = "loop" /\ pc' = "leave" /\ checked' = checked /\ skip' = 0 /\ power' = power
        /\ input_index = SnrSize
        /\ UNCHANGED <<kind, taken, made, given, room, input_index, output_index>> /\ Counts'
    BY <1>5, Returning DEF SnrDone, samplerVars, Return
  <2>2. PICK q \in Nat : q >= 1 /\ q <= room /\ SnrSize = q * Rate
    BY <2>1, SnrSizes DEF Estimated, SnrSize, Counts
  <2>3. output_index \in Nat /\ q * Rate \in Int /\ output_index * Rate = q * Rate + skip /\ skip \in 0..(Rate - 1)
    BY <2>1, <2>2 DEF Counts, Estimated
  <2>4. q <= output_index /\ output_index < q + 1
    <3>1. (q + 1) * Rate = q * Rate + Rate /\ output_index * Rate \in Int
      BY <2>3, Scaled
    <3>2. q * Rate <= output_index * Rate /\ output_index * Rate < (q + 1) * Rate
      BY <2>3, <3>1
    <3> QED BY <2>3, <3>2, Scaled
  <2>5. skip = 0 /\ output_index = q
    BY <2>2, <2>3, <2>4
  <2>6. input_index > 0 /\ input_index % Rate = 0
    <3>1. (q * Rate + 0) % Rate = 0 /\ q * Rate > 0
      BY <2>2, Quotients
    <3> QED BY <2>1, <2>2, <2>3, <3>1
  <2>7. Place' = Place
    BY <2>1 DEF Place
  <2>8. Place' + skip' = Len(made') * Rate /\ Summed(power, Place)'
    BY <2>1, <2>5, <2>7 DEF Estimated
  <2>9. MadeWhole' /\ output_index' <= room'
    BY <2>1 DEF Estimated, MadeWhole, Whole
  <2> QED BY <2>1, <2>2, <2>5, <2>6, <2>8, <2>9 DEF Estimated
<1> QED
  BY <1>1, <1>2, <1>3, <1>4, <1>5
     DEF Next, Sampling, Convolving, Playing, Reading, DecodingBits, EqualizingTaps, Building

-----------------------------------------------------------------------------
(* RdsDemodulator: the phase is measured at every sample until it is found, *)
(* which it is when the sums are full, and at every so many after that.    *)
Demodulated ==
  /\ checked /\ MadeWhole /\ output_index <= room
  /\ pc \in {"idle", "loop", "leave"}
  /\ Place = Len(made)
  /\ phase \in [found : BOOLEAN, skipped : Nat]
  /\ phase.found => Len(made) >= SumSize /\ phase.skipped = (Len(made) - SumSize) % (SkipRate + 1)
  /\ ~phase.found => Len(made) < SumSize /\ power.size = Len(made)
  /\ pc = "loop" => 1 <= given /\ 1 <= room /\ output_index = input_index
  /\ pc = "leave" => input_index > 0 /\ 1 <= output_index

LEMMA DemodulatedKeeps ==
  ASSUME Counts, Demodulated, kind = "demod", Next
  PROVE  Counts' /\ Demodulated'
<1> USE SamplersAssumption, RunningSumAssumption
<1>1. CASE Called
  <2>1. 1 <= given' /\ 1 <= room'
    BY <1>1, Entering, Declared
  <2>2. UNCHANGED <<phase, power>>
    BY <1>1, Entering DEF Unslice, samplerVars
  <2>3. output_index' <= room'
    BY <1>1, <2>1, Entering
  <2> QED BY <1>1, <2>1, <2>2, <2>3, Entering DEF Demodulated
<1>2. CASE Returns
  <2>1. checked'
    <3>1. input_index % 1 = 0
      BY ByOne DEF Counts
    <3>2. StatesOf[kind] = [required |-> 1, room |-> 1, provided |-> 1, idle |-> FALSE]
      BY Declared
    <3> QED BY <1>2, <3>1, <3>2, Leaving DEF Demodulated
  <2>2. UNCHANGED <<phase, power>>
    BY <1>2, Leaving DEF Unslice, samplerVars
  <2>3. output_index' <= room'
    BY <1>2 DEF Returns, Leave
  <2> QED BY <1>2, <2>1, <2>2, <2>3, Leaving DEF Demodulated
<1>3. CASE Reset
  <2>1. phase' = [found |-> FALSE, skipped |-> 0] /\ power'.size = 0
    BY <1>3 DEF Reset, SamplersReset, NoPhase, Cleared
  <2>2. checked'
    BY <1>3, Resetting DEF Demodulated
  <2> QED BY <1>3, <2>1, <2>2, Resetting DEF Demodulated
<1>4. ASSUME Demodulating, pc' = pc, checked' = checked, NEW age \in Nat,
             made' = made \o << <<taken + input_index, age>> >>,
             output_index' = output_index + Len(<< <<taken + input_index, age>> >>),
             input_index' = input_index + 1, UNCHANGED <<kind, taken, given, room>>,
             age = IF Len(made) < SumSize THEN 0 ELSE (Len(made) - SumSize + 1) % (SkipRate + 1)
      PROVE  /\ Counts' /\ checked' /\ MadeWhole' /\ output_index' <= room' /\ pc' = "loop"
             /\ Place' = Len(made') /\ Len(made') = Len(made) + 1 /\ Len(made) \in Nat
             /\ 1 <= given' /\ 1 <= room' /\ output_index' = input_index'
  <2> DEFINE out == <<taken + input_index, age>>
  <2>1. /\ pc = "loop" /\ input_index < given /\ input_index < room /\ output_index = input_index
        /\ Place = Len(made) /\ 1 <= given /\ 1 <= room
    BY <1>4 DEF Demodulating, Demodulated, Least, Counts
  <2>2. input_index' \in Nat /\ pc # "idle" /\ pc' # "idle"
    BY <1>4, <2>1 DEF Counts
  <2>3. made' = made \o <<out>> /\ output_index' = output_index + Len(<<out>>) /\ UNCHANGED <<kind, taken, given, room>>
    BY <1>4
  <2>4. out = Whole(Len(made))
    BY <1>4, <2>1 DEF Whole, Place
  <2> HIDE DEF out
  <2>5. Counts' /\ Len(made) \in Nat /\ Len(made') = Len(made) + 1 /\ output_index' = output_index + 1
    BY <2>2, <2>3, EmittingOne
  <2>6. MadeWhole'
    BY <2>2, <2>3, <2>4, EmittingOne DEF Demodulated
  <2>7. Place' = Len(made')
    BY <1>4, <2>1, <2>5 DEF Place, Counts
  <2>8. output_index' <= room' /\ output_index' = input_index'
    BY <1>4, <2>1, <2>5 DEF Counts
  <2>9. checked'
    BY <1>4 DEF Demodulated
  <2> QED BY <1>4, <2>1, <2>5, <2>6, <2>7, <2>8, <2>9
<1>5. CASE KeepPhase
  <2>1. /\ Demodulating /\ phase.found /\ phase.skipped < SkipRate /\ pc' = pc /\ checked' = checked
        /\ phase' = [phase EXCEPT !.skipped = @ + 1] /\ power' = power
        /\ made' = made \o << <<taken + input_index, phase'.skipped>> >>
        /\ output_index' = output_index + Len(<< <<taken + input_index, phase'.skipped>> >>)
        /\ input_index' = input_index + 1 /\ UNCHANGED <<kind, taken, given, room>>
    BY <1>5 DEF KeepPhase, Emit
  <2>2. /\ Len(made) \in Nat /\ Len(made) >= SumSize /\ phase.skipped \in Nat
        /\ phase.skipped = (Len(made) - SumSize) % (SkipRate + 1)
    <3>1. Len(made) \in Nat
      BY Joined, Listings DEF Counts
    <3> QED BY <2>1, <3>1 DEF Demodulated
  <2>3. phase'.skipped = phase.skipped + 1 /\ phase'.found /\ phase' \in [found : BOOLEAN, skipped : Nat]
    <3>1. phase \in [found : BOOLEAN, skipped : Nat]
      BY DEF Demodulated
    <3> HIDE DEF Demodulated
    <3>2. phase' = [phase EXCEPT !.skipped = phase.skipped + 1]
      BY <2>1
    <3> QED BY <2>1, <3>1, <3>2
  <2>4. phase'.skipped = (Len(made) - SumSize + 1) % (SkipRate + 1)
    <3>1. Len(made) - SumSize \in Nat /\ SkipRate + 1 \in Nat \ {0}
      BY <2>2
    <3> QED BY <2>1, <2>2, <2>3, <3>1, Successor
  <2>5. phase'.skipped = IF Len(made) < SumSize THEN 0 ELSE (Len(made) - SumSize + 1) % (SkipRate + 1)
    BY <2>2, <2>4
  <2>6. phase'.skipped \in Nat
    BY <2>3
  <2>7. /\ Counts' /\ checked' /\ MadeWhole' /\ output_index' <= room' /\ pc' = "loop"
        /\ Place' = Len(made') /\ Len(made') = Len(made) + 1
        /\ 1 <= given' /\ 1 <= room' /\ output_index' = input_index'
    BY <1>4, <2>1, <2>5, <2>6
  <2>8. Len(made') >= SumSize /\ phase'.skipped = (Len(made') - SumSize) % (SkipRate + 1)
    <3>1. Len(made') - SumSize = Len(made) - SumSize + 1
      BY <2>2, <2>7
    <3> QED BY <2>2, <2>4, <2>7, <3>1
  <2> QED BY <2>3, <2>7, <2>8 DEF Demodulated
<1>6. CASE MeasurePhase
  <2>1. /\ Demodulating /\ (phase.found => phase.skipped >= SkipRate) /\ pc' = pc /\ checked' = checked
        /\ power' = Add(power, taken + input_index)
        /\ phase' = [found |-> phase.found \/ power'.size = SumSize, skipped |-> 0]
        /\ made' = made \o << <<taken + input_index, 0>> >>
        /\ output_index' = output_index + Len(<< <<taken + input_index, 0>> >>)
        /\ input_index' = input_index + 1 /\ UNCHANGED <<kind, taken, given, room>>
    BY <1>6 DEF MeasurePhase, Emit
  <2>2. Len(made) \in Nat
    BY Joined, Listings DEF Counts
  <2>3. phase' \in [found : BOOLEAN, skipped : Nat] /\ phase'.skipped = 0
        /\ (phase'.found <=> phase.found \/ power'.size = SumSize)
    BY <2>1 DEF Demodulated
  <2>4. power'.size = IF power.size = SumSize THEN SumSize ELSE power.size + 1
    BY <2>1 DEF Add
  <2>5. phase.found => (Len(made) - SumSize + 1) % (SkipRate + 1) = 0
    <3>1. SUFFICES ASSUME phase.found PROVE (Len(made) - SumSize + 1) % (SkipRate + 1) = 0
      OBVIOUS
    <3>2. Len(made) - SumSize \in Nat /\ SkipRate + 1 \in Nat \ {0}
      BY <2>2, <3>1 DEF Demodulated
    <3>3. (Len(made) - SumSize) % (SkipRate + 1) \in 0..SkipRate
      <4>1. (Len(made) - SumSize) % (SkipRate + 1) \in 0..(SkipRate + 1 - 1)
        <5> DEFINE m == Len(made) - SumSize
                   u == SkipRate + 1
        <5>1. m \in Nat /\ u \in Nat \ {0}
          BY <3>2
        <5> HIDE DEF m, u
        <5>2. m % u \in 0..(u - 1)
          BY <5>1, Rounding
        <5> QED BY <5>2 DEF m, u
      <4>2. SkipRate + 1 - 1 = SkipRate
        OBVIOUS
      <4> QED BY <4>1, <4>2
    <3>4. phase.skipped = (Len(made) - SumSize) % (SkipRate + 1) /\ phase.skipped >= SkipRate
      BY <2>1, <3>1 DEF Demodulated
    <3>5. (Len(made) - SumSize) % (SkipRate + 1) = SkipRate
      <4> DEFINE r == (Len(made) - SumSize) % (SkipRate + 1)
      <4>1. r \in 0..SkipRate /\ r >= SkipRate
        BY <3>3, <3>4
      <4> HIDE DEF r
      <4>2. r = SkipRate
        BY <4>1
      <4> QED BY <4>2 DEF r
    <3>6. ((Len(made) - SumSize) % (SkipRate + 1)) + 1 = SkipRate + 1
      BY <3>5
    <3> QED BY <3>2, <3>6, Successor
  <2>6. 0 = IF Len(made) < SumSize THEN 0 ELSE (Len(made) - SumSize + 1) % (SkipRate + 1)
    BY <2>5 DEF Demodulated
  <2>7. /\ Counts' /\ checked' /\ MadeWhole' /\ output_index' <= room' /\ pc' = "loop"
        /\ Place' = Len(made') /\ Len(made') = Len(made) + 1
        /\ 1 <= given' /\ 1 <= room' /\ output_index' = input_index'
    BY <1>4, <2>1, <2>6
  <2>8. phase'.found => Len(made') >= SumSize /\ phase'.skipped = (Len(made') - SumSize) % (SkipRate + 1)
    <3>1. CASE phase.found
      <4>1. Len(made') - SumSize = Len(made) - SumSize + 1 /\ Len(made) >= SumSize
        BY <2>2, <2>7, <3>1 DEF Demodulated
      <4> QED BY <2>2, <2>3, <2>5, <2>7, <3>1, <4>1
    <3>2. CASE ~phase.found /\ power'.size = SumSize
      <4>1. Len(made') = SumSize
        BY <2>2, <2>4, <2>7, <3>2 DEF Demodulated
      <4>2. 0 % (SkipRate + 1) = 0
        OBVIOUS
      <4> QED BY <2>3, <4>1, <4>2
    <3> QED BY <2>3, <3>1, <3>2
  <2>9. ~phase'.found => Len(made') < SumSize /\ power'.size = Len(made')
    BY <2>2, <2>3, <2>4, <2>7 DEF Demodulated
  <2> QED BY <2>3, <2>7, <2>8, <2>9 DEF Demodulated
<1>7. CASE DemodulatorDone
  <2>1. /\ pc = "loop" /\ pc' = "leave" /\ checked' = checked /\ phase' = phase /\ power' = power
        /\ UNCHANGED <<kind, taken, made, given, room, input_index, output_index>> /\ Counts'
    BY <1>7, Returning DEF DemodulatorDone, samplerVars, Return
  <2>2. input_index > 0 /\ 1 <= output_index
    BY <1>7, <2>1 DEF DemodulatorDone, Demodulating, Least, Demodulated, Counts
  <2>3. Place' = Place
    BY <2>1 DEF Place
  <2> QED BY <2>1, <2>2, <2>3 DEF Demodulated, MadeWhole, Whole
<1> QED
  BY <1>1, <1>2, <1>3, <1>5, <1>6, <1>7
     DEF Next, Sampling, Convolving, Playing, Reading, DecodingBits, EqualizingTaps, Building

-----------------------------------------------------------------------------
(* FftFilter without decimation: what has been convolved, from the last    *)
(* block on, is in its place.                                              *)
LEMMA RoundsDown ==
  ASSUME NEW n \in Nat, NEW unit \in Nat \ {0}
  PROVE  \E q \in Nat : /\ RoundDown(n, unit) = q * unit /\ q * unit <= n
                        /\ unit <= n => 1 <= q
<1> DEFINE q == n \div unit
<1>1. RoundDown(n, unit) = q * unit
  BY DEF RoundDown
<1>2. q \in Nat /\ q * unit <= n /\ n < q * unit + unit
  BY Rounding
<1> HIDE DEF q
<1>3. unit <= n => q # 0
  BY <1>2
<1> QED BY <1>1, <1>2, <1>3

Transformed ==
  /\ checked /\ MadeWhole /\ output_index <= room
  /\ pc \in {"idle", "loop", "convolve", "leave"}
  /\ Place = Len(made)
  /\ pc \in {"loop", "convolve"} => input_index = 0 /\ output_index = 0
  /\ pc = "loop" => OutputBlock <= given /\ OutputBlock <= room
  /\ pc = "convolve" =>
       /\ \E b \in Nat : until = b * OutputBlock /\ 1 <= b
       /\ until <= room
       /\ \E m \in Nat : at + OutputBlock = m * OutputBlock
       /\ at \in Int
       /\ cells = [i \in 1..until |-> cells[i]]
       /\ \A i \in 1..until : at + OutputBlock <= i - 1 => cells[i] = taken + i - 1
  /\ pc = "leave" => input_index > 0 /\ input_index % OutputBlock = 0 /\ 1 <= output_index

LEMMA TransformedKeeps ==
  ASSUME Counts, Transformed, kind = "fft", Next
  PROVE  Counts' /\ Transformed'
<1> USE FftAssumption
<1>1. CASE Called
  <2>1. OutputBlock <= given' /\ OutputBlock <= room'
    BY <1>1, Entering, Declared
  <2>2. output_index' <= room'
    BY <1>1, <2>1, Entering
  <2> QED BY <1>1, <2>1, <2>2, Entering DEF Transformed
<1>2. CASE Returns
  <2>1. checked'
    <3>1. StatesOf[kind] = [required |-> OutputBlock, room |-> OutputBlock, provided |-> 1, idle |-> FALSE]
      BY Declared
    <3> QED BY <1>2, <3>1, Leaving DEF Transformed
  <2>2. output_index' <= room'
    BY <1>2 DEF Returns, Leave
  <2> QED BY <1>2, <2>1, <2>2, Leaving DEF Transformed
<1>3. CASE Reset
  <2>1. checked'
    BY <1>3, Resetting DEF Transformed
  <2> QED BY <1>3, <2>1, Resetting DEF Transformed
<1>4. CASE FftStart
  <2>1. /\ pc = "loop" /\ pc' = "convolve"
        /\ until' = Least(RoundDown(given, OutputBlock), RoundDown(room, OutputBlock))
        /\ checked' = (checked /\ until' >= OutputBlock)
        /\ cells' = [i \in 1..until' |-> Garbage] /\ at' = until' - OutputBlock
        /\ UNCHANGED <<kind, taken, made, given, room, input_index, output_index>>
    BY <1>4 DEF FftStart
  <2>2. \E b \in Nat : until' = b * OutputBlock /\ 1 <= b /\ until' <= room
    <3>1. given \in Nat /\ room \in Nat /\ OutputBlock <= given /\ OutputBlock <= room
      BY <2>1 DEF Counts, Transformed
    <3>2. PICK p \in Nat : RoundDown(given, OutputBlock) = p * OutputBlock /\ 1 <= p
      BY <3>1, RoundsDown
    <3>3. PICK q \in Nat : RoundDown(room, OutputBlock) = q * OutputBlock /\ q * OutputBlock <= room /\ 1 <= q
      BY <3>1, RoundsDown
    <3>4. p * OutputBlock \in Int /\ q * OutputBlock \in Int
      OBVIOUS
    <3> QED BY <2>1, <3>1, <3>2, <3>3, <3>4 DEF Least
  <2>3. PICK b \in Nat : until' = b * OutputBlock /\ 1 <= b /\ until' <= room
    BY <2>2
  <2>4. until' \in Nat /\ OutputBlock <= until'
    <3>1. b * OutputBlock \in Nat /\ 1 * OutputBlock <= b * OutputBlock /\ 1 * OutputBlock = OutputBlock
      BY <2>3, Scaled
    <3> QED BY <2>3, <3>1
  <2>5. at' \in Int /\ at' + OutputBlock = until'
    BY <2>1, <2>4
  <2>6. cells' = [i \in 1..until' |-> cells'[i]]
    BY <2>1
  <2>7. ASSUME NEW i \in 1..until' PROVE ~(at' + OutputBlock <= i - 1)
    <3>1. i \in Int /\ i <= until'
      BY <2>4
    <3>2. ~(until' <= i - 1)
      BY <2>4, <3>1
    <3> QED BY <2>5, <3>2
  <2>8. checked'
    BY <2>1, <2>4 DEF Transformed
  <2>9. Counts' /\ Place' = Len(made') /\ MadeWhole' /\ output_index' <= room'
    BY <2>1 DEF Counts, Listing, Place, MadeWhole, Whole, Transformed
  <2>10. input_index' = 0 /\ output_index' = 0
    BY <2>1 DEF Transformed
  <2> QED BY <2>1, <2>3, <2>5, <2>6, <2>7, <2>8, <2>9, <2>10 DEF Transformed
<1>5. CASE Convolve
  <2>1. /\ pc = "convolve" /\ at >= 0 /\ at' = at - OutputBlock
        /\ cells' = [i \in DOMAIN cells |->
                       IF i - 1 \in at..(at + OutputBlock - 1) THEN taken + i - 1
                       ELSE IF Direct /\ i - 1 \in (at - Shift)..(at - 1) THEN Garbage ELSE cells[i]]
        /\ until' = until
        /\ UNCHANGED <<kind, taken, made, given, room, input_index, output_index, pc, checked>>
    BY <1>5 DEF Convolve, sliceVars
  <2>2. PICK b \in Nat : until = b * OutputBlock /\ 1 <= b
    BY <2>1 DEF Transformed
  <2>3. at \in Int /\ cells = [i \in 1..until |-> cells[i]] /\ until \in Nat
    <3>1. b * OutputBlock \in Nat
      OBVIOUS
    <3> QED BY <2>1, <2>2, <3>1 DEF Transformed
  <2>4. PICK m \in Nat : at + OutputBlock = m * OutputBlock
    BY <2>1 DEF Transformed
  <2>5. \E l \in Nat : at' + OutputBlock = l * OutputBlock
    <3>1. m # 0
      BY <2>1, <2>3, <2>4
    <3>2. m - 1 \in Nat /\ (m - 1 + 1) * OutputBlock = (m - 1) * OutputBlock + OutputBlock /\ m - 1 + 1 = m
          /\ (m - 1) * OutputBlock \in Int
      BY <3>1, Scaled
    <3>3. at' + OutputBlock = (m - 1) * OutputBlock
      BY <2>1, <2>3, <2>4, <3>2
    <3> QED BY <3>2, <3>3
  <2>6. at' \in Int /\ at' + OutputBlock = at
    BY <2>1, <2>3
  <2>7. DOMAIN cells = 1..until
    BY <2>3
  <2>8. cells' = [i \in 1..until' |-> cells'[i]]
    BY <2>1, <2>7
  <2>9. ASSUME NEW i \in 1..until', at' + OutputBlock <= i - 1
        PROVE  cells'[i] = taken' + i - 1
    <3>1. i \in DOMAIN cells /\ at <= i - 1 /\ taken' = taken /\ i \in 1..until
      BY <2>1, <2>6, <2>7, <2>9
    <3>2. CASE i - 1 <= at + OutputBlock - 1
      <4>1. i - 1 \in at..(at + OutputBlock - 1)
        BY <2>3, <3>1, <3>2
      <4> QED BY <2>1, <3>1, <4>1
    <3>3. CASE ~(i - 1 <= at + OutputBlock - 1)
      <4>1. i - 1 \notin at..(at + OutputBlock - 1) /\ i - 1 \notin (at - Shift)..(at - 1)
            /\ at + OutputBlock <= i - 1
        BY <2>3, <3>1, <3>3
      <4>2. cells[i] = taken + i - 1
        BY <2>1, <3>1, <4>1 DEF Transformed
      <4> QED BY <2>1, <3>1, <4>1, <4>2
    <3> QED BY <3>2, <3>3
  <2>10. Counts' /\ Place' = Len(made') /\ MadeWhole' /\ output_index' <= room' /\ checked'
    BY <2>1 DEF Counts, Listing, Place, MadeWhole, Whole, Transformed
  <2>11. input_index' = 0 /\ output_index' = 0 /\ pc' = "convolve" /\ until' <= room'
    BY <2>1 DEF Transformed
  <2> QED BY <2>1, <2>2, <2>5, <2>6, <2>8, <2>9, <2>10, <2>11 DEF Transformed
<1>6. CASE Convolved
  <2>1. /\ pc = "convolve" /\ pc' = "leave" /\ at < 0 /\ checked' = checked
        /\ made' = made \o cells /\ output_index' = output_index + Len(cells)
        /\ input_index' = input_index + until /\ UNCHANGED <<kind, taken, given, room>>
        /\ input_index = 0 /\ output_index = 0 /\ until <= room /\ Place = Len(made)
    BY <1>6 DEF Convolved, Emit, Transformed
  <2>2. PICK b \in Nat : until = b * OutputBlock /\ 1 <= b
    BY <2>1 DEF Transformed
  <2>3. until \in Nat /\ until >= 1 /\ until % OutputBlock = 0
    <3>1. b * OutputBlock \in Nat /\ 1 * OutputBlock <= b * OutputBlock /\ 1 * OutputBlock = OutputBlock
      BY <2>2, Scaled
    <3>2. (b * OutputBlock + 0) % OutputBlock = 0
      BY Quotients
    <3> QED BY <2>2, <3>1, <3>2
  <2>4. Listing(cells) /\ Len(cells) = until
    BY <2>1, <2>3, Made DEF Transformed
  <2>5. at + OutputBlock = 0
    <3>1. PICK m \in Nat : at + OutputBlock = m * OutputBlock
      BY <2>1 DEF Transformed
    <3>2. m = 0
      <4>1. at \in Int /\ m * OutputBlock < 1 * OutputBlock
        BY <2>1, <3>1 DEF Transformed
      <4> QED BY <4>1, Scaled
    <3> QED BY <3>1, <3>2
  <2>6. input_index' = until /\ input_index' \in Nat /\ output_index' = until /\ pc # "idle" /\ pc' # "idle"
    BY <2>1, <2>3, <2>4
  <2>7. Len(made) \in Nat /\ Len(made') = Len(made) + until /\ Counts'
    BY <2>1, <2>4, <2>6, Emitting
  <2>8. taken = Len(made) /\ taken \in Nat
    BY <2>1 DEF Place, Counts
  <2>9. ASSUME NEW k \in 1..Len(cells) PROVE cells[k] = Whole(Len(made) + k - 1)
    <3>1. k \in 1..until /\ at + OutputBlock <= k - 1
      BY <2>3, <2>4, <2>5
    <3>2. cells[k] = taken + k - 1
      BY <2>1, <3>1 DEF Transformed
    <3> QED BY <2>8, <3>2 DEF Whole
  <2>10. MadeWhole'
    BY <2>1, <2>4, <2>6, <2>9, Emitting DEF Transformed
  <2>11. Place' = Len(made')
    BY <2>1, <2>3, <2>6, <2>7, <2>8 DEF Place
  <2>12. checked' /\ output_index' <= room'
    BY <2>1, <2>6 DEF Transformed
  <2> QED BY <2>1, <2>3, <2>6, <2>7, <2>10, <2>11, <2>12 DEF Transformed
<1> QED
  BY <1>1, <1>2, <1>3, <1>4, <1>5, <1>6
     DEF Next, Sampling, Convolving, Playing, Reading, DecodingBits, EqualizingTaps, Building

-----------------------------------------------------------------------------
(* FftFilter with decimation: what a call may put out is limited by the    *)
(* room and by what is left to skip when it starts.                        *)
Limit == (room + Len(made) - output_index) * Rate + Rate - 1

Thinned ==
  /\ MadeWhole /\ output_index <= room + Excess
  /\ pc \in {"idle", "loop", "decimate", "leave", "aborted"}
  /\ fft_skip \in 0..(Rate - 1) /\ Place + fft_skip = Len(made) * Rate
  /\ OutputBlock % Rate = 0 => fft_skip = 0
  /\ Rate <= OutputBlock => checked
  /\ pc = "loop" => /\ input_index = 0 /\ output_index = 0
                    /\ OutputBlock <= given /\ (OutputBlock + Rate - 1) \div Rate <= room
  /\ pc = "decimate" =>
       /\ \E b \in Nat : until = b * OutputBlock /\ 1 <= b
       /\ \E c \in Nat : input_index = c * OutputBlock
       /\ input_index <= until /\ taken + until <= Limit
       /\ output_index <= Len(made)
       /\ Rate <= OutputBlock /\ input_index > 0 => 1 <= output_index
  /\ pc = "leave" => /\ input_index > 0 /\ input_index % OutputBlock = 0
                     /\ Rate <= OutputBlock => 1 <= output_index

(* The outputs of a block.                                                 *)
LEMMA Thinning ==
  ASSUME NEW s \in 0..(Rate - 1),
         NEW n, n = IF s < OutputBlock THEN (OutputBlock - s - 1) \div Rate + 1 ELSE 0
  PROVE  /\ n \in Nat /\ s + n * Rate - OutputBlock \in 0..(Rate - 1)
         /\ Rate <= OutputBlock => 1 <= n
         /\ OutputBlock % Rate = 0 /\ s = 0 => s + n * Rate - OutputBlock = 0
<1> USE SamplersAssumption, FftAssumption
<1>1. CASE s < OutputBlock
  <2> DEFINE m == OutputBlock - s - 1
             q == m \div Rate
             r == m % Rate
  <2>1. m \in Nat
    BY <1>1
  <2> HIDE DEF m
  <2>2. q \in Nat /\ r \in 0..(Rate - 1) /\ m = q * Rate + r
    <3>1. Rate \in Nat \ {0}
      OBVIOUS
    <3> QED BY <2>1, <3>1, Rounding
  <2>3. n = q + 1
    <3>1. q = (OutputBlock - s - 1) \div Rate
      BY DEF m
    <3> HIDE DEF q
    <3> QED BY <1>1, <3>1
  <2> HIDE DEF q, r
  <2>4. n * Rate = q * Rate + Rate /\ q * Rate \in Int
    BY <2>2, <2>3, Scaled
  <2>5. s + n * Rate - OutputBlock = Rate - 1 - r
    BY <2>2, <2>4 DEF m
  <2>6. ASSUME OutputBlock % Rate = 0, s = 0 PROVE r = Rate - 1
    <3>1. OutputBlock = m + 1
      BY <2>6 DEF m
    <3>2. (m + 1) % Rate = IF (m % Rate) + 1 = Rate THEN 0 ELSE (m % Rate) + 1
      <4>1. Rate \in Nat \ {0}
        OBVIOUS
      <4> QED BY <2>1, <4>1, Successor
    <3>3. (m + 1) % Rate = IF r + 1 = Rate THEN 0 ELSE r + 1
      BY <3>2 DEF r
    <3> QED BY <2>2, <2>6, <3>1, <3>3
  <2> QED BY <2>2, <2>3, <2>5, <2>6
<1>2. CASE ~(s < OutputBlock)
  <2>1. n = 0 /\ 0 * Rate = 0
    BY <1>2
  <2> QED BY <1>2, <2>1
<1> QED BY <1>1, <1>2

LEMMA ThinnedStarts ==
  ASSUME Counts, Thinned, kind = "decimator", DecimateStart
  PROVE  Counts' /\ Thinned'
<1> USE SamplersAssumption, FftAssumption
<1> DEFINE most == room * Rate + fft_skip + Rate - 1
<1>1. /\ pc = "loop" /\ pc' = "decimate"
      /\ until' = Least(RoundDown(given, OutputBlock), RoundDown(most, OutputBlock))
      /\ checked' = (checked /\ until' >= OutputBlock)
      /\ UNCHANGED <<kind, taken, made, given, room, input_index, output_index, fft_skip>>
  BY DEF DecimateStart
<1>2. /\ given \in Nat /\ room \in Nat /\ fft_skip \in 0..(Rate - 1) /\ taken \in Nat
      /\ input_index = 0 /\ output_index = 0
      /\ OutputBlock <= given /\ (OutputBlock + Rate - 1) \div Rate <= room
      /\ Place + fft_skip = Len(made) * Rate /\ Place = taken
  BY <1>1 DEF Counts, Thinned, Place
<1>3. Len(made) \in Nat
  BY Joined, Listings DEF Counts
<1>4. OutputBlock <= room * Rate /\ room * Rate \in Nat
  <2> DEFINE n == OutputBlock + Rate - 1
             q == n \div Rate
  <2>1. n \in Nat
    OBVIOUS
  <2>2. q \in Nat /\ n < q * Rate + Rate /\ q * Rate \in Int
    <3> HIDE DEF n
    <3>1. q \in Nat /\ n < q * Rate + Rate
      BY <2>1, Rounding
    <3> QED BY <3>1
  <2>3. q <= room
    BY <1>2
  <2> HIDE DEF q
  <2>4. q * Rate <= room * Rate /\ room * Rate \in Nat
    BY <1>2, <2>2, <2>3, Scaled
  <2> QED BY <2>2, <2>4
<1>5. most \in Nat /\ OutputBlock <= most
  BY <1>2, <1>4
<1> HIDE DEF most
<1>6. \E b \in Nat : until' = b * OutputBlock /\ 1 <= b /\ until' <= most
  <2>1. PICK p \in Nat : RoundDown(given, OutputBlock) = p * OutputBlock /\ 1 <= p
    BY <1>2, RoundsDown
  <2>2. PICK q \in Nat : RoundDown(most, OutputBlock) = q * OutputBlock /\ q * OutputBlock <= most /\ 1 <= q
    BY <1>5, RoundsDown
  <2>3. p * OutputBlock \in Int /\ q * OutputBlock \in Int
    OBVIOUS
  <2> QED BY <1>1, <1>5, <2>1, <2>2, <2>3 DEF Least
<1>7. PICK b \in Nat : until' = b * OutputBlock /\ 1 <= b /\ until' <= most
  BY <1>6
<1>8. until' \in Nat /\ OutputBlock <= until'
  <2>1. b * OutputBlock \in Nat /\ 1 * OutputBlock <= b * OutputBlock /\ 1 * OutputBlock = OutputBlock
    BY <1>7, Scaled
  <2> QED BY <1>7, <2>1
<1>9. taken' + until' <= Limit'
  <2>1. Limit' = (room + Len(made)) * Rate + Rate - 1
    <3>1. Limit' = (room + Len(made) - 0) * Rate + Rate - 1
      BY <1>1, <1>2 DEF Limit
    <3>2. room + Len(made) - 0 = room + Len(made)
      BY <1>2, <1>3
    <3> QED BY <3>1, <3>2
  <2>2. (room + Len(made)) * Rate = room * Rate + Len(made) * Rate /\ Len(made) * Rate \in Int
    BY <1>2, <1>3, Scaled
  <2>3. most = room * Rate + fft_skip + Rate - 1
    BY DEF most
  <2> QED BY <1>1, <1>2, <1>4, <1>7, <1>8, <2>1, <2>2, <2>3
<1>10. \E c \in Nat : input_index' = c * OutputBlock
  <2>1. input_index' = 0 * OutputBlock
    BY <1>1, <1>2
  <2> QED BY <2>1
<1>11. Rate <= OutputBlock => checked'
  BY <1>1, <1>8 DEF Thinned
<1>12. Counts' /\ MadeWhole' /\ Place' = Place
  BY <1>1 DEF Counts, Listing, Place, MadeWhole, Whole, Thinned
<1>13. output_index' <= room' + Excess' /\ input_index' <= until' /\ output_index' <= Len(made')
  <2>1. Excess' = Excess
    BY <1>1 DEF Excess
  <2> QED BY <1>1, <1>2, <1>3, <1>8, <2>1 DEF Thinned
<1>14. fft_skip' \in 0..(Rate - 1) /\ Place' + fft_skip' = Len(made') * Rate
       /\ (OutputBlock % Rate = 0 => fft_skip' = 0)
  BY <1>1, <1>2, <1>12 DEF Thinned
<1> QED BY <1>1, <1>2, <1>7, <1>9, <1>10, <1>11, <1>12, <1>13, <1>14 DEF Thinned

LEMMA ThinnedGoesOn ==
  ASSUME Counts, Thinned, kind = "decimator", DecimateBlock
  PROVE  Counts' /\ Thinned'
<1> USE SamplersAssumption, FftAssumption
<1> DEFINE n == IF fft_skip < OutputBlock THEN (OutputBlock - fft_skip - 1) \div Rate + 1 ELSE 0
           outs == [k \in 1..n |-> taken + input_index + fft_skip + (k - 1) * Rate]
           base == Len(made) - output_index
<1>1. /\ pc = "decimate" /\ pc' = pc /\ checked' = checked /\ until' = until /\ input_index < until
      /\ made' = made \o outs /\ output_index' = output_index + Len(outs)
      /\ input_index' = input_index + OutputBlock /\ UNCHANGED <<kind, taken, given, room>>
      /\ fft_skip' = fft_skip + n * Rate - OutputBlock
  BY DEF DecimateBlock, Emit, SkipAfter
<1>2. /\ fft_skip \in 0..(Rate - 1) /\ Place + fft_skip = Len(made) * Rate
      /\ (OutputBlock % Rate = 0 => fft_skip = 0)
      /\ taken + until <= Limit /\ output_index <= Len(made) /\ input_index <= until
  BY <1>1 DEF Thinned
<1>3. /\ n \in Nat /\ fft_skip' \in 0..(Rate - 1)
      /\ (Rate <= OutputBlock => 1 <= n)
      /\ (OutputBlock % Rate = 0 => fft_skip' = 0)
  BY <1>1, <1>2, Thinning
<1>4. Listing(outs) /\ Len(outs) = n /\ \A k \in 1..n : outs[k] = taken + input_index + fft_skip + (k - 1) * Rate
  <2>1. outs = [k \in 1..n |-> outs[k]]
    OBVIOUS
  <2> QED BY <1>3, <2>1, Made
<1> HIDE DEF n, outs
<1>5. taken \in Nat /\ input_index \in Nat /\ output_index \in Nat /\ room \in Nat
  BY DEF Counts
<1>6. input_index' \in Nat /\ pc # "idle" /\ pc' # "idle"
  BY <1>1, <1>5
<1>7. Counts' /\ Len(made) \in Nat /\ Len(made') = Len(made) + n /\ output_index' = output_index + n
  BY <1>1, <1>4, <1>6, Emitting
<1>8. ASSUME NEW k \in 1..Len(outs) PROVE outs[k] = Whole(Len(made) + k - 1)
  <2>1. k \in 1..n /\ Len(made) + (k - 1) = Len(made) + k - 1
    BY <1>3, <1>4, <1>7
  <2>2. outs[k] = taken + input_index + fft_skip + (k - 1) * Rate
    BY <1>4, <2>1
  <2>3. (Len(made) + (k - 1)) * Rate = Len(made) * Rate + (k - 1) * Rate
    BY <1>3, <1>7, <2>1, Scaled
  <2>4. taken + input_index + fft_skip = Len(made) * Rate
    BY <1>2 DEF Place
  <2> QED BY <2>1, <2>2, <2>3, <2>4 DEF Whole
<1>9. MadeWhole'
  BY <1>1, <1>4, <1>6, <1>8, Emitting DEF Thinned
<1>10. Place' = Place + OutputBlock /\ Place \in Nat /\ Place = taken + input_index
  BY <1>1, <1>5 DEF Place
<1>11. Place' + fft_skip' = Len(made') * Rate
  <2>1. (Len(made) + n) * Rate = Len(made) * Rate + n * Rate /\ n * Rate \in Int
    BY <1>3, <1>7, Scaled
  <2>2. Place' + fft_skip' = Place + fft_skip + n * Rate
    <3> DEFINE nRate == n * Rate
    <3>1. nRate \in Int /\ fft_skip' = fft_skip + nRate - OutputBlock
      BY <1>1, <2>1
    <3>2. fft_skip \in Int /\ Place' = Place + OutputBlock /\ Place \in Nat
      BY <1>2, <1>10
    <3> HIDE DEF nRate
    <3>3. Place' + fft_skip' = Place + fft_skip + nRate
      BY <3>1, <3>2
    <3> QED BY <3>3 DEF nRate
  <2>3. Place + fft_skip + n * Rate = Len(made) * Rate + n * Rate
    BY <1>2
  <2>4. Len(made') * Rate = (Len(made) + n) * Rate
    BY <1>7
  <2> QED BY <2>1, <2>2, <2>3, <2>4
<1>12. PICK b \in Nat : until = b * OutputBlock /\ 1 <= b
  BY <1>1 DEF Thinned
<1>13. PICK c \in Nat : input_index = c * OutputBlock
  BY <1>1 DEF Thinned
<1>14. c + 1 <= b /\ input_index' = (c + 1) * OutputBlock /\ input_index' <= until
  <2>1. c < b
    <3>1. c * OutputBlock < b * OutputBlock
      BY <1>1, <1>12, <1>13
    <3>2. OutputBlock \in Nat \ {0} /\ b \in Int /\ c \in Int
      OBVIOUS
    <3> QED BY <3>1, <3>2, Scaled
  <2>2. (c + 1) * OutputBlock = c * OutputBlock + OutputBlock /\ (c + 1) * OutputBlock <= b * OutputBlock
    BY <2>1, Scaled
  <2> QED BY <1>1, <1>12, <1>13, <2>1, <2>2
<1>15. base \in Nat /\ Len(made') - output_index' = base
  BY <1>2, <1>5, <1>7, <1>3
<1>16. Limit = (room + base) * Rate + Rate - 1 /\ Limit' = Limit
  <2>1. room + Len(made) - output_index = room + base
    BY <1>5, <1>7
  <2>2. room' + Len(made') - output_index' = room + base
    BY <1>1, <1>3, <1>5, <1>7
  <2> HIDE DEF base
  <2> QED BY <2>1, <2>2 DEF Limit
<1>17. Place' <= Limit /\ until \in Nat
  <2>1. b * OutputBlock \in Nat
    OBVIOUS
  <2>2. Place' = taken + input_index'
    BY <1>1 DEF Place
  <2>3. Limit \in Int
    <3>1. room + base \in Int
      BY <1>5, <1>15
    <3> HIDE DEF base
    <3>2. (room + base) * Rate \in Int
      BY <3>1, Scaled
    <3> QED BY <1>16, <3>2
  <2> QED BY <1>2, <1>5, <1>6, <1>12, <1>14, <2>1, <2>2, <2>3
<1>18. output_index' <= room' + Excess'
  <2> DEFINE most == room + base
  <2>1. most \in Int /\ Len(made') \in Int /\ Limit = most * Rate + Rate - 1 /\ most * Rate \in Int
    <3>1. most \in Int
      BY <1>5, <1>15
    <3>2. Limit = most * Rate + Rate - 1
      BY <1>16
    <3> HIDE DEF most
    <3> QED BY <1>3, <1>7, <3>1, <3>2, Scaled
  <2>2. output_index' = Len(made') - base
    BY <1>3, <1>5, <1>7, <1>15
  <2> HIDE DEF most
  <2>3. (most + 1) * Rate = most * Rate + Rate /\ (most + 1 + 1) * Rate = most * Rate + Rate + Rate
    BY <2>1, Scaled
  <2>4. Len(made') * Rate \in Int
    BY <2>1, Scaled
  <2>5. Len(made') * Rate < (most + 1 + 1) * Rate
    BY <1>3, <1>10, <1>11, <1>17, <2>1, <2>3, <2>4
  <2>6. Len(made') < most + 1 + 1
    <3>1. most + 1 + 1 \in Int /\ Rate \in Nat \ {0}
      BY <2>1
    <3> QED BY <2>1, <2>5, <3>1, Scaled
  <2>7. OutputBlock % Rate = 0 => Len(made') < most + 1
    <3>1. ASSUME OutputBlock % Rate = 0 PROVE Len(made') * Rate < (most + 1) * Rate
      BY <1>3, <1>10, <1>11, <1>17, <2>1, <2>3, <2>4, <3>1
    <3>2. most + 1 \in Int /\ Rate \in Nat \ {0}
      BY <2>1
    <3> QED BY <2>1, <3>1, <3>2, Scaled
  <2>8. Excess' = IF OutputBlock % Rate = 0 THEN 0 ELSE 1
    BY <1>1 DEF Excess
  <2>9. output_index' <= room + (IF OutputBlock % Rate = 0 THEN 0 ELSE 1)
    <3>1. most = room + base /\ base \in Nat
      BY <1>15 DEF most
    <3> HIDE DEF base
    <3>2. CASE OutputBlock % Rate = 0
      BY <1>5, <2>1, <2>2, <2>7, <3>1, <3>2
    <3>3. CASE OutputBlock % Rate # 0
      BY <1>5, <2>1, <2>2, <2>6, <3>1, <3>3
    <3> QED BY <3>2, <3>3
  <2> QED BY <1>1, <2>8, <2>9
<1>19. taken' + until' <= Limit'
  BY <1>1, <1>2, <1>16
<1>20. output_index' <= Len(made') /\ (Rate <= OutputBlock /\ input_index' > 0 => 1 <= output_index')
  BY <1>2, <1>3, <1>5, <1>7
<1>21. \E d \in Nat : input_index' = d * OutputBlock
  BY <1>14
<1>22. pc' = "decimate" /\ until' = b * OutputBlock /\ input_index' <= until'
       /\ (Rate <= OutputBlock => checked')
  BY <1>1, <1>12, <1>14 DEF Thinned
<1> QED BY <1>3, <1>7, <1>9, <1>11, <1>12, <1>18, <1>19, <1>20, <1>21, <1>22 DEF Thinned

LEMMA ThinnedKeeps ==
  ASSUME Counts, Thinned, kind = "decimator", Next
  PROVE  Counts' /\ Thinned'
<1> USE SamplersAssumption, FftAssumption
<1>1. CASE Called
  <2>1. OutputBlock <= given' /\ (OutputBlock + Rate - 1) \div Rate <= room'
    <3>1. StatesOf[kind] =
            [required |-> OutputBlock, room |-> (OutputBlock + Rate - 1) \div Rate, provided |-> 1, idle |-> FALSE]
      BY Declared
    <3> QED BY <1>1, <3>1, Entering
  <2>2. fft_skip' = fft_skip
    BY <1>1, Entering DEF Unslice, fftVars
  <2>3. output_index' <= room' + Excess'
    BY <1>1, Entering DEF Excess
  <2> QED BY <1>1, <2>1, <2>2, <2>3, Entering DEF Thinned
<1>2. CASE Returns
  <2>1. Rate <= OutputBlock => checked'
    <3>1. StatesOf[kind] =
            [required |-> OutputBlock, room |-> (OutputBlock + Rate - 1) \div Rate, provided |-> 1, idle |-> FALSE]
      BY Declared
    <3>2. StatesOf[kind].required = OutputBlock /\ StatesOf[kind].provided = 1
      BY <3>1
    <3> QED BY <1>2, <3>2, Leaving DEF Thinned
  <2>2. fft_skip' = fft_skip
    BY <1>2, Leaving DEF Unslice, fftVars
  <2>3. output_index' <= room' + Excess'
    BY <1>2 DEF Returns, Leave, Excess
  <2> QED BY <1>2, <2>1, <2>2, <2>3, Leaving DEF Thinned
<1>3. CASE Reset
  <2>1. fft_skip' = 0
    BY <1>3 DEF Reset, FftReset
  <2>2. 0 * Rate = 0
    OBVIOUS
  <2>3. Place' + fft_skip' = Len(made') * Rate
    BY <1>3, <2>1, <2>2, Resetting
  <2>4. output_index' <= room' + Excess'
    BY <1>3, Resetting DEF Excess, Counts
  <2>5. Rate <= OutputBlock => checked'
    BY <1>3, Resetting DEF Thinned
  <2> QED BY <1>3, <2>1, <2>3, <2>4, <2>5, Resetting DEF Thinned
<1>4. CASE DecimateStart
  BY <1>4, ThinnedStarts
<1>5. CASE DecimateBlock
  BY <1>5, ThinnedGoesOn
<1>6. CASE Decimated
  <2>1. /\ pc = "decimate" /\ pc' \in {"leave", "aborted"} /\ input_index = until
        /\ UNCHANGED <<kind, taken, made, given, room, input_index, output_index, checked, until, fft_skip>>
    BY <1>6 DEF Decimated, fftVars
  <2>2. PICK b \in Nat : until = b * OutputBlock /\ 1 <= b
    BY <2>1 DEF Thinned
  <2>3. until > 0 /\ until % OutputBlock = 0
    <3>1. b * OutputBlock \in Nat /\ 1 * OutputBlock <= b * OutputBlock /\ 1 * OutputBlock = OutputBlock
      BY <2>2, Scaled
    <3>2. (b * OutputBlock + 0) % OutputBlock = 0
      BY Quotients
    <3> QED BY <2>2, <3>1, <3>2
  <2>4. Counts' /\ MadeWhole' /\ Place' = Place /\ Excess' = Excess
    BY <2>1 DEF Counts, Listing, MadeWhole, Whole, Place, Excess, Thinned
  <2>5. output_index' <= room' + Excess' /\ Place' + fft_skip' = Len(made') * Rate
        /\ fft_skip' \in 0..(Rate - 1) /\ (OutputBlock % Rate = 0 => fft_skip' = 0)
        /\ (Rate <= OutputBlock => checked')
    BY <2>1, <2>4 DEF Thinned
  <2>6. input_index' > 0 /\ input_index' % OutputBlock = 0 /\ (Rate <= OutputBlock => 1 <= output_index')
    BY <2>1, <2>3 DEF Thinned
  <2> QED BY <2>1, <2>4, <2>5, <2>6 DEF Thinned
<1> QED
  BY <1>1, <1>2, <1>3, <1>4, <1>5, <1>6
     DEF Next, Sampling, Convolving, Playing, Reading, DecodingBits, EqualizingTaps, Building

-----------------------------------------------------------------------------
(* AlsaSink: what the device has been given is the stream so far.          *)
Played ==
  /\ checked /\ MadeWhole
  /\ pc \in {"idle", "loop", "write", "leave", "thrown"}
  /\ Place = Len(made)
  /\ pc = "write" => remaining \in Nat

LEMMA PlayedKeeps ==
  ASSUME Counts, Played, kind = "alsa", Next
  PROVE  Counts' /\ Played'
<1>1. CASE Called
  BY <1>1, Entering DEF Played
<1>2. CASE Returns
  <2>1. checked'
    <3>1. StatesOf[kind] = [required |-> 1, room |-> 0, provided |-> 0, idle |-> TRUE]
      BY Declared
    <3>2. output_index >= 0
      BY DEF Counts
    <3> QED BY <1>2, <3>1, <3>2, Leaving DEF Played
  <2> QED BY <1>2, <2>1, Leaving DEF Played
<1>3. CASE Reset
  BY <1>3, Resetting DEF Played
<1>4. CASE AlsaWait \/ AlsaWritten
  <2>1. pc' = "leave" /\ checked' = checked /\ Counts'
        /\ UNCHANGED <<kind, taken, made, given, room, input_index, output_index>>
    BY <1>4, Returning DEF AlsaWait, AlsaWritten
  <2> QED BY <2>1 DEF Played, MadeWhole, Whole, Place
<1>5. CASE AlsaStart
  <2>1. /\ pc' = "write" /\ remaining' \in 0..given
        /\ UNCHANGED <<kind, taken, made, given, room, input_index, output_index, checked>>
    BY <1>5 DEF AlsaStart
  <2>2. Counts' /\ remaining' \in Nat
    BY <2>1 DEF Counts, Listing
  <2> QED BY <2>1, <2>2 DEF Played, MadeWhole, Whole, Place
<1>6. CASE AlsaWrite
  <2>1. PICK n \in 0..remaining :
          /\ Emit([k \in 1..n |-> taken + input_index + k - 1], n)
          /\ remaining' = remaining - n
    BY <1>6 DEF AlsaWrite
  <2> DEFINE outs == [k \in 1..n |-> taken + input_index + k - 1]
  <2>2. /\ pc = "write" /\ pc' = pc /\ checked' = checked /\ remaining \in Nat
        /\ made' = made \o outs /\ output_index' = output_index + Len(outs)
        /\ input_index' = input_index + n /\ UNCHANGED <<kind, taken, given, room>>
    BY <1>6, <2>1 DEF AlsaWrite, Emit, Played
  <2>3. n \in Nat /\ remaining' \in Nat
    BY <2>1, <2>2
  <2>4. Listing(outs) /\ Len(outs) = n /\ \A k \in 1..n : outs[k] = taken + input_index + k - 1
    <3>1. outs = [k \in 1..n |-> outs[k]]
      OBVIOUS
    <3> QED BY <2>3, <3>1, Made
  <2> HIDE DEF outs
  <2>5. input_index' \in Nat /\ pc # "idle" /\ pc' # "idle"
    BY <2>2, <2>3 DEF Counts
  <2>6. Counts' /\ Len(made) \in Nat /\ Len(made') = Len(made) + n
    BY <2>2, <2>4, <2>5, Emitting
  <2>7. Place = Len(made) /\ Place' = Place + n /\ Place = taken + input_index
    BY <2>2, <2>3 DEF Place, Counts, Played
  <2>8. ASSUME NEW k \in 1..Len(outs) PROVE outs[k] = Whole(Len(made) + k - 1)
    BY <2>4, <2>7, <2>8 DEF Whole
  <2>9. MadeWhole'
    BY <2>2, <2>4, <2>5, <2>8, Emitting DEF Played
  <2> QED BY <2>2, <2>3, <2>6, <2>7, <2>9 DEF Played
<1>7. CASE AlsaThrows
  <2>1. /\ pc' = "thrown"
        /\ UNCHANGED <<kind, taken, made, given, room, input_index, output_index, checked>>
    BY <1>7 DEF AlsaThrows
  <2>2. Counts'
    BY <2>1 DEF Counts, Listing
  <2> QED BY <2>1, <2>2 DEF Played, MadeWhole, Whole, Place
<1> QED
  BY <1>1, <1>2, <1>3, <1>4, <1>5, <1>6, <1>7
     DEF Next, Sampling, Convolving, Playing, Reading, DecodingBits, EqualizingTaps, Building

-----------------------------------------------------------------------------
(* The taps as lists: f is taps_indices_, a adjusted_taps_, e is the set   *)
(* of the n enabled taps.                                                  *)
ListOf(f, a, e) == [indices |-> f, adjusted |-> a, enabled |-> e, listed |-> TRUE]

(* The first n indices, in ascending order, those up to i before slot s.   *)
Members(f, n) == {f[k] : k \in 0..(n - 1)}
Ascending(f, n) == \A j, k \in 0..(n - 1) : j < k => f[j] < f[k]
Parted(f, n, s, i) == \A k \in 0..(n - 1) : k < s <=> f[k] <= i
Alike(g, f, s) == \A k \in 0..(s - 1) : g[k] = f[k]

(* Another index in slot s, none in it, and another value in it.           *)
With(f, n, s, i) == [[k \in Slots |-> IF k \in (s + 1)..n THEN f[k - 1] ELSE f[k]] EXCEPT ![s] = i]
Without(f, n, s) == [k \in Slots |-> IF k \in s..(n - 2) THEN f[k + 1] ELSE f[k]]
Put(a, s, i) == [a EXCEPT ![s] = i]

(* updateTaps has come to tap i: the list is whole and in order, the taps  *)
(* up to i are before slot s, and their adjusted values are theirs.        *)
Ranked(f, a, e, n, s, i) ==
  /\ f \in [Slots -> Slots] /\ a \in [Slots -> Int] /\ e \subseteq Slots
  /\ n \in 1..TapsCount /\ s \in 1..n
  /\ Cardinality(e) = n /\ e = Members(f, n)
  /\ f[0] = 0 /\ Ascending(f, n) /\ Parted(f, n, s, i)
  /\ Alike(a, f, s)

Walked(w, i) ==
  \E f, a, e, n, s : w = [taps |-> ListOf(f, a, e), slot |-> s] /\ Ranked(f, a, e, n, s, i)

LEMMA TapsCountNat == TapsCount \in Nat \ {0, 1}
BY EqualizerAssumption

LEMMA SlotsInt == \A k \in Slots : k \in Int
BY TapsCountNat DEF Slots

LEMMA SlotsFinite == IsFiniteSet(Slots) /\ Cardinality(Slots) = TapsCount
BY TapsCountNat, FS_Interval DEF Slots

(* A list f of n taps with another one, i, w slot s.                      *)
LEMMA Inserted ==
  ASSUME NEW n \in 1..(TapsCount - 1), NEW s \in 1..n, NEW i \in 1..(TapsCount - 1),
         NEW f \in [Slots -> Slots], f[0] = 0,
         Ascending(f, n), Parted(f, n, s, i - 1), i \notin Members(f, n)
  PROVE  /\ With(f, n, s, i) \in [Slots -> Slots] /\ With(f, n, s, i)[0] = 0 /\ With(f, n, s, i)[s] = i
         /\ Ascending(With(f, n, s, i), n + 1)
         /\ Parted(With(f, n, s, i), n + 1, s + 1, i)
         /\ Members(With(f, n, s, i), n + 1) = Members(f, n) \cup {i}
         /\ Alike(With(f, n, s, i), f, s)
<1> USE TapsCountNat
<1> DEFINE g == With(f, n, s, i)
<1>a. \A j, k \in 0..(n - 1) : j < k => f[j] < f[k]
  BY DEF Ascending
<1>b. \A k \in 0..(n - 1) : k < s <=> f[k] <= i - 1
  BY DEF Parted
<1>c. \A k \in 0..(n - 1) : f[k] # i
  BY DEF Members
<1>d. g = [[k \in Slots |-> IF k \in (s + 1)..n THEN f[k - 1] ELSE f[k]] EXCEPT ![s] = i]
  BY DEF With
<1> HIDE DEF g
<1>1. i \in Slots /\ s \in Slots /\ \A k \in 0..n : k \in Slots
  BY DEF Slots
<1>2. \A k \in Slots : g[k] = IF k = s THEN i ELSE IF k \in (s + 1)..n THEN f[k - 1] ELSE f[k]
  BY <1>d
<1>3. /\ \A k \in 0..(s - 1) : g[k] = f[k]
      /\ g[s] = i
      /\ \A k \in (s + 1)..n : g[k] = f[k - 1]
  <2>1. \A k \in 0..(s - 1) : k \in 0..n /\ k # s /\ k \notin (s + 1)..n
    OBVIOUS
  <2>2. \A k \in (s + 1)..n : k \in 0..n /\ k # s
    OBVIOUS
  <2> QED BY <1>1, <1>2, <2>1, <2>2
<1>4. g \in [Slots -> Slots]
  <2>1. \A k \in Slots : k \in (s + 1)..n => k - 1 \in Slots
    BY DEF Slots
  <2>2. \A k \in Slots : g[k] \in Slots
    BY <1>1, <1>2, <2>1
  <2> QED BY <2>2, <1>d
<1>5. \A k \in 0..n : f[k] \in Int /\ g[k] \in Int
  BY <1>1, <1>4, SlotsInt
<1>6. \A k \in 0..(s - 1) : g[k] < i
  <2> SUFFICES ASSUME NEW k \in 0..(s - 1) PROVE g[k] < i
    OBVIOUS
  <2>1. k \in 0..(n - 1) /\ k < s /\ k \in 0..n
    OBVIOUS
  <2>2. f[k] <= i - 1 /\ f[k] \in Int
    BY <1>b, <1>5, <2>1
  <2> QED BY <1>3, <2>2
<1>7. \A k \in (s + 1)..n : g[k] > i
  <2> SUFFICES ASSUME NEW k \in (s + 1)..n PROVE g[k] > i
    OBVIOUS
  <2>1. k - 1 \in 0..(n - 1) /\ ~(k - 1 < s) /\ k - 1 \in 0..n
    OBVIOUS
  <2>2. f[k - 1] > i
    BY <1>b, <1>c, <1>5, <2>1
  <2> QED BY <1>3, <2>2
<1>8. \A k \in 0..n : k < s + 1 <=> g[k] <= i
  <2> SUFFICES ASSUME NEW k \in 0..n PROVE k < s + 1 <=> g[k] <= i
    OBVIOUS
  <2>1. CASE k < s
    BY <1>5, <1>6, <2>1
  <2>2. CASE k = s
    BY <1>3, <2>2
  <2>3. CASE k > s
    BY <1>5, <1>7, <2>3
  <2> QED BY <2>1, <2>2, <2>3
<1>9. \A j, k \in 0..n : j < k => g[j] < g[k]
  <2> SUFFICES ASSUME NEW j \in 0..n, NEW k \in 0..n, j < k PROVE g[j] < g[k]
    OBVIOUS
  <2>1. CASE k < s
    BY <1>a, <1>3, <2>1
  <2>2. CASE k = s
    BY <1>3, <1>6, <2>2
  <2>3. CASE k > s /\ j <= s
    <3>1. g[k] > i /\ g[j] <= i
      BY <1>7, <1>8, <2>3
    <3> QED BY <1>5, <3>1
  <2>4. CASE k > s /\ j > s
    <3>1. j - 1 \in 0..(n - 1) /\ k - 1 \in 0..(n - 1) /\ j - 1 < k - 1 /\ j \in (s + 1)..n /\ k \in (s + 1)..n
      BY <2>4
    <3>2. f[j - 1] < f[k - 1]
      BY <1>a, <3>1
    <3> QED BY <1>3, <3>1, <3>2
  <2> QED BY <2>1, <2>2, <2>3, <2>4
<1>10. {g[k] : k \in 0..n} = {f[k] : k \in 0..(n - 1)} \cup {i}
  <2>1. ASSUME NEW k \in 0..n PROVE g[k] \in {f[l] : l \in 0..(n - 1)} \cup {i}
    <3>1. CASE k < s
      <4>1. g[k] = f[k] /\ k \in 0..(n - 1)
        BY <1>3, <3>1
      <4> QED BY <4>1
    <3>2. CASE k = s
      BY <1>3, <3>2
    <3>3. CASE k > s
      <4>1. g[k] = f[k - 1] /\ k - 1 \in 0..(n - 1)
        BY <1>3, <3>3
      <4> QED BY <4>1
    <3> QED BY <3>1, <3>2, <3>3
  <2>2. ASSUME NEW l \in 0..(n - 1) PROVE \E k \in 0..n : g[k] = f[l]
    <3>1. CASE l < s
      <4>1. g[l] = f[l] /\ l \in 0..n
        BY <1>3, <3>1
      <4> QED BY <4>1
    <3>2. CASE l >= s
      <4>1. l + 1 \in (s + 1)..n /\ (l + 1) - 1 = l /\ l + 1 \in 0..n
        BY <3>2
      <4>2. g[l + 1] = f[l]
        BY <1>3, <4>1
      <4> QED BY <4>1, <4>2
    <3> QED BY <3>1, <3>2
  <2>3. s \in 0..n /\ g[s] = i
    BY <1>3
  <2> QED BY <2>1, <2>2, <2>3
<1>11. g[0] = 0
  BY <1>3
<1>12. n = (n + 1) - 1
  OBVIOUS
<1>13. Ascending(g, n + 1) /\ Parted(g, n + 1, s + 1, i)
  BY <1>8, <1>9, <1>12 DEF Ascending, Parted
<1>14. Members(g, n + 1) = Members(f, n) \cup {i}
  BY <1>10, <1>12 DEF Members
<1>15. Alike(g, f, s)
  BY <1>3 DEF Alike
<1> QED BY <1>3, <1>4, <1>11, <1>13, <1>14, <1>15 DEF g

(* A list f of n taps without the one w slot s.                           *)
LEMMA Removed ==
  ASSUME NEW n \in 1..TapsCount, NEW s \in 1..(n - 1),
         NEW f \in [Slots -> Slots], f[0] = 0,
         Ascending(f, n)
  PROVE  /\ Without(f, n, s) \in [Slots -> Slots] /\ Without(f, n, s)[0] = 0
         /\ Ascending(Without(f, n, s), n - 1)
         /\ Parted(Without(f, n, s), n - 1, s, f[s])
         /\ Members(Without(f, n, s), n - 1) = Members(f, n) \ {f[s]}
         /\ Alike(Without(f, n, s), f, s)
<1> USE TapsCountNat
<1> DEFINE g == Without(f, n, s)
<1>a. \A j, k \in 0..(n - 1) : j < k => f[j] < f[k]
  BY DEF Ascending
<1>d. g = [k \in Slots |-> IF k \in s..(n - 2) THEN f[k + 1] ELSE f[k]]
  BY DEF Without
<1> HIDE DEF g
<1>1. s \in Slots /\ s \in 0..(n - 1) /\ \A k \in 0..(n - 1) : k \in Slots /\ f[k] \in Int
  BY DEF Slots
<1>2. \A k \in Slots : g[k] = IF k \in s..(n - 2) THEN f[k + 1] ELSE f[k]
  BY <1>d
<1>3. /\ \A k \in 0..(s - 1) : g[k] = f[k]
      /\ \A k \in s..(n - 2) : g[k] = f[k + 1]
  <2>1. \A k \in 0..(s - 1) : k \in 0..(n - 1) /\ k \notin s..(n - 2)
    OBVIOUS
  <2>2. \A k \in s..(n - 2) : k \in 0..(n - 1)
    OBVIOUS
  <2> QED BY <1>1, <1>2, <2>1, <2>2
<1>4. g \in [Slots -> Slots]
  <2>1. \A k \in Slots : k \in s..(n - 2) => k + 1 \in Slots
    BY DEF Slots
  <2>2. \A k \in Slots : g[k] \in Slots
    BY <1>2, <2>1
  <2> QED BY <2>2, <1>d
<1>5. ASSUME NEW k \in 0..(n - 2)
      PROVE  \E l \in 0..(n - 1) : g[k] = f[l] /\ l # s /\ (k < s <=> l < s) /\ (k < s => l = k) /\ (k >= s => l = k + 1)
  <2>1. CASE k < s
    <3>1. g[k] = f[k] /\ k \in 0..(n - 1) /\ k # s /\ ~(k >= s)
      BY <1>3, <2>1
    <3> QED BY <2>1, <3>1
  <2>2. CASE k >= s
    <3>1. g[k] = f[k + 1] /\ k + 1 \in 0..(n - 1) /\ k + 1 # s /\ ~(k < s) /\ ~(k + 1 < s)
      BY <1>3, <2>2
    <3> QED BY <2>2, <3>1
  <2> QED BY <2>1, <2>2
<1>6. \A j, k \in 0..(n - 2) : j < k => g[j] < g[k]
  <2> SUFFICES ASSUME NEW j \in 0..(n - 2), NEW k \in 0..(n - 2), j < k PROVE g[j] < g[k]
    OBVIOUS
  <2>1. PICK l \in 0..(n - 1) : g[j] = f[l] /\ (j < s => l = j) /\ (j >= s => l = j + 1)
    BY <1>5
  <2>2. PICK m \in 0..(n - 1) : g[k] = f[m] /\ (k < s => m = k) /\ (k >= s => m = k + 1)
    BY <1>5
  <2>3. l < m
    BY <2>1, <2>2
  <2> QED BY <1>a, <2>1, <2>2, <2>3
<1>7. \A k \in 0..(n - 2) : k < s <=> g[k] <= f[s]
  <2> SUFFICES ASSUME NEW k \in 0..(n - 2) PROVE k < s <=> g[k] <= f[s]
    OBVIOUS
  <2>1. PICK l \in 0..(n - 1) : g[k] = f[l] /\ l # s /\ (k < s <=> l < s)
    BY <1>5
  <2>2. (l < s => f[l] < f[s]) /\ (s < l => f[s] < f[l]) /\ f[l] \in Int /\ f[s] \in Int
    BY <1>a, <1>1
  <2> QED BY <2>1, <2>2
<1>8. {g[k] : k \in 0..(n - 2)} = {f[k] : k \in 0..(n - 1)} \ {f[s]}
  <2>1. ASSUME NEW k \in 0..(n - 2) PROVE g[k] \in {f[l] : l \in 0..(n - 1)} \ {f[s]}
    <3>1. PICK l \in 0..(n - 1) : g[k] = f[l] /\ l # s
      BY <1>5
    <3>2. f[l] # f[s]
      BY <1>a, <1>1, <3>1
    <3> QED BY <3>1, <3>2
  <2>2. ASSUME NEW l \in 0..(n - 1), f[l] # f[s] PROVE \E k \in 0..(n - 2) : g[k] = f[l]
    <3>1. CASE l < s
      <4>1. g[l] = f[l] /\ l \in 0..(n - 2)
        BY <1>3, <3>1
      <4> QED BY <4>1
    <3>2. CASE l > s
      <4>1. l - 1 \in s..(n - 2) /\ (l - 1) + 1 = l /\ l - 1 \in 0..(n - 2)
        BY <3>2
      <4>2. g[l - 1] = f[l]
        BY <1>3, <4>1
      <4> QED BY <4>1, <4>2
    <3>3. l # s
      BY <2>2
    <3> QED BY <3>1, <3>2, <3>3
  <2> QED BY <2>1, <2>2
<1>9. g[0] = 0
  BY <1>3
<1>10. n - 2 = (n - 1) - 1
  OBVIOUS
<1>11. Ascending(g, n - 1) /\ Parted(g, n - 1, s, f[s])
  BY <1>6, <1>7, <1>10 DEF Ascending, Parted
<1>12. Members(g, n - 1) = Members(f, n) \ {f[s]}
  BY <1>8, <1>10 DEF Members
<1>13. Alike(g, f, s)
  BY <1>3 DEF Alike
<1> QED BY <1>4, <1>9, <1>11, <1>12, <1>13 DEF g

(* A value put in slot s of those that are the list's up to there.         *)
LEMMA PutIn ==
  ASSUME NEW a \in [Slots -> Int], NEW f, NEW g, NEW s \in 1..(TapsCount - 1), NEW i \in Int,
         Alike(a, f, s), Alike(g, f, s), g[s] = i
  PROVE  Put(a, s, i) \in [Slots -> Int] /\ Alike(Put(a, s, i), g, s + 1)
<1> USE TapsCountNat
<1> DEFINE b == Put(a, s, i)
<1>1. s \in Slots /\ \A k \in 0..s : k \in Slots /\ (k # s => k \in 0..(s - 1))
  BY DEF Slots
<1>2. b \in [Slots -> Int] /\ b[s] = i /\ \A k \in Slots : k # s => b[k] = a[k]
  BY <1>1 DEF Put
<1> HIDE DEF b
<1>3. \A k \in 0..(s - 1) : a[k] = g[k]
  BY DEF Alike
<1>4. \A k \in 0..s : b[k] = g[k]
  BY <1>1, <1>2, <1>3
<1>5. (s + 1) - 1 = s
  OBVIOUS
<1> QED BY <1>2, <1>4, <1>5 DEF b, Alike

LEMMA NextTap ==
  ASSUME NEW f, NEW a, NEW e, NEW n, NEW s, NEW i \in 1..(TapsCount - 1),
         Ranked(f, a, e, n, s, i - 1), i \in e
  PROVE  s < n /\ f[s] = i
<1> USE TapsCountNat
<1>1. n \in 1..TapsCount /\ s \in 1..n /\ f \in [Slots -> Slots] /\ e = Members(f, n)
  BY DEF Ranked
<1>2. /\ \A j, k \in 0..(n - 1) : j < k => f[j] < f[k]
      /\ \A k \in 0..(n - 1) : k < s <=> f[k] <= i - 1
  BY DEF Ranked, Ascending, Parted
<1>3. PICK p \in 0..(n - 1) : f[p] = i
  BY <1>1 DEF Members
<1>4. ~(p < s)
  BY <1>1, <1>2, <1>3
<1>5. s \in 0..(n - 1) /\ s \in Slots
  BY <1>1, <1>3, <1>4 DEF Slots
<1>6. ~(f[s] <= i - 1) /\ f[s] \in Int
  BY <1>1, <1>2, <1>5 DEF Slots
<1>7. s = p
  <2>1. SUFFICES ASSUME s < p PROVE FALSE
    BY <1>1, <1>3, <1>4
  <2>2. f[s] < f[p]
    BY <1>2, <1>3, <1>5, <2>1
  <2> QED BY <1>3, <1>6, <2>2
<1> QED BY <1>1, <1>3, <1>5, <1>7

LEMMA PassedOver ==
  ASSUME NEW f, NEW a, NEW e, NEW n, NEW s, NEW i \in 1..(TapsCount - 1),
         Ranked(f, a, e, n, s, i - 1), i \notin e
  PROVE  Ranked(f, a, e, n, s, i)
<1> USE TapsCountNat
<1>1. f \in [Slots -> Slots] /\ n \in 1..TapsCount /\ e = Members(f, n)
  BY DEF Ranked
<1>2. \A k \in 0..(n - 1) : k \in Slots
  BY <1>1 DEF Slots
<1>3. \A k \in 0..(n - 1) : f[k] \in Int /\ f[k] # i
  BY <1>1, <1>2 DEF Slots, Members
<1>4. \A k \in 0..(n - 1) : k < s <=> f[k] <= i - 1
  BY DEF Ranked, Parted
<1>5. Parted(f, n, s, i)
  BY <1>3, <1>4 DEF Parted
<1> QED BY <1>5 DEF Ranked

LEMMA TakenIn ==
  ASSUME NEW f, NEW a, NEW e, NEW n, NEW s, NEW i \in 1..(TapsCount - 1),
         Ranked(f, a, e, n, s, i - 1), i \notin e
  PROVE  Ranked(With(f, n, s, i), Put(a, s, i), e \cup {i}, n + 1, s + 1, i)
<1> USE TapsCountNat
<1>1. /\ f \in [Slots -> Slots] /\ a \in [Slots -> Int] /\ e \subseteq Slots
      /\ n \in 1..TapsCount /\ s \in 1..n
      /\ Cardinality(e) = n /\ e = Members(f, n)
      /\ f[0] = 0 /\ Ascending(f, n) /\ Parted(f, n, s, i - 1)
      /\ Alike(a, f, s)
  BY DEF Ranked
<1>2. i \in Slots
  BY DEF Slots
<1>3. Cardinality(e \cup {i}) = n + 1 /\ n + 1 \in 1..TapsCount
  <2>1. IsFiniteSet(e)
    BY <1>1, SlotsFinite, FS_Subset
  <2>2. Cardinality(e \cup {i}) = n + 1
    BY <1>1, <2>1, FS_AddElement
  <2>3. Cardinality(e \cup {i}) <= TapsCount
    <3>1. e \cup {i} \in SUBSET Slots
      BY <1>1, <1>2
    <3>2. Cardinality(e \cup {i}) <= Cardinality(Slots)
      BY <3>1, SlotsFinite, FS_Subset
    <3> QED BY <3>2, SlotsFinite
  <2> QED BY <1>1, <2>2, <2>3
<1>4. n \in 1..(TapsCount - 1) /\ s \in 1..(TapsCount - 1)
  BY <1>1, <1>3
<1> DEFINE g == With(f, n, s, i)
<1>5. /\ g \in [Slots -> Slots] /\ g[0] = 0 /\ g[s] = i
      /\ Ascending(g, n + 1) /\ Parted(g, n + 1, s + 1, i)
      /\ Members(g, n + 1) = Members(f, n) \cup {i} /\ Alike(g, f, s)
  BY <1>1, <1>4, Inserted
<1> HIDE DEF g
<1>6. Put(a, s, i) \in [Slots -> Int] /\ Alike(Put(a, s, i), g, s + 1)
  BY <1>1, <1>4, <1>5, PutIn
<1>7. s + 1 \in 1..(n + 1)
  BY <1>1
<1>8. Ranked(g, Put(a, s, i), e \cup {i}, n + 1, s + 1, i)
  BY <1>1, <1>2, <1>3, <1>5, <1>6, <1>7 DEF Ranked
<1> QED BY <1>8 DEF g

LEMMA TakenAgain ==
  ASSUME NEW f, NEW a, NEW e, NEW n, NEW s, NEW i \in 1..(TapsCount - 1),
         Ranked(f, a, e, n, s, i - 1), i \in e
  PROVE  /\ Ranked(f, Put(a, s, i), e, n, s + 1, i)
         /\ Put(f, s, i) = f /\ e \cup {i} = e
<1> USE TapsCountNat
<1>1. /\ f \in [Slots -> Slots] /\ a \in [Slots -> Int] /\ e \subseteq Slots
      /\ n \in 1..TapsCount /\ s \in 1..n
      /\ Cardinality(e) = n /\ e = Members(f, n)
      /\ f[0] = 0 /\ Ascending(f, n) /\ Parted(f, n, s, i - 1)
      /\ Alike(a, f, s)
  BY DEF Ranked
<1>2. s < n /\ f[s] = i
  BY NextTap
<1>3. s \in 0..(n - 1) /\ s \in 1..(TapsCount - 1) /\ \A k \in 0..(n - 1) : k \in Slots /\ f[k] \in Int
  <2>1. \A k \in 0..(n - 1) : k \in Slots
    BY <1>1 DEF Slots
  <2>2. s \in 0..(n - 1) /\ s \in 1..(TapsCount - 1)
    BY <1>1, <1>2
  <2> QED BY <1>1, <2>1, <2>2, SlotsInt
<1>4. Put(a, s, i) \in [Slots -> Int] /\ Alike(Put(a, s, i), f, s + 1)
  <2>1. Alike(f, f, s) /\ i \in Int
    BY DEF Alike
  <2> QED BY <1>1, <1>2, <1>3, <2>1, PutIn
<1>5. \A j, k \in 0..(n - 1) : j < k => f[j] < f[k]
  BY <1>1 DEF Ascending
<1>6. Parted(f, n, s + 1, i)
  <2> SUFFICES ASSUME NEW k \in 0..(n - 1) PROVE k < s + 1 <=> f[k] <= i
    BY DEF Parted
  <2>1. (k < s => f[k] < f[s]) /\ (s < k => f[s] < f[k])
    BY <1>3, <1>5
  <2>2. f[k] \in Int /\ f[s] = i /\ i \in Int /\ k \in Int /\ s \in Int
    BY <1>1, <1>2, <1>3
  <2> QED BY <2>1, <2>2
<1>7. s + 1 \in 1..n
  BY <1>1, <1>2
<1>8. Ranked(f, Put(a, s, i), e, n, s + 1, i)
  BY <1>1, <1>4, <1>6, <1>7 DEF Ranked
<1>9. Put(f, s, i) = f
  BY <1>1, <1>2 DEF Put
<1> QED BY <1>8, <1>9

LEMMA DroppedOut ==
  ASSUME NEW f, NEW a, NEW e, NEW n, NEW s, NEW i \in 1..(TapsCount - 1),
         Ranked(f, a, e, n, s, i - 1), i \in e
  PROVE  Ranked(Without(f, n, s), a, e \ {i}, n - 1, s, i)
<1> USE TapsCountNat
<1>1. /\ f \in [Slots -> Slots] /\ a \in [Slots -> Int] /\ e \subseteq Slots
      /\ n \in 1..TapsCount /\ s \in 1..n
      /\ Cardinality(e) = n /\ e = Members(f, n)
      /\ f[0] = 0 /\ Ascending(f, n) /\ Parted(f, n, s, i - 1)
      /\ Alike(a, f, s)
  BY DEF Ranked
<1>2. s < n /\ f[s] = i
  BY NextTap
<1>3. s \in 1..(n - 1) /\ n - 1 \in 1..TapsCount
  BY <1>1, <1>2
<1> DEFINE g == Without(f, n, s)
<1>4. /\ g \in [Slots -> Slots] /\ g[0] = 0
      /\ Ascending(g, n - 1) /\ Parted(g, n - 1, s, f[s])
      /\ Members(g, n - 1) = Members(f, n) \ {f[s]} /\ Alike(g, f, s)
  BY <1>1, <1>3, Removed
<1> HIDE DEF g
<1>5. Cardinality(e \ {i}) = n - 1
  BY <1>1, SlotsFinite, FS_Subset, FS_RemoveElement
<1>6. Alike(a, g, s)
  BY <1>1, <1>4 DEF Alike
<1>7. e \ {i} \subseteq Slots
  BY <1>1
<1>8. Ranked(g, a, e \ {i}, n - 1, s, i)
  BY <1>1, <1>2, <1>3, <1>4, <1>5, <1>6, <1>7 DEF Ranked
<1> QED BY <1>8 DEF g

(* What the code makes of the lists.                                       *)
LEMMA TakeNew ==
  ASSUME NEW f, NEW a, NEW e, NEW s, NEW i, i \notin e
  PROVE  Take(ListOf(f, a, e), i, s) = ListOf(With(f, Cardinality(e), s, i), Put(a, s, i), e \cup {i})
<1>1. /\ ListOf(f, a, e).indices = f /\ ListOf(f, a, e).adjusted = a /\ ListOf(f, a, e).enabled = e
      /\ Enabled(ListOf(f, a, e)) = Cardinality(e) /\ ListOf(f, a, e).listed = TRUE
  BY DEF ListOf, Enabled
<1> QED BY <1>1 DEF Take, ListOf, With, Put

LEMMA TakeOld ==
  ASSUME NEW f, NEW a, NEW e, NEW s, NEW i, i \in e
  PROVE  Take(ListOf(f, a, e), i, s) = ListOf(Put(f, s, i), Put(a, s, i), e \cup {i})
<1>1. /\ ListOf(f, a, e).indices = f /\ ListOf(f, a, e).adjusted = a /\ ListOf(f, a, e).enabled = e
      /\ ListOf(f, a, e).listed = TRUE
  BY DEF ListOf
<1> QED BY <1>1 DEF Take, ListOf, Put

LEMMA DropForm ==
  ASSUME NEW f, NEW a, NEW e, NEW s, NEW i
  PROVE  Drop(ListOf(f, a, e), i, s) =
           IF i \notin e THEN ListOf(f, a, e) ELSE ListOf(Without(f, Cardinality(e), s), a, e \ {i})
<1>1. /\ ListOf(f, a, e).indices = f /\ ListOf(f, a, e).adjusted = a /\ ListOf(f, a, e).enabled = e
      /\ Enabled(ListOf(f, a, e)) = Cardinality(e) /\ ListOf(f, a, e).listed = TRUE
  BY DEF ListOf, Enabled
<1> QED BY <1>1 DEF Drop, ListOf, Without

LEMMA SameField ==
  ASSUME NEW f, NEW a, NEW e, NEW l, NEW t,
         t = [indices |-> f, adjusted |-> a, enabled |-> e, listed |-> l], NEW w, t.listed = w
  PROVE  [t EXCEPT !.listed = w] = t
OBVIOUS

LEMMA Relisted ==
  ASSUME NEW f, NEW a, NEW e, NEW w, w = ListOf(f, a, e).listed
  PROVE  [ListOf(f, a, e) EXCEPT !.listed = w] = ListOf(f, a, e)
<1> DEFINE l == TRUE
           t == ListOf(f, a, e)
<1>1. t = [indices |-> f, adjusted |-> a, enabled |-> e, listed |-> l]
  BY DEF ListOf
<1> HIDE DEF l, t
<1>2. t.listed = w
  BY DEF t
<1>3. [t EXCEPT !.listed = w] = t
  BY <1>1, <1>2, SameField
<1> QED BY <1>3 DEF t

LEMMA OtherField ==
  ASSUME NEW f, NEW a, NEW e, NEW l, NEW t,
         t = [indices |-> f, adjusted |-> a, enabled |-> e, listed |-> l], NEW b
  PROVE  [t EXCEPT !.adjusted = b] = [indices |-> f, adjusted |-> b, enabled |-> e, listed |-> l]
OBVIOUS

LEMMA Readjusted ==
  ASSUME NEW f, NEW a, NEW e, NEW b
  PROVE  [ListOf(f, a, e) EXCEPT !.adjusted = b] = ListOf(f, b, e)
<1> DEFINE l == TRUE
           t == ListOf(f, a, e)
<1>1. t = [indices |-> f, adjusted |-> a, enabled |-> e, listed |-> l]
  BY DEF ListOf
<1>2. ListOf(f, b, e) = [indices |-> f, adjusted |-> b, enabled |-> e, listed |-> l]
  BY DEF ListOf
<1> HIDE DEF l, t
<1>3. [t EXCEPT !.adjusted = b] = ListOf(f, b, e)
  BY <1>1, <1>2, OtherField
<1> QED BY <1>3 DEF t

LEMMA UpdateTapForm ==
  ASSUME NEW f, NEW a, NEW e, NEW n, NEW s, NEW i, NEW j, Ranked(f, a, e, n, s, j), NEW large, NEW all
  PROVE  UpdateTap([taps |-> ListOf(f, a, e), slot |-> s], i, large, all) =
           IF i \notin e /\ ~all THEN [taps |-> ListOf(f, a, e), slot |-> s]
           ELSE IF i \in large
                THEN [taps |-> Take(ListOf(f, a, e), i, s), slot |-> s + 1]
                ELSE [taps |-> Drop(ListOf(f, a, e), i, s), slot |-> s]
<1> DEFINE t == ListOf(f, a, e)
           w == [taps |-> t, slot |-> s]
<1>1. t.enabled = e /\ t.indices = f /\ Enabled(t) = n /\ t.listed = TRUE
  BY DEF ListOf, Enabled, Ranked
<1>2. Listed(t)
  <2>1. e = Members(f, n)
    BY DEF Ranked
  <2> HIDE DEF t
  <2> QED BY <1>1, <2>1 DEF Listed, Members
<1>3. [t EXCEPT !.listed = @ /\ Listed(t)] = t
  <2> DEFINE yes == t.listed /\ Listed(t)
  <2>1. yes = t.listed
    BY <1>1, <1>2
  <2> HIDE DEF yes
  <2>2. [t EXCEPT !.listed = yes] = t
    BY <2>1, Relisted
  <2> QED BY <2>2 DEF yes
<1>4. w.taps = t /\ w.slot = s
  OBVIOUS
<1> HIDE DEF t
<1>5. \A u : [w EXCEPT !.taps = u] = [taps |-> u, slot |-> s]
  OBVIOUS
<1> HIDE DEF w
<1> QED BY <1>1, <1>3, <1>4, <1>5 DEF UpdateTap, w, t

LEMMA UpdateTapKeeps ==
  ASSUME NEW w, NEW i \in 1..(TapsCount - 1), Walked(w, i - 1), NEW large, NEW all
  PROVE  Walked(UpdateTap(w, i, large, all), i)
<1>1. PICK f, a, e, n, s : w = [taps |-> ListOf(f, a, e), slot |-> s] /\ Ranked(f, a, e, n, s, i - 1)
  BY DEF Walked
<1>2. Cardinality(e) = n
  BY <1>1 DEF Ranked
<1>3. UpdateTap(w, i, large, all) =
        IF i \notin e /\ ~all THEN [taps |-> ListOf(f, a, e), slot |-> s]
        ELSE IF i \in large
             THEN [taps |-> Take(ListOf(f, a, e), i, s), slot |-> s + 1]
             ELSE [taps |-> Drop(ListOf(f, a, e), i, s), slot |-> s]
  BY <1>1, UpdateTapForm
<1>4. CASE i \notin e /\ (~all \/ i \notin large)
  <2>1. Ranked(f, a, e, n, s, i)
    BY <1>1, <1>4, PassedOver
  <2>2. UpdateTap(w, i, large, all) = [taps |-> ListOf(f, a, e), slot |-> s]
    BY <1>3, <1>4, DropForm
  <2> QED BY <2>1, <2>2 DEF Walked
<1>5. CASE i \notin e /\ all /\ i \in large
  <2>1. Ranked(With(f, n, s, i), Put(a, s, i), e \cup {i}, n + 1, s + 1, i)
    BY <1>1, <1>5, TakenIn
  <2>2. Take(ListOf(f, a, e), i, s) = ListOf(With(f, n, s, i), Put(a, s, i), e \cup {i})
    BY <1>2, <1>5, TakeNew
  <2>3. UpdateTap(w, i, large, all) = [taps |-> ListOf(With(f, n, s, i), Put(a, s, i), e \cup {i}), slot |-> s + 1]
    BY <1>3, <1>5, <2>2
  <2> QED BY <2>1, <2>3 DEF Walked
<1>6. CASE i \in e /\ i \in large
  <2>1. Ranked(f, Put(a, s, i), e, n, s + 1, i) /\ Put(f, s, i) = f /\ e \cup {i} = e
    BY <1>1, <1>6, TakenAgain
  <2>2. Take(ListOf(f, a, e), i, s) = ListOf(f, Put(a, s, i), e)
    <3>1. Take(ListOf(f, a, e), i, s) = ListOf(Put(f, s, i), Put(a, s, i), e \cup {i})
      BY <1>6, TakeOld
    <3> QED BY <2>1, <3>1
  <2>3. UpdateTap(w, i, large, all) = [taps |-> ListOf(f, Put(a, s, i), e), slot |-> s + 1]
    BY <1>3, <1>6, <2>2
  <2> QED BY <2>1, <2>3 DEF Walked
<1>7. CASE i \in e /\ i \notin large
  <2>1. Ranked(Without(f, n, s), a, e \ {i}, n - 1, s, i)
    BY <1>1, <1>7, DroppedOut
  <2>2. Drop(ListOf(f, a, e), i, s) = ListOf(Without(f, n, s), a, e \ {i})
    BY <1>2, <1>7, DropForm
  <2>3. UpdateTap(w, i, large, all) = [taps |-> ListOf(Without(f, n, s), a, e \ {i}), slot |-> s]
    BY <1>3, <1>7, <2>2
  <2> QED BY <2>1, <2>3 DEF Walked
<1> QED BY <1>4, <1>5, <1>6, <1>7
(* The taps after none, one, two ... of them: the recursive function is one. *)
LEMMA TapSteps ==
  ASSUME NEW t, NEW large, NEW all
  PROVE  /\ After(t, large, all)[0] = [taps |-> t, slot |-> 1]
         /\ \A i \in 1..(TapsCount - 1) :
              After(t, large, all)[i] = UpdateTap(After(t, large, all)[i - 1], i, large, all)
<1> USE TapsCountNat
<1> DEFINE m == TapsCount - 1
           start == [taps |-> t, slot |-> 1]
           Stage(F, i) == IF i = 0 THEN start ELSE UpdateTap(F[i - 1], i, large, all)
           S == {n \in Nat : \E F : \A i \in 0..n : F[i] = Stage(F, i)}
<1>0. m \in Nat /\ Slots = 0..m
  BY DEF Slots
<1> HIDE DEF m, start
<1>1. 0 \in S
  <2> DEFINE G == [i \in 0..0 |-> start]
  <2>1. \A i \in 0..0 : G[i] = Stage(G, i)
    OBVIOUS
  <2> HIDE DEF G, Stage
  <2> QED BY <2>1
<1>2. ASSUME NEW n \in Nat, n \in S PROVE n + 1 \in S
  <2>1. PICK F : \A i \in 0..n : F[i] = Stage(F, i)
    BY <1>2
  <2> DEFINE G == [i \in 0..(n + 1) |-> IF i = n + 1 THEN UpdateTap(F[n], n + 1, large, all) ELSE F[i]]
  <2>2. ASSUME NEW i \in 0..(n + 1) PROVE G[i] = Stage(G, i)
    <3>1. CASE i = n + 1
      <4>1. G[i] = UpdateTap(F[n], n + 1, large, all)
        BY <3>1
      <4>2. n \in 0..(n + 1) /\ n # n + 1 /\ i - 1 = n /\ i # 0
        BY <3>1
      <4>3. G[n] = F[n]
        BY <4>2
      <4> HIDE DEF G
      <4> QED BY <3>1, <4>1, <4>2, <4>3
    <3>2. CASE i # n + 1
      <4>1. i \in 0..n /\ (i # 0 => i - 1 \in 0..(n + 1) /\ i - 1 # n + 1)
        BY <3>2
      <4>2. G[i] = F[i] /\ (i # 0 => G[i - 1] = F[i - 1])
        BY <3>2, <4>1
      <4>3. F[i] = Stage(F, i)
        BY <2>1, <4>1
      <4> HIDE DEF G
      <4> QED BY <4>2, <4>3
    <3> QED BY <3>1, <3>2
  <2> HIDE DEF G, Stage
  <2> QED BY <2>2
<1>3. PICK F : \A i \in 0..m : F[i] = Stage(F, i)
  <2> HIDE DEF S
  <2>1. Nat \subseteq S
    BY <1>1, <1>2, Induction
  <2> QED BY <1>0, <2>1 DEF S
<1> DEFINE G == [i \in 0..m |-> Stage(F, i)]
<1>4. G = [i \in 0..m |-> Stage(G, i)]
  <2>1. \A i \in 0..m : i # 0 => i - 1 \in 0..m
    BY <1>0
  <2>2. \A i \in 0..m : G[i] = F[i]
    BY <1>3
  <2>3. \A i \in 0..m : Stage(F, i) = Stage(G, i)
    <3> HIDE DEF G
    <3> QED BY <2>1, <2>2
  <2> HIDE DEF Stage
  <2> QED BY <2>3
<1>5. After(t, large, all) = CHOOSE f : f = [i \in 0..m |-> Stage(f, i)]
  BY <1>0 DEF After, start
<1> HIDE DEF G
<1>6. After(t, large, all) = [i \in 0..m |-> Stage(After(t, large, all), i)]
  <2> HIDE DEF Stage
  <2> QED BY <1>4, <1>5
<1> QED BY <1>0, <1>6 DEF start, m

(* updateTaps keeps the lists.                                             *)
LEMMA UpdateTapsKeeps ==
  ASSUME NEW t, NEW large, NEW all, Walked([taps |-> t, slot |-> 1], 0)
  PROVE  \E f, a, e, n : UpdateTaps(t, large, all) = ListOf(f, a, e) /\ Ranked(f, a, e, n, n, TapsCount - 1)
<1> USE TapsCountNat
<1> DEFINE m == TapsCount - 1
           S == {k \in Nat : k <= m => Walked(After(t, large, all)[k], k)}
<1>1. 0 \in S
  BY TapSteps
<1>2. ASSUME NEW k \in Nat, k \in S PROVE k + 1 \in S
  <2>1. SUFFICES ASSUME k + 1 <= m PROVE Walked(After(t, large, all)[k + 1], k + 1)
    OBVIOUS
  <2>2. k + 1 \in 1..m /\ (k + 1) - 1 = k /\ k <= m
    BY <2>1
  <2>3. Walked(After(t, large, all)[(k + 1) - 1], (k + 1) - 1)
    BY <1>2, <2>2
  <2>4. After(t, large, all)[k + 1] = UpdateTap(After(t, large, all)[(k + 1) - 1], k + 1, large, all)
    BY <2>2, TapSteps
  <2> QED BY <2>2, <2>3, <2>4, UpdateTapKeeps
<1>3. m \in Nat /\ m \in S
  <2> HIDE DEF S
  <2>1. Nat \subseteq S
    BY <1>1, <1>2, Induction
  <2> QED BY <2>1
<1>4. Walked(After(t, large, all)[m], m)
  BY <1>3
<1>5. PICK f, a, e, n, s : After(t, large, all)[m] = [taps |-> ListOf(f, a, e), slot |-> s] /\ Ranked(f, a, e, n, s, m)
  BY <1>4 DEF Walked
<1>6. s = n
  <2>1. f \in [Slots -> Slots] /\ n \in 1..TapsCount /\ s \in 1..n /\ \A k \in 0..(n - 1) : k < s <=> f[k] <= m
    BY <1>5 DEF Ranked, Parted
  <2>2. n - 1 \in 0..(n - 1) /\ n - 1 \in Slots
    BY <2>1 DEF Slots
  <2>3. f[n - 1] <= m
    BY <2>1, <2>2 DEF Slots
  <2>4. n - 1 < s
    BY <2>1, <2>2, <2>3
  <2> QED BY <2>1, <2>4
<1>7. UpdateTaps(t, large, all) = ListOf(f, a, e)
  BY <1>5 DEF UpdateTaps
<1> QED BY <1>5, <1>6, <1>7

(* Where a new gain has left none of the adjusted taps but the first.      *)
LEMMA Unadjusted ==
  ASSUME NEW f, NEW a, NEW e, NEW n, Ranked(f, a, e, n, n, TapsCount - 1),
         NEW b \in [Slots -> Int], b[0] = a[0]
  PROVE  Walked([taps |-> ListOf(f, b, e), slot |-> 1], 0)
<1> USE TapsCountNat
<1>1. /\ f \in [Slots -> Slots] /\ n \in 1..TapsCount /\ f[0] = 0
      /\ \A j, k \in 0..(n - 1) : j < k => f[j] < f[k]
      /\ a[0] = f[0]
  BY DEF Ranked, Ascending, Alike
<1>2. \A k \in 0..(n - 1) : f[k] \in Nat
  BY <1>1 DEF Slots
<1>3. Parted(f, n, 1, 0)
  <2> SUFFICES ASSUME NEW k \in 0..(n - 1) PROVE k < 1 <=> f[k] <= 0
    BY DEF Parted
  <2>1. 0 \in 0..(n - 1) /\ (0 < k => f[0] < f[k])
    BY <1>1
  <2> QED BY <1>1, <1>2, <2>1
<1>4. Alike(b, f, 1)
  BY <1>1 DEF Alike
<1>5. Ranked(f, b, e, n, 1, 0)
  BY <1>1, <1>3, <1>4 DEF Ranked
<1> QED BY <1>5 DEF Walked
-----------------------------------------------------------------------------
(* FmCmaEqualizer: an output to every sample, whatever becomes of the taps. *)
Balanced ==
  /\ checked /\ MadeWhole /\ output_index <= room
  /\ pc \in {"idle", "loop", "leave"}
  /\ Place = Len(made)
  /\ pc = "loop" => 1 <= given /\ 1 <= room /\ output_index = input_index
  /\ pc = "leave" => input_index > 0 /\ 1 <= output_index

LEMMA BalancedKeeps ==
  ASSUME Counts, Balanced, kind = "cma", Next
  PROVE  Counts' /\ Balanced'
<1>1. CASE Called
  <2>1. 1 <= given' /\ 1 <= room'
    BY <1>1, Entering, Declared
  <2>2. output_index' <= room'
    BY <1>1, <2>1, Entering
  <2> QED BY <1>1, <2>1, <2>2, Entering DEF Balanced
<1>2. CASE Returns
  <2>1. checked'
    <3>1. input_index % 1 = 0
      BY ByOne DEF Counts
    <3>2. StatesOf[kind] = [required |-> 1, room |-> 1, provided |-> 1, idle |-> FALSE]
      BY Declared
    <3> QED BY <1>2, <3>1, <3>2, Leaving DEF Balanced
  <2>2. output_index' <= room'
    BY <1>2 DEF Returns, Leave
  <2> QED BY <1>2, <2>1, <2>2, Leaving DEF Balanced
<1>3. CASE Reset
  BY <1>3, Resetting DEF Balanced
<1>4. CASE Equalize \/ Weigh \/ Adapt
  <2> DEFINE out == taken + input_index
  <2>1. /\ Equalizing /\ pc' = pc /\ checked' = checked
        /\ made' = made \o <<out>> /\ output_index' = output_index + Len(<<out>>)
        /\ input_index' = input_index + 1 /\ UNCHANGED <<kind, taken, given, room>>
    BY <1>4 DEF Equalize, Weigh, Adapt, Output, Emit
  <2>2. /\ pc = "loop" /\ input_index < given /\ input_index < room /\ output_index = input_index
        /\ Place = Len(made) /\ 1 <= given /\ 1 <= room
    BY <2>1 DEF Equalizing, Balanced, Least, Counts
  <2>3. input_index' \in Nat /\ pc # "idle" /\ pc' # "idle"
    BY <2>1, <2>2 DEF Counts
  <2>4. out = Whole(Len(made))
    BY <2>2 DEF Whole, Place
  <2> HIDE DEF out
  <2>5. Counts' /\ Len(made) \in Nat /\ Len(made') = Len(made) + 1 /\ output_index' = output_index + 1
    BY <2>1, <2>3, EmittingOne
  <2>6. MadeWhole'
    BY <2>1, <2>3, <2>4, EmittingOne DEF Balanced
  <2>7. Place' = Len(made')
    BY <2>1, <2>2, <2>5 DEF Place, Counts
  <2>8. output_index' <= room' /\ output_index' = input_index' /\ 1 <= given' /\ 1 <= room'
    BY <2>1, <2>2, <2>5 DEF Counts
  <2> QED BY <2>1, <2>2, <2>5, <2>6, <2>7, <2>8 DEF Balanced
<1>5. CASE EqualizerDone
  <2>1. /\ pc = "loop" /\ pc' = "leave" /\ checked' = checked /\ Counts'
        /\ UNCHANGED <<kind, taken, made, given, room, input_index, output_index>>
    BY <1>5, Returning DEF EqualizerDone, Return
  <2>2. input_index > 0 /\ 1 <= output_index
    BY <1>5, <2>1 DEF EqualizerDone, Equalizing, Least, Balanced, Counts
  <2> QED BY <2>1, <2>2 DEF Balanced, MadeWhole, Whole, Place
<1> QED
  BY <1>1, <1>2, <1>3, <1>4, <1>5
     DEF Next, Sampling, Convolving, Playing, Reading, DecodingBits, EqualizingTaps, Building

(* The taps, the ring of outputs and the counters between two samples.     *)
Tapped ==
  \E f, a, e, n : taps = ListOf(f, a, e) /\ Ranked(f, a, e, n, n, TapsCount - 1)

Ringed ==
  /\ cursor \in Slots
  /\ outputs \in [0..(2 * TapsCount - 1) -> Int]
  /\ \A j \in Slots : outputs[j] = outputs[j + TapsCount]
  /\ \A k \in 1..Least(Len(made), TapsCount) : outputs[cursor + k] = made[Len(made) + 1 - k]

Decayed ==
  /\ "samples" \in DOMAIN sums /\ sums.samples \in Nat
  /\ tapping \in [left : Nat, every : MinTapsInterval..MaxTapsInterval, disabled : Int]
  /\ sums.samples + tapping.left + 1 <= MaxTapsInterval

LEMMA TappedKeeps ==
  ASSUME Tapped, kind = "cma", Next
  PROVE  Tapped'
<1>1. CASE taps' = taps
  BY <1>1 DEF Tapped
<1>2. CASE Adapt
  <2>1. PICK f, a, e, n : taps = ListOf(f, a, e) /\ Ranked(f, a, e, n, n, TapsCount - 1)
    BY DEF Tapped
  <2> DEFINE b == [k \in Slots |-> IF gain.left = 0 /\ k > 0 THEN None ELSE a[k]]
             regained == [taps EXCEPT !.adjusted = [k \in Slots |-> IF gain.left = 0 /\ k > 0 THEN None ELSE @[k]]]
  <2>2. PICK large, all : taps' = UpdateTaps(regained, large, all)
    BY <1>2 DEF Adapt
  <2>3. b \in [Slots -> Int] /\ b[0] = a[0]
    <3>1. a \in [Slots -> Int]
      BY <2>1 DEF Ranked
    <3>2. 0 \in Slots /\ None \in Int
      BY TapsCountNat DEF Slots, None
    <3> QED BY <3>1, <3>2
  <2>4. regained = ListOf(f, b, e)
    <3>1. taps.adjusted = a
      BY <2>1 DEF ListOf
    <3>2. regained = [taps EXCEPT !.adjusted = b]
      BY <3>1
    <3> HIDE DEF b, regained
    <3>3. [ListOf(f, a, e) EXCEPT !.adjusted = b] = ListOf(f, b, e)
      BY Readjusted
    <3> QED BY <2>1, <3>2, <3>3
  <2> HIDE DEF b, regained
  <2>5. Walked([taps |-> regained, slot |-> 1], 0)
    BY <2>1, <2>3, <2>4, Unadjusted
  <2>6. PICK f1, a1, e1, n1 : taps' = ListOf(f1, a1, e1) /\ Ranked(f1, a1, e1, n1, n1, TapsCount - 1)
    BY <2>2, <2>5, UpdateTapsKeeps
  <2> QED BY <2>6 DEF Tapped
<1> QED
  BY <1>1, <1>2
     DEF Next, Called, Returns, Reset, EqualizerReset, equalizerVars, Sampling, Convolving, Playing, Reading,
         DecodingBits, EqualizingTaps, Building, Equalize, Weigh, EqualizerDone

LEMMA RingedKeeps ==
  ASSUME Counts, Balanced, Ringed, kind = "cma", Next
  PROVE  Ringed'
<1> USE TapsCountNat
<1> DEFINE T == TapsCount
<1>0. /\ T \in Nat \ {0, 1} /\ cursor \in 0..(T - 1) /\ outputs \in [0..(2 * T - 1) -> Int]
      /\ \A j \in 0..(T - 1) : outputs[j] = outputs[j + T]
      /\ \A k \in 1..Least(Len(made), T) : outputs[cursor + k] = made[Len(made) + 1 - k]
  BY DEF Ringed, Slots
<1>1. CASE UNCHANGED <<outputs, cursor, made>>
  BY <1>1 DEF Ringed
<1>2. CASE Reset
  <2>1. made' = <<>> /\ Len(made') = 0
    BY <1>2, Resetting
  <2>2. cursor' = cursor /\ outputs' = [i \in 0..(2 * T - 1) |-> None]
    BY <1>0, <1>2 DEF Reset, EqualizerReset
  <2>3. outputs' \in [0..(2 * T - 1) -> Int] /\ \A i \in 0..(2 * T - 1) : outputs'[i] = None
    BY <2>2 DEF None
  <2>4. \A j \in Slots : j \in 0..(2 * T - 1) /\ j + T \in 0..(2 * T - 1)
    BY DEF Slots
  <2>5. \A k : k \notin 1..Least(0, T)
    BY DEF Least
  <2> QED BY <1>0, <2>1, <2>2, <2>3, <2>4, <2>5 DEF Ringed, Slots
<1>3. CASE Equalize \/ Weigh \/ Adapt
  <2> DEFINE x == taken + input_index
             c == cursor
             d == cursor'
             n == Len(made)
  <2>1. /\ Equalizing /\ pc' = pc
        /\ made' = made \o <<x>> /\ output_index' = output_index + Len(<<x>>)
        /\ input_index' = input_index + 1 /\ UNCHANGED <<kind, taken, given, room>>
        /\ outputs' = [outputs EXCEPT ![c] = x, ![c + T] = x] /\ d = (c + T - 1) % T
    BY <1>3 DEF Equalize, Weigh, Adapt, Output, Emit, Shift1
  <2>2. input_index' \in Nat /\ pc # "idle" /\ x \in Int
    BY <2>1 DEF Equalizing, Counts
  <2>3. /\ n \in Nat /\ Len(made') = n + 1 /\ made'[n + 1] = x
        /\ \A k \in 1..n : made'[k] = made[k]
    <3> HIDE DEF x
    <3> QED BY <2>1, <2>2, EmittingOne
  <2>4. c > 0 => d = c - 1
    <3> HAVE c > 0
    <3>1. c - 1 \in 0..(T - 1) /\ c + T - 1 = 1 * T + (c - 1) /\ 1 \in Nat
      BY <1>0
    <3> HIDE DEF T, c
    <3> QED BY <1>0, <2>1, <3>1, Quotients
  <2>5. c = 0 => d = T - 1
    <3> HAVE c = 0
    <3>1. T - 1 \in 0..(T - 1) /\ c + T - 1 = 0 * T + (T - 1) /\ 0 \in Nat
      BY <1>0
    <3> HIDE DEF T, c
    <3> QED BY <1>0, <2>1, <3>1, Quotients
  <2>6. c \in 0..(T - 1) /\ d \in 0..(T - 1)
    BY <1>0, <2>4, <2>5
  <2>7. /\ outputs' \in [0..(2 * T - 1) -> Int] /\ outputs'[c] = x /\ outputs'[c + T] = x
        /\ \A j \in 0..(2 * T - 1) : j # c /\ j # c + T => outputs'[j] = outputs[j]
    <3>1. c \in 0..(2 * T - 1) /\ c + T \in 0..(2 * T - 1) /\ c # c + T
      BY <1>0
    <3> HIDE DEF x, c, T
    <3> QED BY <1>0, <2>1, <2>2, <3>1
  <2> HIDE DEF c, d, x, T, n
  <2>8. ASSUME NEW j \in 0..(T - 1) PROVE outputs'[j] = outputs'[j + T]
    <3>1. j \in 0..(2 * T - 1) /\ j + T \in 0..(2 * T - 1) /\ (j # c => j # c + T /\ j + T # c /\ j + T # c + T)
      BY <1>0, <2>6
    <3> QED BY <1>0, <2>7, <3>1
  <2>9. ASSUME NEW k \in 1..Least(n + 1, T) PROVE outputs'[d + k] = made'[(n + 1) + 1 - k]
    <3>1. k \in 1..T /\ k \in 1..(n + 1)
      BY <1>0, <2>3 DEF Least
    <3>2. CASE k = 1
      <4>1. (n + 1) + 1 - k = n + 1 /\ (d + k = c \/ d + k = c + T)
        BY <1>0, <2>3, <2>4, <2>5, <2>6, <3>2
      <4> QED BY <2>3, <2>7, <4>1
    <3>3. CASE k > 1
      <4> DEFINE j == k - 1
      <4>1. j \in 1..Least(n, T) /\ j < T /\ j \in 1..n /\ (n + 1) + 1 - k = n + 1 - j /\ n + 1 - j \in 1..n
        BY <1>0, <2>3, <3>1, <3>3 DEF Least
      <4>2. outputs[c + j] = made[n + 1 - j]
        BY <1>0, <4>1 DEF c, n, T
      <4>3. made'[(n + 1) + 1 - k] = outputs[c + j]
        BY <2>3, <4>1, <4>2
      <4>4. CASE c > 0
        <5>1. d + k = c + j /\ c + j \in 0..(2 * T - 1) /\ c + j # c /\ c + j # c + T
          BY <1>0, <2>4, <2>6, <4>1, <4>4
        <5> QED BY <2>7, <4>3, <5>1
      <4>5. CASE c = 0
        <5>1. /\ d + k = j + T /\ j + T \in 0..(2 * T - 1) /\ j + T # c /\ j + T # c + T
              /\ j \in 0..(T - 1) /\ c + j = j
          BY <1>0, <2>5, <2>6, <4>1, <4>5
        <5>2. outputs[j] = outputs[j + T]
          BY <1>0, <5>1
        <5> QED BY <2>7, <4>3, <5>1, <5>2
      <4> QED BY <2>6, <4>4, <4>5
    <3> QED BY <3>1, <3>2, <3>3
  <2> QED BY <2>3, <2>6, <2>7, <2>8, <2>9 DEF Ringed, Slots, d, T
<1> QED
  BY <1>1, <1>2, <1>3
     DEF Next, Called, Enter, Returns, Leave, equalizerVars, Sampling, Convolving, Playing, Reading,
         DecodingBits, EqualizingTaps, Building, EqualizerDone, Return

LEMMA DecayedKeeps ==
  ASSUME Decayed, kind = "cma", Next
  PROVE  Decayed'
<1> USE EqualizerAssumption
<1>0. /\ "samples" \in DOMAIN sums /\ sums.samples \in Nat
      /\ tapping \in [left : Nat, every : MinTapsInterval..MaxTapsInterval, disabled : Int]
      /\ sums.samples + tapping.left + 1 <= MaxTapsInterval
  BY DEF Decayed
<1>1. CASE UNCHANGED <<sums, tapping>>
  BY <1>1 DEF Decayed
<1>2. "samples" \in DOMAIN Accumulated /\ Accumulated.samples \in {sums.samples, sums.samples + 1}
  <2>1. CASE sums.left = 0
    <3>1. Accumulated = [sums EXCEPT !.left = sums.every - 1, !.samples = sums.samples + 1]
      BY <2>1 DEF Accumulated
    <3> QED BY <1>0, <3>1
  <2>2. CASE sums.left # 0
    <3>1. Accumulated = [sums EXCEPT !.left = sums.left - 1]
      BY <2>2 DEF Accumulated
    <3> QED BY <1>0, <3>1
  <2> QED BY <2>1, <2>2
<1>3. "samples" \in DOMAIN Gathered /\ Gathered.samples = 0
  BY <1>2 DEF Gathered
<1>4. CASE Equalize
  <2>1. tapping.left > 0 /\ sums' = Accumulated /\ tapping' = [tapping EXCEPT !.left = @ - 1]
    BY <1>4 DEF Equalize
  <2>2. /\ tapping' \in [left : Nat, every : MinTapsInterval..MaxTapsInterval, disabled : Int]
        /\ tapping'.left = tapping.left - 1
    BY <1>0, <2>1
  <2> QED BY <1>0, <1>2, <2>1, <2>2 DEF Decayed
<1>5. CASE Weigh
  <2>1. /\ sums' = [Gathered EXCEPT !.enough = Gathered.weight > MinWeight]
        /\ tapping' = [tapping EXCEPT !.left = tapping.every - 1]
    BY <1>5 DEF Weigh
  <2>2. /\ tapping' \in [left : Nat, every : MinTapsInterval..MaxTapsInterval, disabled : Int]
        /\ tapping'.left = tapping.every - 1
    BY <1>0, <2>1
  <2>3. "samples" \in DOMAIN sums' /\ sums'.samples = 0
    <3> DEFINE enough == Gathered.weight > MinWeight
    <3> HIDE DEF enough
    <3>1. sums' = [Gathered EXCEPT !.enough = enough]
      BY <2>1 DEF enough
    <3> QED BY <1>3, <3>1
  <2> QED BY <1>0, <2>2, <2>3 DEF Decayed
<1>6. CASE Adapt
  <2>1. PICK every \in {Longer(tapping.every, MaxTapsInterval), Shorter(tapping.every, MinTapsInterval)} :
          LET often == Greatest(1, every \div TapsDivider)
          IN /\ sums' = [Gathered EXCEPT !.every = often, !.left = often - 1]
             /\ tapping' = [left |-> every - 1, every |-> every,
                            disabled |-> IF tapping.disabled = 0 THEN DisabledInterval - 1
                                         ELSE tapping.disabled - 1]
    BY <1>6 DEF Adapt
  <2> DEFINE often == Greatest(1, every \div TapsDivider)
             disabled == IF tapping.disabled = 0 THEN DisabledInterval - 1 ELSE tapping.disabled - 1
  <2>2. every \in MinTapsInterval..MaxTapsInterval
    BY <1>0 DEF Longer, Shorter, Least, Greatest
  <2>3. disabled \in Int
    BY <1>0
  <2> HIDE DEF often, disabled
  <2>4. /\ sums' = [Gathered EXCEPT !.every = often, !.left = often - 1]
        /\ tapping' = [left |-> every - 1, every |-> every, disabled |-> disabled]
    BY <2>1 DEF often, disabled
  <2>5. /\ tapping' \in [left : Nat, every : MinTapsInterval..MaxTapsInterval, disabled : Int]
        /\ tapping'.left = every - 1
    BY <1>0, <2>2, <2>3, <2>4
  <2>6. "samples" \in DOMAIN sums' /\ sums'.samples = 0
    BY <1>3, <2>4
  <2> QED BY <2>2, <2>5, <2>6 DEF Decayed
<1> QED
  BY <1>1, <1>4, <1>5, <1>6
     DEF Next, Called, Returns, Reset, EqualizerReset, equalizerVars, Sampling, Convolving, Playing, Reading,
         DecodingBits, EqualizingTaps, Building, EqualizerDone

-----------------------------------------------------------------------------
(* FileSource: the last element that has been put out is the one before    *)
(* the place where the file is read next.                                  *)
InOrder(before, after) ==
  \/ after = before + 1
  \/ kind = "loop" /\ after = 0 /\ before > FileSize - 1 - MaxRoom

Delivered ==
  /\ checked /\ output_index <= room
  /\ pc \in {"idle", "loop", "leave"}
  /\ place \in 0..FileSize /\ (failed => place = FileSize)
  /\ \A k \in 1..(Len(made) - 1) : InOrder(made[k], made[k + 1])
  /\ Len(made) > 0 => made[Len(made)] = place - 1
  /\ eof => kind = "file" /\ place = FileSize
  /\ pc = "loop" => input_index = 0 /\ output_index = 0 /\ 1 <= room /\ room <= MaxRoom
  /\ pc = "leave" => 1 <= output_index \/ eof

LEMMA DeliveredKeeps ==
  ASSUME Counts, Delivered, kind \in {"file", "loop"}, Next
  PROVE  Counts' /\ Delivered'
<1> USE DevicesAssumption, SlicesAssumption
<1>1. CASE Called
  <2>1. 1 <= room' /\ room' <= MaxRoom
    BY <1>1, Entering, Declared
  <2>2. UNCHANGED <<place, failed, eof>>
    BY <1>1, Entering DEF Unslice, deviceVars
  <2>3. output_index' <= room'
    BY <1>1, <2>1, Entering
  <2> QED BY <1>1, <2>1, <2>2, <2>3, Entering DEF Delivered, InOrder
<1>2. CASE Returns
  <2>1. checked'
    <3>1. StatesOf[kind] = [required |-> 0, room |-> 1, provided |-> 1, idle |-> TRUE]
      BY Declared
    <3> QED BY <1>2, <3>1, Leaving DEF Delivered
  <2>2. UNCHANGED <<place, failed, eof>>
    BY <1>2, Leaving DEF Unslice, deviceVars
  <2>3. output_index' <= room'
    BY <1>2 DEF Returns, Leave
  <2> QED BY <1>2, <2>1, <2>2, <2>3, Leaving DEF Delivered, InOrder
<1>3. CASE Reset
  <2>1. UNCHANGED <<place, failed, eof>>
    BY <1>3 DEF Reset, DevicesReset
  <2> QED BY <1>3, <2>1, Resetting DEF Delivered
<1>4. ASSUME ReadFile(kind = "loop")
      PROVE  Counts' /\ Delivered'
  <2> DEFINE short == failed \/ Got(place) < room
             again == kind = "loop" /\ short
             n == IF again THEN Got(0) ELSE IF failed THEN 0 ELSE Got(place)
             from == IF again THEN 0 ELSE place
             outs == [k \in 1..n |-> from + k - 1]
  <2>1. /\ pc = "loop" /\ pc' = "leave" /\ checked' = checked
        /\ made' = made \o outs /\ output_index' = output_index + Len(outs)
        /\ input_index' = input_index + 0 /\ UNCHANGED <<kind, taken, given, room>>
        /\ place' = from + n /\ failed' = (n < room) /\ eof' = (n = 0)
    BY <1>4 DEF ReadFile, Emit
  <2>2. /\ room \in Nat /\ 1 <= room /\ room <= MaxRoom /\ input_index = 0 /\ output_index = 0
        /\ place \in 0..FileSize /\ (failed => place = FileSize)
    BY <2>1 DEF Delivered, Counts
  <2>3. \A p \in 0..FileSize : /\ Got(p) \in Nat /\ Got(p) <= room /\ p + Got(p) <= FileSize
                               /\ Got(p) < room => p + Got(p) = FileSize
    BY <2>2 DEF Got
  <2>4. Got(0) >= 1
    BY <2>2 DEF Got
  <2>5. /\ n \in Nat /\ n <= room /\ from \in 0..FileSize /\ from + n \in 0..FileSize
        /\ n < room => from + n = FileSize
        /\ n = 0 => kind = "file" /\ from + n = FileSize
        /\ from = place \/ (kind = "loop" /\ from = 0 /\ place > FileSize - MaxRoom /\ n >= 1)
    <3>1. CASE again
      <4>1. n = Got(0) /\ from = 0 /\ 0 \in 0..FileSize
        BY <3>1
      <4>2. place > FileSize - MaxRoom
        <5>1. Got(place) \in Nat /\ (Got(place) < room => place + Got(place) = FileSize)
          BY <2>2, <2>3
        <5>2. failed \/ Got(place) < room
          BY <3>1
        <5> QED BY <2>2, <5>1, <5>2
      <4> HIDE DEF n, from
      <4> QED BY <2>2, <2>3, <2>4, <3>1, <4>1, <4>2
    <3>2. CASE ~again /\ failed
      <4>1. n = 0 /\ from = place /\ place = FileSize /\ kind = "file"
        BY <2>2, <3>2
      <4> HIDE DEF n, from
      <4> QED BY <2>2, <4>1
    <3>3. CASE ~again /\ ~failed
      <4>1. n = Got(place) /\ from = place /\ (kind = "loop" => Got(place) >= room)
        BY <2>2, <2>3, <3>3
      <4> HIDE DEF n, from
      <4> QED BY <2>2, <2>3, <4>1
    <3> QED BY <3>1, <3>2, <3>3
  <2>6. Listing(outs) /\ Len(outs) = n /\ \A k \in 1..n : outs[k] = from + k - 1
    <3>1. outs = [k \in 1..n |-> outs[k]]
      OBVIOUS
    <3> QED BY <2>5, <3>1, Made
  <2> HIDE DEF short, again, n, from, outs
  <2>7. input_index' \in Nat /\ pc # "idle" /\ pc' # "idle"
    BY <2>1, <2>2
  <2>8. /\ Counts' /\ Len(made) \in Nat /\ Len(made') = Len(made) + n
        /\ \A k \in 1..Len(made) : made'[k] = made[k]
        /\ \A k \in 1..n : made'[Len(made) + k] = outs[k]
    BY <2>1, <2>6, <2>7, Emitting
  <2>9. ASSUME NEW k \in 1..(Len(made') - 1) PROVE InOrder(made'[k], made'[k + 1])
    <3>1. CASE k < Len(made)
      <4>1. k \in 1..(Len(made) - 1) /\ k \in 1..Len(made) /\ k + 1 \in 1..Len(made)
        BY <2>5, <2>8, <3>1
      <4> QED BY <2>8, <4>1 DEF Delivered
    <3>2. CASE k = Len(made)
      <4>1. made'[k] = place - 1
        <5>1. k \in 1..Len(made) /\ Len(made) > 0
          BY <2>8, <3>2
        <5> QED BY <2>8, <3>2, <5>1 DEF Delivered
      <4>2. made'[k + 1] = from
        <5>1. 1 \in 1..n
          BY <2>5, <2>8, <3>2
        <5> QED BY <2>5, <2>6, <2>8, <3>2, <5>1
      <4> QED BY <2>2, <2>5, <4>1, <4>2 DEF InOrder
    <3>3. CASE k > Len(made)
      <4> DEFINE j == k - Len(made)
      <4>1. j \in 1..n /\ j + 1 \in 1..n /\ k = Len(made) + j /\ k + 1 = Len(made) + (j + 1)
        BY <2>5, <2>8, <3>3
      <4> HIDE DEF j
      <4>2. made'[k] = from + j - 1 /\ made'[k + 1] = from + (j + 1) - 1
        BY <2>6, <2>8, <4>1
      <4>3. made'[k + 1] = made'[k] + 1
        BY <2>5, <4>1, <4>2
      <4> QED BY <4>3 DEF InOrder
    <3> QED BY <2>5, <2>8, <3>1, <3>2, <3>3
  <2>10. Len(made') > 0 => made'[Len(made')] = place' - 1
    <3>1. CASE n = 0
      <4>1. from = place /\ place' = place /\ Len(made') = Len(made)
        BY <2>1, <2>2, <2>5, <2>8, <3>1
      <4>2. ASSUME Len(made) > 0 PROVE made'[Len(made)] = place - 1
        <5>1. Len(made) \in 1..Len(made)
          BY <2>8, <4>2
        <5> QED BY <2>8, <4>2, <5>1 DEF Delivered
      <4> QED BY <4>1, <4>2
    <3>2. CASE n # 0
      <4>1. n \in 1..n
        BY <2>5, <3>2
      <4>2. made'[Len(made) + n] = from + n - 1
        BY <2>6, <2>8, <4>1
      <4>3. place' = from + n /\ Len(made') = Len(made) + n
        BY <2>1, <2>8
      <4>4. from + n - 1 = place' - 1
        BY <2>5, <4>3
      <4> QED BY <4>2, <4>3, <4>4
    <3> QED BY <3>1, <3>2
  <2>13. \A k \in 1..(Len(made') - 1) : InOrder(made[k], made[k + 1])'
    <3>1. ASSUME NEW k \in 1..(Len(made') - 1) PROVE InOrder(made[k], made[k + 1])'
      BY <2>1, <2>9, <3>1 DEF InOrder
    <3> QED BY <3>1
  <2>14. /\ output_index' = n /\ output_index' <= room' /\ place' \in 0..FileSize
         /\ (failed' => place' = FileSize) /\ (eof' => kind' = "file" /\ place' = FileSize)
         /\ (1 <= output_index' \/ eof')
    <3>1. output_index' = n /\ room' = room /\ kind' = kind
      BY <2>1, <2>2, <2>5, <2>6
    <3>2. place' = from + n /\ (failed' <=> n < room) /\ (eof' <=> n = 0)
      BY <2>1
    <3> QED BY <2>2, <2>5, <3>1, <3>2
  <2> QED BY <2>1, <2>8, <2>10, <2>13, <2>14 DEF Delivered
<1>5. CASE kind = "file" /\ ReadFile(FALSE)
  <2>1. (kind = "loop") = FALSE
    BY <1>5
  <2>2. ReadFile(kind = "loop")
    BY <1>5, <2>1
  <2> QED BY <1>4, <2>2
<1>6. CASE kind = "loop" /\ ReadFile(TRUE)
  <2>1. (kind = "loop") = TRUE
    BY <1>6
  <2>2. ReadFile(kind = "loop")
    BY <1>6, <2>1
  <2> QED BY <1>4, <2>2
<1> QED
  BY <1>1, <1>2, <1>3, <1>5, <1>6
     DEF Next, Sampling, Convolving, Playing, Reading, DecodingBits, EqualizingTaps, Building

-----------------------------------------------------------------------------
(* The decoders of the bits: at most one output to an input.               *)
Decoded ==
  /\ checked /\ output_index <= room
  /\ pc \in {"idle", "loop", "leave"}
  /\ pc = "loop" => 1 <= given /\ 1 <= room /\ output_index <= input_index
  /\ pc = "leave" => input_index > 0

Decoders == {"bits", "groups", "air"}

LEMMA Taking ==
  ASSUME Counts, Decoded, Decoding, NEW outs, Listing(outs), Len(outs) <= 1, Emit(outs, 1),
         pc' = pc, checked' = checked
  PROVE  Counts' /\ Decoded' /\ Place' = Place + 1 /\ Place \in Nat
<1>1. /\ pc = "loop" /\ pc # "idle" /\ pc' # "idle" /\ output_index < room
      /\ made' = made \o outs /\ output_index' = output_index + Len(outs)
      /\ input_index' = input_index + 1 /\ UNCHANGED <<kind, taken, given, room>>
  BY DEF Emit, Decoding
<1>2. input_index' \in Nat /\ Place' = Place + 1 /\ Place \in Nat
  BY <1>1 DEF Counts, Place
<1>3. Counts' /\ Len(outs) \in Nat
  BY <1>1, <1>2, Emitting
<1>4. checked' /\ output_index' <= room' /\ pc' = "loop" /\ 1 <= given' /\ 1 <= room'
      /\ output_index' <= input_index'
  BY <1>1, <1>3 DEF Counts, Decoded
<1> QED BY <1>2, <1>3, <1>4 DEF Decoded

LEMMA TakingNone ==
  ASSUME Counts, Decoded, Decoding, Emit(<<>>, 1), pc' = pc, checked' = checked
  PROVE  /\ Counts' /\ Decoded' /\ Place' = Place + 1 /\ Place \in Nat
         /\ Len(made) \in Nat /\ Len(made') = Len(made)
         /\ \A k \in 1..Len(made) : made'[k] = made[k]
<1> DEFINE outs == <<>>
<1>1. Listing(outs) /\ Len(outs) <= 1 /\ Emit(outs, 1)
  BY Listings
<1> HIDE DEF outs
<1>2. Counts' /\ Decoded' /\ Place' = Place + 1 /\ Place \in Nat
  BY <1>1, Taking
<1>3. made' = made \o <<>> /\ output_index' = output_index + Len(<<>>) /\ input_index' = input_index + 1
      /\ UNCHANGED <<kind, taken, given, room>> /\ pc # "idle" /\ input_index' \in Nat
  BY DEF Emit, Decoding, Counts
<1>4. /\ Len(made) \in Nat /\ Len(made') = Len(made)
      /\ \A k \in 1..Len(made) : made'[k] = made[k]
  BY <1>3, EmittingNone
<1> QED BY <1>2, <1>4

LEMMA TakingOne ==
  ASSUME Counts, Decoded, Decoding, NEW g, Emit(<<g>>, 1), pc' = pc, checked' = checked
  PROVE  /\ Counts' /\ Decoded' /\ Place' = Place + 1 /\ Place \in Nat
         /\ Len(made) \in Nat /\ Len(made') = Len(made) + 1
         /\ \A k \in 1..Len(made) : made'[k] = made[k]
         /\ made'[Len(made) + 1] = g
<1> DEFINE outs == <<g>>
<1>1. Listing(outs) /\ Len(outs) <= 1 /\ Emit(outs, 1)
  BY Listings
<1> HIDE DEF outs
<1>2. Counts' /\ Decoded' /\ Place' = Place + 1 /\ Place \in Nat
  BY <1>1, Taking
<1>3. made' = made \o <<g>> /\ output_index' = output_index + Len(<<g>>) /\ input_index' = input_index + 1
      /\ UNCHANGED <<kind, taken, given, room>> /\ pc # "idle" /\ input_index' \in Nat
  BY DEF Emit, Decoding, Counts
<1>4. /\ Len(made) \in Nat /\ Len(made') = Len(made) + 1
      /\ \A k \in 1..Len(made) : made'[k] = made[k]
      /\ made'[Len(made) + 1] = g
  BY <1>3, EmittingOne
<1> QED BY <1>2, <1>4

(* A group that has been received, and what Air does.                      *)
Arrival(g, info, start, burst) ==
  /\ g.sent = info /\ g.burst = burst
  /\ g.group = Extracted(Received(info, start, burst)).group

Arrived(g) ==
  \E info \in Infos, start \in 0..(4 * CodeBits - 1), burst \in Bursts : Arrival(g, info, start, burst)

LEMMA AirEmits ==
  ASSUME Air
  PROVE  Emit(<<>>, 1) \/ \E g : Arrived(g) /\ Emit(<<g>>, 1)
<1>1. PICK info \in Infos, start \in 0..(4 * CodeBits - 1), burst \in Bursts :
        \E e \in {Extracted(Received(info, start, burst))} :
          Emit(IF InSync(Count(e.counted, Valid), Count(e.counted, Corrected), TRUE)
               THEN <<[sent |-> info, burst |-> burst, group |-> e.group]>>
               ELSE <<>>,
               1)
  BY DEF Air
<1> DEFINE e == Extracted(Received(info, start, burst))
           insync == InSync(Count(e.counted, Valid), Count(e.counted, Corrected), TRUE)
           g == [sent |-> info, burst |-> burst, group |-> e.group]
<1>2. Emit(IF insync THEN <<g>> ELSE <<>>, 1)
  BY <1>1
<1>3. Arrived(g)
  <2>1. Arrival(g, info, start, burst)
    BY DEF Arrival
  <2> HIDE DEF g
  <2> QED BY <2>1 DEF Arrived
<1> HIDE DEF insync, g
<1> QED BY <1>2, <1>3

LEMMA DecodedKeeps ==
  ASSUME Counts, Decoded, kind \in Decoders, Next
  PROVE  Counts' /\ Decoded'
<1>1. CASE Called
  <2>1. 1 <= given' /\ 1 <= room'
    BY <1>1, Entering, Declared DEF Decoders
  <2>2. output_index' <= room' /\ output_index' <= input_index'
    BY <1>1, <2>1, Entering
  <2> QED BY <1>1, <2>1, <2>2, Entering DEF Decoded
<1>2. CASE Returns
  <2>1. checked'
    <3>1. input_index % 1 = 0 /\ output_index >= 0
      BY ByOne DEF Counts
    <3>2. StatesOf[kind] = [required |-> 1, room |-> 1, provided |-> 0, idle |-> FALSE]
      BY Declared DEF Decoders
    <3> QED BY <1>2, <3>1, <3>2, Leaving DEF Decoded
  <2>2. output_index' <= room'
    BY <1>2 DEF Returns, Leave
  <2> QED BY <1>2, <2>1, <2>2, Leaving DEF Decoded
<1>3. CASE Reset
  BY <1>3, Resetting DEF Decoded
<1>4. CASE BitsDone
  <2>1. /\ pc = "loop" /\ pc' = "leave" /\ checked' = checked /\ Counts'
        /\ UNCHANGED <<kind, taken, made, given, room, input_index, output_index>>
    BY <1>4, Returning DEF BitsDone, Return
  <2>2. input_index > 0
    BY <1>4, <2>1 DEF BitsDone, Decoding, Decoded, Counts
  <2> QED BY <2>1, <2>2 DEF Decoded
<1>5. CASE NoCrossing
  <2>1. Decoding /\ Emit(<<>>, 1) /\ pc' = pc /\ checked' = checked
    BY <1>5 DEF NoCrossing
  <2> QED BY <2>1, TakingNone, TakingOne
<1>6. CASE Crossing
  <2>1. Decoding /\ Emit(IF SymbolNow THEN <<crossings>> ELSE <<>>, 1) /\ pc' = pc /\ checked' = checked
    BY <1>6 DEF Crossing
  <2>2. CASE SymbolNow
    <3>1. Emit(<<crossings>>, 1)
      BY <2>1, <2>2
    <3> QED BY <2>1, <3>1, TakingNone, TakingOne
  <2>3. CASE ~SymbolNow
    <3>1. Emit(<<>>, 1)
      BY <2>1, <2>3
    <3> QED BY <2>1, <3>1, TakingNone, TakingOne
  <2> QED BY <2>2, <2>3
<1>7. CASE Bit
  <2>1. Decoding /\ pc' = pc /\ checked' = checked /\ (Emit(<<>>, 1) \/ Emit(<<blocks'>>, 1))
    BY <1>7 DEF Bit
  <2>2. CASE Emit(<<>>, 1)
    BY <2>1, <2>2, TakingNone, TakingOne
  <2>3. CASE Emit(<<blocks'>>, 1)
    BY <2>1, <2>3, TakingNone, TakingOne
  <2> QED BY <2>1, <2>2, <2>3
<1>8. CASE Air
  <2>1. Decoding /\ pc' = pc /\ checked' = checked /\ (Emit(<<>>, 1) \/ \E g : Emit(<<g>>, 1))
    BY <1>8, AirEmits DEF Air
  <2>2. CASE Emit(<<>>, 1)
    BY <2>1, <2>2, TakingNone, TakingOne
  <2>3. ASSUME NEW g, Emit(<<g>>, 1) PROVE Counts' /\ Decoded'
    BY <2>1, <2>3, TakingNone, TakingOne
  <2> QED BY <2>1, <2>2, <2>3
<1> QED
  BY <1>1, <1>2, <1>3, <1>4, <1>5, <1>6, <1>7, <1>8
     DEF Next, Sampling, Convolving, Playing, Reading, DecodingBits, EqualizingTaps, Building, Decoders

(* Of the clock that the symbols are at: how long ago the last one was,    *)
(* when the clock that is the best now is still to come, and when it has   *)
(* gone by.                                                                *)
Clocked ==
  /\ crossings \in Nat /\ passed \in Nat
  /\ clock \in 0..(Divider - 1) /\ best \in 0..(Divider - 1)
  /\ Len(made) > 0 =>
       /\ made[Len(made)] = crossings - passed
       /\ clock <= best => 2 * (passed - clock) <= 3 * Divider
       /\ clock > best => 2 * ((passed - clock) + best) <= Divider
  /\ \A k \in 1..(Len(made) - 1) :
       made[k + 1] - made[k] > Divider \div 2 /\ 2 * (made[k + 1] - made[k]) < 5 * Divider

LEMMA Halves ==
  ASSUME NEW n \in Nat
  PROVE  n \div 2 \in Nat /\ 2 * (n \div 2) <= n
OBVIOUS

LEMMA ClockedKeeps ==
  ASSUME Counts, Decoded, Clocked, kind = "bits", Next
  PROVE  Clocked'
<1> USE RdsBitsAssumption
<1>1. ASSUME UNCHANGED <<made, crossings, passed, clock, best>>
      PROVE  Clocked'
  BY <1>1 DEF Clocked
<1>2. CASE Called \/ Returns \/ BitsDone
  <2>1. UNCHANGED <<made, crossings, passed, clock, best>>
    BY <1>2, Entering, Leaving, Returning DEF Unslice, rdsVars, BitsDone
  <2> QED BY <1>1, <2>1
<1>3. CASE Reset
  <2>1. crossings' = 0 /\ passed' = Divider /\ clock' = 0 /\ best' = 0 /\ Len(made') = 0
    BY <1>3, Resetting DEF Reset, RdsReset
  <2> QED BY <2>1 DEF Clocked
<1>4. CASE NoCrossing
  <2>1. /\ UNCHANGED <<crossings, passed, clock, best>>
        /\ Len(made) \in Nat /\ Len(made') = Len(made) /\ \A k \in 1..Len(made) : made'[k] = made[k]
    BY <1>4, TakingNone DEF NoCrossing, rdsVars
  <2>2. Len(made) > 0 => Len(made) \in 1..Len(made)
    BY <2>1
  <2>3. \A k \in 1..(Len(made) - 1) : k \in 1..Len(made) /\ k + 1 \in 1..Len(made)
    BY <2>1
  <2>4. \A k \in 1..(Len(made') - 1) : made'[k] = made[k] /\ made'[k + 1] = made[k + 1]
    BY <2>1, <2>3
  <2>5. Len(made') > 0 => made'[Len(made')] = made[Len(made)]
    BY <2>1, <2>2
  <2> QED BY <2>1, <2>4, <2>5 DEF Clocked
<1>5. CASE Crossing
  <2>1. /\ Decoding /\ pc' = pc /\ checked' = checked
        /\ Emit(IF SymbolNow THEN <<crossings>> ELSE <<>>, 1)
        /\ crossings' = crossings + 1
        /\ passed' = (IF SymbolNow THEN 0 ELSE passed) + 1
        /\ clock' = (clock + 1) % Divider
        /\ IF clock + 1 = Divider THEN best' \in 0..(Divider - 1) ELSE best' = best
    BY <1>5 DEF Crossing
  <2>2. /\ crossings \in Nat /\ passed \in Nat /\ Divider \in Nat \ {0}
        /\ clock \in 0..(Divider - 1) /\ best \in 0..(Divider - 1)
    BY DEF Clocked
  <2>3. clock' = IF clock + 1 = Divider THEN 0 ELSE clock + 1
    <3>1. (0 * Divider + clock) % Divider = clock /\ 0 * Divider + clock = clock
      BY <2>2, Quotients
    <3>2. clock % Divider = clock /\ clock \in Nat
      BY <2>2, <3>1
    <3>3. (clock + 1) % Divider = IF (clock % Divider) + 1 = Divider THEN 0 ELSE (clock % Divider) + 1
      BY <2>2, <3>2, Successor
    <3> DEFINE r == clock % Divider
               now == (clock + 1) % Divider
    <3>4. r = clock /\ clock' = now /\ now = IF r + 1 = Divider THEN 0 ELSE r + 1
      BY <2>1, <3>2, <3>3
    <3> HIDE DEF r, now
    <3> QED BY <3>4
  <2>4. /\ crossings' \in Nat /\ passed' \in Nat
        /\ clock' \in 0..(Divider - 1) /\ best' \in 0..(Divider - 1)
        /\ clock + 1 # Divider => best' = best
    BY <2>1, <2>2, <2>3
  <2>5. CASE SymbolNow
    <3>1. Emit(<<crossings>>, 1)
      BY <2>1, <2>5
    <3>2. /\ Len(made) \in Nat /\ Len(made') = Len(made) + 1
          /\ \A k \in 1..Len(made) : made'[k] = made[k]
          /\ made'[Len(made) + 1] = crossings
      BY <2>1, <3>1, TakingOne
    <3>3. passed' = 1 /\ clock = best /\ passed > Divider \div 2
      BY <2>1, <2>5 DEF SymbolNow
    <3>4. made'[Len(made')] = crossings' - passed'
      BY <2>1, <2>2, <3>2, <3>3
    <3>5. /\ clock' <= best' => 2 * (passed' - clock') <= 3 * Divider
          /\ clock' > best' => 2 * ((passed' - clock') + best') <= Divider
      <4>1. CASE clock + 1 = Divider
        <5>1. clock' = 0 /\ best' \in Nat /\ passed' = 1
          BY <2>2, <2>3, <2>4, <3>3, <4>1
        <5>2. ~(clock' > best') /\ passed' - clock' = 1
          BY <5>1
        <5> QED BY <2>2, <5>2
      <4>2. CASE clock + 1 # Divider
        BY <2>2, <2>3, <2>4, <3>3, <4>2
      <4> QED BY <4>1, <4>2
    <3>6. ASSUME NEW k \in 1..(Len(made') - 1)
          PROVE  made'[k + 1] - made'[k] > Divider \div 2 /\ 2 * (made'[k + 1] - made'[k]) < 5 * Divider
      <4>1. CASE k < Len(made)
        <5>1. k \in 1..(Len(made) - 1) /\ k \in 1..Len(made) /\ k + 1 \in 1..Len(made)
          BY <3>2, <4>1
        <5>2. made'[k] = made[k] /\ made'[k + 1] = made[k + 1]
          BY <3>2, <5>1
        <5> QED BY <5>1, <5>2 DEF Clocked
      <4>2. CASE k = Len(made)
        <5>1. Len(made) > 0 /\ k \in 1..Len(made)
          BY <3>2, <4>2
        <5>2. made'[k] = crossings - passed /\ made'[k + 1] = crossings
          BY <3>2, <4>2, <5>1 DEF Clocked
        <5>3. made'[k + 1] - made'[k] = passed
          BY <2>2, <5>2
        <5>4. 2 * (passed - clock) <= 3 * Divider
          BY <2>2, <3>3, <5>1 DEF Clocked
        <5>5. 2 * passed < 5 * Divider
          BY <2>2, <5>4
        <5> QED BY <3>3, <5>3, <5>5
      <4> QED BY <3>2, <4>1, <4>2
    <3> QED BY <2>4, <3>4, <3>5, <3>6 DEF Clocked
  <2>6. CASE ~SymbolNow
    <3>1. Emit(<<>>, 1)
      BY <2>1, <2>6
    <3>2. /\ Len(made) \in Nat /\ Len(made') = Len(made)
          /\ \A k \in 1..Len(made) : made'[k] = made[k]
      BY <2>1, <3>1, TakingNone
    <3>3. passed' = passed + 1 /\ (clock = best => ~(passed > Divider \div 2))
      BY <2>1, <2>6 DEF SymbolNow
    <3>4. \A k \in 1..(Len(made) - 1) : k \in 1..Len(made) /\ k + 1 \in 1..Len(made)
      BY <3>2
    <3>5. \A k \in 1..(Len(made') - 1) : made'[k] = made[k] /\ made'[k + 1] = made[k + 1]
      BY <3>2, <3>4
    <3>6. ASSUME Len(made) > 0
          PROVE  /\ made'[Len(made')] = crossings' - passed'
                 /\ clock' <= best' => 2 * (passed' - clock') <= 3 * Divider
                 /\ clock' > best' => 2 * ((passed' - clock') + best') <= Divider
      <4>1. Len(made) \in 1..Len(made)
        BY <3>2, <3>6
      <4>2. /\ made[Len(made)] = crossings - passed
            /\ clock <= best => 2 * (passed - clock) <= 3 * Divider
            /\ clock > best => 2 * ((passed - clock) + best) <= Divider
        BY <3>6 DEF Clocked
      <4>3. made'[Len(made')] = crossings' - passed'
        BY <2>1, <2>2, <3>2, <3>3, <4>1, <4>2
      <4>4. Divider \div 2 \in Nat /\ 2 * (Divider \div 2) <= Divider
        BY Halves
      <4>5. CASE clock < best
        <5>1. clock + 1 # Divider /\ clock' = clock + 1 /\ best' = best /\ clock <= best
          BY <2>2, <2>3, <2>4, <4>5
        <5>2. passed' - clock' = passed - clock /\ ~(clock' > best')
          BY <2>2, <3>3, <4>5, <5>1
        <5> QED BY <4>2, <4>3, <5>1, <5>2
      <4>6. CASE clock = best
        <5>1. 2 * passed <= Divider
          BY <2>2, <3>3, <4>4, <4>6
        <5>2. CASE clock + 1 = Divider
          <6>1. clock' = 0 /\ best' \in Nat /\ passed' = passed + 1
            BY <2>2, <2>3, <2>4, <3>3, <5>2
          <6>2. ~(clock' > best') /\ passed' - clock' = passed + 1
            BY <2>2, <6>1
          <6>3. 2 * (passed + 1) <= 3 * Divider
            BY <2>2, <5>1
          <6> QED BY <4>3, <6>2, <6>3
        <5>3. CASE clock + 1 # Divider
          BY <2>2, <2>3, <2>4, <3>3, <4>3, <4>6, <5>1, <5>3
        <5> QED BY <5>2, <5>3
      <4>7. CASE clock > best
        <5>1. CASE clock + 1 = Divider
          <6>1. clock' = 0 /\ best' \in Nat /\ passed' = passed + 1
            BY <2>2, <2>3, <2>4, <3>3, <5>1
          <6>2. ~(clock' > best') /\ passed' - clock' = passed + 1
            BY <2>2, <6>1
          <6>3. 2 * (passed + 1) <= 3 * Divider
            <7>1. 2 * ((passed - clock) + best) <= Divider
              BY <4>2, <4>7
            <7> QED BY <2>2, <5>1, <7>1
          <6> QED BY <4>3, <6>2, <6>3
        <5>2. CASE clock + 1 # Divider
          BY <2>2, <2>3, <2>4, <3>3, <4>2, <4>3, <4>7, <5>2
        <5> QED BY <5>1, <5>2
      <4> QED BY <2>2, <4>5, <4>6, <4>7
    <3> QED BY <2>4, <3>2, <3>5, <3>6 DEF Clocked
  <2> QED BY <2>5, <2>6
<1> QED
  BY <1>2, <1>3, <1>4, <1>5
     DEF Next, Sampling, Convolving, Playing, Reading, DecodingBits, EqualizingTaps, Building

(* The accumulated bits are the latest ones of blocks, in order; the last  *)
(* group ends where they begin.                                            *)
Grouped ==
  /\ blocks \in [1..GroupBits -> Int]
  /\ accumulated \in Nat /\ skipped \in Nat
  /\ GroupBits * Len(made) + skipped + accumulated = Place
  /\ \A i \in 1..GroupBits : GroupBits - i < accumulated => blocks[i] = Place - 1 - (GroupBits - i)
  /\ Len(made) > 0 => made[Len(made)][GroupBits] = Place - 1 - accumulated
  /\ \A k \in 1..Len(made) :
       /\ made[k][1] >= (IF k = 1 THEN 0 ELSE made[k - 1][GroupBits] + 1)
       /\ \A i \in 2..GroupBits : made[k][i] = made[k][i - 1] + 1

LEMMA GroupBitsNat == GroupBits \in Nat \ {0, 1}
BY RdsBitsAssumption DEF GroupBits

LEMMA Shifting ==
  ASSUME NEW n \in Nat \ {0, 1}, NEW s \in [1..n -> Int], NEW x \in Int
  PROVE  /\ Append(Tail(s), x) \in [1..n -> Int]
         /\ \A i \in 1..n : Append(Tail(s), x)[i] = IF i < n THEN s[i + 1] ELSE x
<1>1. s \in Seq(Int) /\ Len(s) = n
  OBVIOUS
<1> DEFINE t == Tail(s)
<1>2. t \in Seq(Int) /\ Len(t) = n - 1 /\ \A i \in 1..(n - 1) : t[i] = s[i + 1]
  BY <1>1
<1> HIDE DEF t
<1> DEFINE u == Append(t, x)
<1>3. u \in Seq(Int) /\ Len(u) = n /\ u[n] = x /\ \A i \in 1..(n - 1) : u[i] = t[i]
  BY <1>2
<1> HIDE DEF u
<1>4. u \in [1..n -> Int]
  BY <1>3
<1>5. \A i \in 1..n : u[i] = IF i < n THEN s[i + 1] ELSE x
  BY <1>2, <1>3
<1> QED BY <1>4, <1>5 DEF t, u

LEMMA GroupedKeeps ==
  ASSUME Counts, Decoded, Grouped, kind = "groups", Next
  PROVE  Grouped'
<1> DEFINE n == GroupBits
<1>0. n \in Nat \ {0, 1} /\ Place \in Nat /\ Len(made) \in Nat
  BY GroupBitsNat, Joined, Listings DEF Counts, Place
<1>1. ASSUME UNCHANGED <<made, blocks, accumulated, skipped>>, Place' = Place
      PROVE  Grouped'
  BY <1>1 DEF Grouped, GroupBits
<1>2. CASE Called \/ Returns \/ BitsDone
  <2>1. UNCHANGED <<made, blocks, accumulated, skipped>> /\ Place' = Place
    BY <1>2, Entering, Leaving, Returning DEF Unslice, rdsVars, BitsDone, Place
  <2> QED BY <1>1, <2>1
<1>3. CASE Reset
  <2>1. /\ blocks' = [i \in 1..n |-> Foreign] /\ accumulated' = 0 /\ skipped' = 0
        /\ Len(made') = 0 /\ Place' = 0
    BY <1>3, Resetting DEF Reset, RdsReset
  <2>2. blocks' \in [1..GroupBits -> Int]
    BY <2>1 DEF Foreign
  <2>3. GroupBits' = GroupBits
    BY DEF GroupBits
  <2> HIDE DEF n
  <2>4. n * 0 = 0
    BY <1>0
  <2>5. GroupBits * Len(made') + skipped' + accumulated' = Place'
    BY <2>1, <2>4 DEF n
  <2>6. \A i \in 1..GroupBits : ~(GroupBits - i < accumulated')
    BY <1>0, <2>1 DEF n
  <2> QED BY <2>1, <2>2, <2>3, <2>5, <2>6 DEF Grouped
<1>4. CASE Bit
  <2>1. /\ Decoding /\ pc' = pc /\ checked' = checked /\ blocks' = Append(Tail(blocks), Place)
        /\ \/ Emit(<<>>, 1) /\ accumulated' = accumulated + 1 /\ skipped' = skipped
           \/ /\ Emit(<<blocks'>>, 1) /\ accumulated + 1 >= n
              /\ accumulated' = 0 /\ skipped' = skipped + accumulated + 1 - n
    BY <1>4 DEF Bit, Shifted, Place
  <2>2. /\ blocks \in [1..n -> Int] /\ accumulated \in Nat /\ skipped \in Nat
        /\ n * Len(made) + skipped + accumulated = Place
        /\ \A i \in 1..n : n - i < accumulated => blocks[i] = Place - 1 - (n - i)
        /\ Len(made) > 0 => made[Len(made)][n] = Place - 1 - accumulated
    BY DEF Grouped
  <2>3. /\ blocks' \in [1..n -> Int]
        /\ \A i \in 1..n : blocks'[i] = IF i < n THEN blocks[i + 1] ELSE Place
    <3> DEFINE u == Append(Tail(blocks), Place)
    <3> HIDE DEF n
    <3>1. Place \in Int /\ n \in Nat \ {0, 1} /\ blocks \in [1..n -> Int]
      BY <1>0, <2>2
    <3>2. u \in [1..n -> Int] /\ \A i \in 1..n : u[i] = IF i < n THEN blocks[i + 1] ELSE Place
      <4>1. \A m \in Nat \ {0, 1} : \A s \in [1..m -> Int] : \A x \in Int :
              /\ Append(Tail(s), x) \in [1..m -> Int]
              /\ \A i \in 1..m : Append(Tail(s), x)[i] = IF i < m THEN s[i + 1] ELSE x
        BY Shifting
      <4>2. \A s \in [1..n -> Int] : \A x \in Int :
              /\ Append(Tail(s), x) \in [1..n -> Int]
              /\ \A i \in 1..n : Append(Tail(s), x)[i] = IF i < n THEN s[i + 1] ELSE x
        BY <3>1, <4>1
      <4>3. \A x \in Int :
              /\ Append(Tail(blocks), x) \in [1..n -> Int]
              /\ \A i \in 1..n : Append(Tail(blocks), x)[i] = IF i < n THEN blocks[i + 1] ELSE x
        BY <3>1, <4>2
      <4> QED BY <3>1, <4>3
    <3>3. blocks' = u
      BY <2>1
    <3> HIDE DEF u
    <3> QED BY <3>2, <3>3
  <2>4. ASSUME NEW i \in 1..n, n - i < accumulated + 1 PROVE blocks'[i] = Place - (n - i)
    <3> HIDE DEF n
    <3>1. CASE i = n
      BY <1>0, <2>3, <3>1
    <3>2. CASE i # n
      <4>1. i + 1 \in 1..n /\ n - (i + 1) < accumulated /\ i < n
        BY <1>0, <2>2, <2>4, <3>2
      <4>2. blocks[i + 1] = Place - 1 - (n - (i + 1))
        BY <2>2, <4>1
      <4> QED BY <1>0, <2>3, <4>1, <4>2
    <3> QED BY <3>1, <3>2
  <2>5. GroupBits' = GroupBits
    BY DEF GroupBits
  <2>6. n * Len(made) \in Int /\ n * (Len(made) + 1) = n * Len(made) + n
    <3> HIDE DEF n
    <3>1. Len(made) * n \in Int /\ (Len(made) + 1) * n = Len(made) * n + n
      BY <1>0, Scaled
    <3>2. n * Len(made) = Len(made) * n /\ n * (Len(made) + 1) = (Len(made) + 1) * n
      BY <1>0
    <3> QED BY <3>1, <3>2
  <2>7. ASSUME \A k \in 1..Len(made) : made'[k] = made[k], NEW k \in 1..Len(made)
        PROVE  /\ made'[k][1] >= (IF k = 1 THEN 0 ELSE made'[k - 1][n] + 1)
               /\ \A i \in 2..n : made'[k][i] = made'[k][i - 1] + 1
    <3> HIDE DEF n
    <3>1. made'[k] = made[k] /\ (k # 1 => made'[k - 1] = made[k - 1])
      BY <1>0, <2>7
    <3>2. /\ made[k][1] >= (IF k = 1 THEN 0 ELSE made[k - 1][n] + 1)
          /\ \A i \in 2..n : made[k][i] = made[k][i - 1] + 1
      BY <2>7 DEF Grouped, n
    <3> QED BY <3>1, <3>2
  <2>8. CASE Emit(<<>>, 1) /\ accumulated' = accumulated + 1 /\ skipped' = skipped
    <3>1. /\ Len(made') = Len(made) /\ Place' = Place + 1
          /\ \A k \in 1..Len(made) : made'[k] = made[k]
      BY <2>1, <2>8, TakingNone
    <3> DEFINE product == n * Len(made)
    <3>2. product \in Int /\ product + skipped + accumulated = Place
      BY <2>2, <2>6
    <3>3. n * Len(made') = product
      BY <3>1
    <3> HIDE DEF n, product
    <3>4. n * Len(made') + skipped' + accumulated' = Place'
      BY <2>2, <2>8, <3>1, <3>2, <3>3
    <3>5. ASSUME NEW i \in 1..n, n - i < accumulated' PROVE blocks'[i] = Place' - 1 - (n - i)
      BY <1>0, <2>4, <2>8, <3>1, <3>5
    <3>6. ASSUME Len(made') > 0 PROVE made'[Len(made')][n] = Place' - 1 - accumulated'
      <4>1. made'[Len(made')] = made[Len(made)] /\ Len(made) > 0
        BY <1>0, <3>1, <3>6
      <4>2. made[Len(made)][n] = Place - 1 - accumulated
        BY <2>2, <4>1
      <4> QED BY <1>0, <2>2, <2>8, <3>1, <4>1, <4>2
    <3>7. accumulated' \in Nat /\ skipped' \in Nat
      BY <2>2, <2>8
    <3>8. \A k \in 1..Len(made') :
            /\ made'[k][1] >= (IF k = 1 THEN 0 ELSE made'[k - 1][n] + 1)
            /\ \A i \in 2..n : made'[k][i] = made'[k][i - 1] + 1
      BY <2>7, <3>1
    <3> QED BY <2>3, <2>5, <3>4, <3>5, <3>6, <3>7, <3>8 DEF Grouped, n
  <2>9. CASE /\ Emit(<<blocks'>>, 1) /\ accumulated + 1 >= n
             /\ accumulated' = 0 /\ skipped' = skipped + accumulated + 1 - n
    <3>1. /\ Len(made') = Len(made) + 1 /\ Place' = Place + 1
          /\ \A k \in 1..Len(made) : made'[k] = made[k]
          /\ made'[Len(made) + 1] = blocks'
      BY <2>1, <2>9, TakingOne
    <3> DEFINE product == n * Len(made)
    <3>2. product \in Int /\ product + skipped + accumulated = Place
      BY <2>2, <2>6
    <3>3. n * Len(made') = product + n
      BY <2>6, <3>1
    <3>4. product >= 0
      <4> HIDE DEF n
      <4> QED BY <1>0 DEF product
    <3> HIDE DEF n, product
    <3>5. n * Len(made') + skipped' + accumulated' = Place'
      BY <1>0, <2>2, <2>9, <3>1, <3>2, <3>3
    <3>6. ASSUME NEW i \in 1..n PROVE blocks'[i] = Place - (n - i)
      <4>1. n - i < accumulated + 1
        BY <1>0, <2>2, <2>9
      <4> QED BY <2>4, <4>1
    <3>7. \A i \in 1..n : ~(n - i < accumulated')
      BY <1>0, <2>9
    <3>8. made'[Len(made')][n] = Place' - 1 - accumulated'
      <4>1. n \in 1..n /\ n - n = 0
        BY <1>0
      <4>2. blocks'[n] = Place - (n - n)
        BY <3>6, <4>1
      <4>3. blocks'[n] = Place
        BY <1>0, <4>1, <4>2
      <4> QED BY <1>0, <2>9, <3>1, <4>3
    <3>9. accumulated' \in Nat /\ skipped' \in Nat
      BY <1>0, <2>2, <2>9
    <3>10. ASSUME NEW k \in 1..Len(made')
           PROVE  /\ made'[k][1] >= (IF k = 1 THEN 0 ELSE made'[k - 1][n] + 1)
                  /\ \A i \in 2..n : made'[k][i] = made'[k][i - 1] + 1
      <4>1. CASE k <= Len(made)
        <5>1. k \in 1..Len(made)
          BY <1>0, <3>1, <4>1
        <5> QED BY <2>7, <3>1, <5>1
      <4>2. CASE k = Len(made) + 1
        <5>1. made'[k] = blocks'
          BY <3>1, <4>2
        <5>2. ASSUME NEW i \in 2..n PROVE made'[k][i] = made'[k][i - 1] + 1
          <6>1. i \in 1..n /\ i - 1 \in 1..n
            BY <1>0
          <6>2. blocks'[i] = Place - (n - i) /\ blocks'[i - 1] = Place - (n - (i - 1))
            BY <3>6, <6>1
          <6>3. blocks'[i] = blocks'[i - 1] + 1
            BY <1>0, <6>1, <6>2
          <6> QED BY <5>1, <6>3
        <5>3. made'[k][1] = Place - (n - 1)
          <6>1. 1 \in 1..n
            BY <1>0
          <6> QED BY <3>6, <5>1, <6>1
        <5>4. CASE k = 1
          <6>1. Place - (n - 1) >= 0
            BY <1>0, <2>2, <2>9, <3>2, <3>4
          <6> QED BY <5>2, <5>3, <5>4, <6>1
        <5>5. CASE k # 1
          <6>1. Len(made) > 0 /\ Len(made) \in 1..Len(made) /\ k - 1 = Len(made)
            BY <1>0, <4>2, <5>5
          <6>2. made'[k - 1][n] = Place - 1 - accumulated
            BY <2>2, <3>1, <6>1
          <6>3. Place - (n - 1) >= made'[k - 1][n] + 1
            BY <1>0, <2>2, <2>9, <6>2
          <6> QED BY <5>2, <5>3, <5>5, <6>3
        <5> QED BY <5>4, <5>5
      <4> QED BY <1>0, <3>1, <4>1, <4>2
    <3> QED BY <2>3, <2>5, <3>5, <3>7, <3>8, <3>9, <3>10 DEF Grouped, n
  <2> QED BY <2>1, <2>8, <2>9
<1> QED
  BY <1>2, <1>3, <1>4
     DEF Next, Sampling, Convolving, Playing, Reading, DecodingBits, EqualizingTaps, Building

-----------------------------------------------------------------------------
(* What has been put out are groups that have been received.               *)
Aired == \A k \in 1..Len(made) : Arrived(made[k])

LEMMA AiredKeeps ==
  ASSUME Counts, Decoded, Aired, kind = "air", Next
  PROVE  Aired'
<1>1. \A g : Arrived(g)' = Arrived(g)
  BY DEF Arrived, Arrival
<1>2. ASSUME made' = made
      PROVE  Aired'
  BY <1>1, <1>2 DEF Aired
<1>3. CASE Called \/ Returns \/ BitsDone
  BY <1>2, <1>3, Entering, Leaving, Returning DEF BitsDone
<1>4. CASE Reset
  BY <1>4, Resetting DEF Aired
<1>5. CASE Air
  <2>1. Decoding /\ pc' = pc /\ checked' = checked
    BY <1>5 DEF Air
  <2>2. CASE Emit(<<>>, 1)
    BY <1>1, <2>1, <2>2, TakingNone DEF Aired
  <2>3. ASSUME NEW g, Arrived(g), Emit(<<g>>, 1)
        PROVE  Aired'
    <3>1. /\ Len(made) \in Nat /\ Len(made') = Len(made) + 1
          /\ \A k \in 1..Len(made) : made'[k] = made[k]
          /\ made'[Len(made) + 1] = g
      BY <2>1, <2>3, TakingOne
    <3>2. \A k \in 1..Len(made') : k \in 1..Len(made) \/ k = Len(made) + 1
      BY <3>1
    <3>3. \A k \in 1..Len(made') : Arrived(made'[k])
      BY <2>3, <3>1, <3>2 DEF Aired
    <3> QED BY <1>1, <3>3 DEF Aired
  <2> QED BY <1>5, <2>2, <2>3, AirEmits
<1> QED
  BY <1>3, <1>4, <1>5
     DEF Next, Sampling, Convolving, Playing, Reading, DecodingBits, EqualizingTaps, Building

-----------------------------------------------------------------------------
(* Pipeline::add: a filter that has been left has no neighbour that has    *)
(* not been found.                                                         *)
Followed ==
  /\ checked /\ pc = "idle"
  /\ path \in Seq(found) /\ linked \subseteq found
  /\ \A f \in found : (\A k \in 1..Len(path) : path[k] # f) => Unseen(f) = {}

LEMMA Preceded ==
  ASSUME NEW S, NEW x \in S, NEW s \in Seq(S)
  PROVE  /\ <<x>> \o s \in Seq(S) /\ Len(<<x>> \o s) = 1 + Len(s) /\ (<<x>> \o s)[1] = x
         /\ \A k \in 1..Len(s) : (<<x>> \o s)[1 + k] = s[k]
OBVIOUS

LEMMA OnlyBuilding ==
  ASSUME Followed, kind = "graph", Next
  PROVE  FindFilter \/ LinkBlock
<1>1. ~Returns
  BY DEF Returns, Leave, Followed
<1> QED
  BY <1>1 DEF Next, Called, Reset, Sampling, Convolving, Playing, Reading, DecodingBits, EqualizingTaps, Building

LEMMA FollowedKeeps ==
  ASSUME Counts, Followed, kind = "graph", Next
  PROVE  Counts' /\ Followed'
<1>1. CASE FindFilter
  <2>1. UNCHANGED <<sliceVars, linked>> /\ path # <<>>
    BY <1>1 DEF FindFilter
  <2>2. Counts' /\ checked' /\ pc' = "idle" /\ linked' \subseteq found
    BY <2>1 DEF sliceVars, Counts, Listing, Followed
  <2>3. path \in Seq(found) /\ Len(path) \in Nat \ {0}
    BY <2>1 DEF Followed
  <2>4. CASE Unseen(Head(path)) = {}
    <3>1. path' = Tail(path) /\ found' = found
      BY <1>1, <2>4 DEF FindFilter
    <3> DEFINE t == Tail(path)
    <3>2. /\ t \in Seq(found) /\ Len(t) = Len(path) - 1 /\ Head(path) = path[1]
          /\ \A k \in 1..(Len(path) - 1) : t[k] = path[k + 1]
      BY <2>3
    <3> HIDE DEF t
    <3>3. ASSUME NEW f \in found', \A k \in 1..Len(path') : path'[k] # f
          PROVE  Unseen(f)' = {}
      <4>1. Unseen(f)' = Unseen(f)
        BY <3>1 DEF Unseen
      <4>2. CASE f = Head(path)
        BY <2>4, <4>1, <4>2
      <4>3. CASE f # Head(path)
        <5>1. ASSUME NEW k \in 1..Len(path) PROVE path[k] # f
          <6>1. CASE k = 1
            BY <3>2, <4>3, <6>1
          <6>2. CASE k # 1
            <7>1. k - 1 \in 1..(Len(path) - 1) /\ (k - 1) + 1 = k /\ k - 1 \in 1..Len(t)
              BY <2>3, <3>2, <6>2
            <7>2. t[k - 1] = path[k] /\ t[k - 1] # f
              BY <3>1, <3>2, <3>3, <7>1 DEF t
            <7> QED BY <7>2
          <6> QED BY <6>1, <6>2
        <5> QED BY <3>1, <3>3, <4>1, <5>1 DEF Followed
      <4> QED BY <4>2, <4>3
    <3>4. path' \in Seq(found')
      BY <3>1, <3>2 DEF t
    <3> QED BY <2>2, <3>1, <3>3, <3>4 DEF Followed
  <2>5. CASE Unseen(Head(path)) # {}
    <3> DEFINE next == CHOOSE f \in Unseen(Head(path)) : TRUE
    <3>1. path' = <<next>> \o path /\ found' = found \cup {next}
      BY <1>1, <2>5 DEF FindFilter
    <3> HIDE DEF next
    <3>2. path \in Seq(found') /\ <<next>> \in Seq(found')
      <4>1. path \in [1..Len(path) -> found] /\ Len(path) \in Nat
        BY <2>3
      <4>2. path \in [1..Len(path) -> found']
        BY <3>1, <4>1
      <4>3. path \in Seq(found')
        BY <4>1, <4>2
      <4>4. next \in found'
        BY <3>1
      <4> QED BY <4>3, <4>4
    <3>5. /\ path' \in Seq(found') /\ Len(path') = 1 + Len(path)
          /\ path'[1] = next
          /\ \A k \in 1..Len(path) : path'[1 + k] = path[k]
      <4> DEFINE u == <<next>> \o path
      <4>1. next \in found' /\ path \in Seq(found')
        BY <3>1, <3>2
      <4>2. /\ u \in Seq(found') /\ Len(u) = 1 + Len(path) /\ u[1] = next
            /\ \A k \in 1..Len(path) : u[1 + k] = path[k]
        BY <4>1, Preceded
      <4>3. path' = u
        BY <3>1
      <4> HIDE DEF u
      <4> QED BY <4>2, <4>3
    <3>6. ASSUME NEW f \in found', \A k \in 1..Len(path') : path'[k] # f
          PROVE  Unseen(f)' = {}
      <4>1. f # next
        <5>1. 1 \in 1..Len(path')
          BY <2>3, <3>5
        <5> QED BY <3>5, <3>6, <5>1
      <4>2. f \in found
        BY <3>1, <4>1
      <4>3. ASSUME NEW k \in 1..Len(path) PROVE path[k] # f
        <5>1. 1 + k \in 1..Len(path')
          BY <2>3, <3>5
        <5> QED BY <3>5, <3>6, <5>1
      <4>4. Unseen(f) = {}
        BY <4>2, <4>3 DEF Followed
      <4>5. found \subseteq found'
        BY <3>1
      <4> QED BY <4>4, <4>5 DEF Unseen
    <3>7. linked' \subseteq found'
      BY <2>2, <3>1
    <3> QED BY <2>2, <3>5, <3>6, <3>7 DEF Followed
  <2> QED BY <2>4, <2>5
<1>2. CASE LinkBlock
  <2> DEFINE f == CHOOSE g \in found : g \notin linked
             into == {c \in Connections : c.to.filter = f}
             outOf == {c \in Connections : c.from.filter = f}
  <2>1. /\ path = <<>> /\ linked # found /\ linked' = linked \cup {f}
        /\ checked' = (checked /\ \A c \in into \cup outOf : Other(c, f) \in found)
        /\ UNCHANGED <<found, path, kind, taken, made, given, room, input_index, output_index, pc>>
    BY <1>2 DEF LinkBlock
  <2>2. f \in found
    BY <2>1 DEF Followed
  <2> HIDE DEF f
  <2>3. Unseen(f) = {}
    <3>1. Len(path) = 0
      BY <2>1
    <3>2. \A k \in 1..Len(path) : path[k] # f
      BY <3>1
    <3> QED BY <2>2, <3>2 DEF Followed
  <2>4. ASSUME NEW c \in into \cup outOf PROVE Other(c, f) \in found
    <3>1. c \in Connections /\ f \in {c.from.filter, c.to.filter}
      OBVIOUS
    <3> QED BY <2>3, <3>1 DEF Unseen
  <2>5. checked' /\ linked' \subseteq found'
    BY <2>1, <2>2, <2>4 DEF Followed
  <2>6. Counts'
    BY <2>1 DEF Counts, Listing
  <2>7. \A g : Unseen(g)' = Unseen(g)
    BY <2>1 DEF Unseen
  <2>8. path' \in Seq(found') /\ pc' = "idle"
    BY <2>1 DEF Followed
  <2>9. \A g \in found' : (\A k \in 1..Len(path') : path'[k] # g) => Unseen(g)' = {}
    BY <2>1, <2>7 DEF Followed
  <2> QED BY <2>5, <2>6, <2>8, <2>9 DEF Followed
<1> QED BY <1>1, <1>2, OnlyBuilding

-----------------------------------------------------------------------------
(* The receiver's graph, input by input: the filter that an input reads    *)
(* from, and that this is all that connect() has been called for.          *)
FirstOf(g) ==
  CASE g = "fm_band_filter" -> "source"
    [] g = "fm_equalizer" -> "fm_band_filter"
    [] g = "fm_decoder" -> "fm_equalizer"
    [] g = "decimator_interm" -> "fm_decoder"
    [] g \in {"audio_mono_decimator", "stereo_pilot_filter", "stereo_bandpass_filter",
              "rds_bandpass_filter", "noise_extractor_filter"} -> "decimator_interm"
    [] g \in {"pll_generator", "real_extractor"} -> "stereo_pilot_filter"
    [] g \in {"fm_stereo_extractor", "pilot_trippler"} -> "pll_generator"
    [] g = "audio_stereo_decimator" -> "fm_stereo_extractor"
    [] g \in {"fm_stereo_demultiplexer", "mono_sampler"} -> "audio_mono_decimator"
    [] g \in {"deemphasizer_left", "deemphasizer_right"} -> "fm_stereo_demultiplexer"
    [] g = "resampler_left" -> "deemphasizer_left"
    [] g = "resampler_right" -> "deemphasizer_right"
    [] g = "sink" -> "resampler_left"
    [] g \in {"rds_demodulator", "rds_sampler"} -> "rds_bandpass_filter"
    [] g = "rds_demodulated_filter" -> "rds_demodulator"
    [] g = "rds_symbol_shape_filter" -> "rds_demodulated_filter"
    [] g = "rds_bits_decoder" -> "rds_symbol_shape_filter"
    [] g = "rds_groups_decoder" -> "rds_bits_decoder"
    [] g = "rds_messages_decoder" -> "rds_groups_decoder"
    [] g = "noise_sampler" -> "noise_extractor_filter"
    [] g = "pilot_sampler" -> "real_extractor"
    [] g = "stereo_sampler" -> "stereo_bandpass_filter"
    [] g = "pilot_snr_estimator" -> "pilot_sampler"
    [] g = "mono_snr_estimator" -> "mono_sampler"
    [] g = "stereo_snr_estimator" -> "stereo_sampler"
    [] g = "rds_snr_estimator" -> "rds_sampler"
    [] g = "pilot_snr_recorder" -> "pilot_snr_estimator"
    [] g = "mono_snr_recorder" -> "mono_snr_estimator"
    [] g = "stereo_snr_recorder" -> "stereo_snr_estimator"
    [] g = "rds_snr_recorder" -> "rds_snr_estimator"

SecondOf(g) ==
  CASE g = "fm_stereo_extractor" -> "stereo_bandpass_filter"
    [] g = "fm_stereo_demultiplexer" -> "audio_stereo_decimator"
    [] g = "sink" -> "resampler_right"
    [] g = "rds_demodulator" -> "pilot_trippler"
    [] g = "rds_bits_decoder" -> "pll_generator"
    [] g \in {"pilot_snr_estimator", "mono_snr_estimator", "stereo_snr_estimator",
              "rds_snr_estimator"} -> "noise_sampler"

PortOf(g) == IF g = "deemphasizer_right" THEN 1 ELSE 0

Into(g) == Link(FirstOf(g), PortOf(g), g, 0)
IntoSecond(g) == Link(SecondOf(g), 0, g, 1)

FrontFed == {"fm_band_filter", "fm_equalizer", "fm_decoder", "decimator_interm"}
BandsFed ==
  {"audio_mono_decimator", "stereo_pilot_filter", "stereo_bandpass_filter",
   "rds_bandpass_filter", "noise_extractor_filter"}
AudioFed ==
  {"pll_generator", "fm_stereo_extractor", "audio_stereo_decimator", "fm_stereo_demultiplexer",
   "deemphasizer_left", "deemphasizer_right", "resampler_left", "resampler_right", "sink"}
RdsFed ==
  {"pilot_trippler", "rds_demodulator", "rds_demodulated_filter", "rds_symbol_shape_filter",
   "rds_bits_decoder", "rds_groups_decoder", "rds_messages_decoder"}
EstimatorsFed ==
  {"pilot_sampler", "pilot_snr_estimator", "pilot_snr_recorder",
   "mono_sampler", "mono_snr_estimator", "mono_snr_recorder",
   "stereo_sampler", "stereo_snr_estimator", "stereo_snr_recorder",
   "rds_sampler", "rds_snr_estimator", "rds_snr_recorder"}
NoiseFed == {"noise_sampler", "real_extractor"} \cup EstimatorsFed

Fed == FrontFed \cup BandsFed \cup AudioFed \cup RdsFed \cup NoiseFed

LEMMA ChainOfTwo == \A a, b : Chain(<<a, b>>) = {Link(a, 0, b, 0)}
<1>1. \A x : x \in 1..(2 - 1) <=> x = 1
  OBVIOUS
<1> QED BY <1>1 DEF Chain

LEMMA ChainOfThree == \A a, b, c : Chain(<<a, b, c>>) = {Link(a, 0, b, 0), Link(b, 0, c, 0)}
<1>1. \A x : x \in 1..(3 - 1) <=> x = 1 \/ x = 2
  OBVIOUS
<1> QED BY <1>1 DEF Chain

LEMMA ChainOfFive ==
  \A a, b, c, d, e :
    Chain(<<a, b, c, d, e>>) = {Link(a, 0, b, 0), Link(b, 0, c, 0), Link(c, 0, d, 0), Link(d, 0, e, 0)}
<1>1. \A x : x \in 1..(5 - 1) <=> x = 1 \/ x = 2 \/ x = 3 \/ x = 4
  OBVIOUS
<1> QED BY <1>1 DEF Chain

LEMMA FrontLinks == Front = {Into(g) : g \in FrontFed}
<1>1. /\ Into("fm_band_filter") = Link("source", 0, "fm_band_filter", 0)
      /\ Into("fm_equalizer") = Link("fm_band_filter", 0, "fm_equalizer", 0)
      /\ Into("fm_decoder") = Link("fm_equalizer", 0, "fm_decoder", 0)
      /\ Into("decimator_interm") = Link("fm_decoder", 0, "decimator_interm", 0)
  BY DEF Into, FirstOf, PortOf
<1>2. Front = {Into("fm_band_filter"), Into("fm_equalizer"), Into("fm_decoder"), Into("decimator_interm")}
  BY <1>1, ChainOfFive DEF Front
<1> QED BY <1>2 DEF FrontFed

LEMMA BandsLinks == Bands = {Into(g) : g \in BandsFed}
<1>1. \A g \in BandsFed : Into(g) = Link("decimator_interm", 0, g, 0)
  BY DEF Into, FirstOf, PortOf, BandsFed
<1> QED BY <1>1 DEF Bands, Fan, BandsFed

LEMMA AudioLinks ==
  Audio = {Into(g) : g \in AudioFed}
            \cup {IntoSecond(g) : g \in {"fm_stereo_extractor", "fm_stereo_demultiplexer", "sink"}}
<1>1. /\ Into("pll_generator") = Link("stereo_pilot_filter", 0, "pll_generator", 0)
      /\ Into("fm_stereo_extractor") = Link("pll_generator", 0, "fm_stereo_extractor", 0)
      /\ Into("audio_stereo_decimator") = Link("fm_stereo_extractor", 0, "audio_stereo_decimator", 0)
      /\ Into("fm_stereo_demultiplexer") = Link("audio_mono_decimator", 0, "fm_stereo_demultiplexer", 0)
      /\ Into("deemphasizer_left") = Link("fm_stereo_demultiplexer", 0, "deemphasizer_left", 0)
      /\ Into("deemphasizer_right") = Link("fm_stereo_demultiplexer", 1, "deemphasizer_right", 0)
      /\ Into("resampler_left") = Link("deemphasizer_left", 0, "resampler_left", 0)
      /\ Into("resampler_right") = Link("deemphasizer_right", 0, "resampler_right", 0)
      /\ Into("sink") = Link("resampler_left", 0, "sink", 0)
  BY DEF Into, FirstOf, PortOf
<1>2. /\ IntoSecond("fm_stereo_extractor") = Link("stereo_bandpass_filter", 0, "fm_stereo_extractor", 1)
      /\ IntoSecond("fm_stereo_demultiplexer") = Link("audio_stereo_decimator", 0, "fm_stereo_demultiplexer", 1)
      /\ IntoSecond("sink") = Link("resampler_right", 0, "sink", 1)
  BY DEF IntoSecond, SecondOf
<1>3. /\ Chain(<<"stereo_pilot_filter", "pll_generator">>) = {Into("pll_generator")}
      /\ Chain(<<"fm_stereo_extractor", "audio_stereo_decimator">>) = {Into("audio_stereo_decimator")}
      /\ Chain(<<"deemphasizer_left", "resampler_left">>) = {Into("resampler_left")}
      /\ Chain(<<"deemphasizer_right", "resampler_right">>) = {Into("resampler_right")}
  BY <1>1, ChainOfTwo
<1>4. /\ Join("pll_generator", "stereo_bandpass_filter", "fm_stereo_extractor")
           = {Into("fm_stereo_extractor"), IntoSecond("fm_stereo_extractor")}
      /\ Join("audio_mono_decimator", "audio_stereo_decimator", "fm_stereo_demultiplexer")
           = {Into("fm_stereo_demultiplexer"), IntoSecond("fm_stereo_demultiplexer")}
      /\ Join("resampler_left", "resampler_right", "sink") = {Into("sink"), IntoSecond("sink")}
  BY <1>1, <1>2 DEF Join
<1>5. Audio = {Into("pll_generator")} \cup {Into("fm_stereo_extractor"), IntoSecond("fm_stereo_extractor")}
                \cup {Into("audio_stereo_decimator")}
                \cup {Into("fm_stereo_demultiplexer"), IntoSecond("fm_stereo_demultiplexer")}
                \cup {Into("deemphasizer_left"), Into("deemphasizer_right")}
                \cup {Into("resampler_left")} \cup {Into("resampler_right")}
                \cup {Into("sink"), IntoSecond("sink")}
  BY <1>1, <1>3, <1>4 DEF Audio
<1> QED BY <1>5 DEF AudioFed

LEMMA RdsLinks ==
  Rds = {Into(g) : g \in RdsFed} \cup {IntoSecond(g) : g \in {"rds_demodulator", "rds_bits_decoder"}}
<1>1. /\ Into("pilot_trippler") = Link("pll_generator", 0, "pilot_trippler", 0)
      /\ Into("rds_demodulator") = Link("rds_bandpass_filter", 0, "rds_demodulator", 0)
      /\ Into("rds_demodulated_filter") = Link("rds_demodulator", 0, "rds_demodulated_filter", 0)
      /\ Into("rds_symbol_shape_filter") = Link("rds_demodulated_filter", 0, "rds_symbol_shape_filter", 0)
      /\ Into("rds_bits_decoder") = Link("rds_symbol_shape_filter", 0, "rds_bits_decoder", 0)
      /\ Into("rds_groups_decoder") = Link("rds_bits_decoder", 0, "rds_groups_decoder", 0)
      /\ Into("rds_messages_decoder") = Link("rds_groups_decoder", 0, "rds_messages_decoder", 0)
  BY DEF Into, FirstOf, PortOf
<1>2. /\ IntoSecond("rds_demodulator") = Link("pilot_trippler", 0, "rds_demodulator", 1)
      /\ IntoSecond("rds_bits_decoder") = Link("pll_generator", 0, "rds_bits_decoder", 1)
  BY DEF IntoSecond, SecondOf
<1>3. Chain(<<"pll_generator", "pilot_trippler">>) = {Into("pilot_trippler")}
  BY <1>1, ChainOfTwo
<1>4. /\ Chain(<<"rds_demodulator", "rds_demodulated_filter", "rds_symbol_shape_filter">>)
           = {Into("rds_demodulated_filter"), Into("rds_symbol_shape_filter")}
      /\ Chain(<<"rds_bits_decoder", "rds_groups_decoder", "rds_messages_decoder">>)
           = {Into("rds_groups_decoder"), Into("rds_messages_decoder")}
  BY <1>1, ChainOfThree
<1>5. /\ Join("rds_bandpass_filter", "pilot_trippler", "rds_demodulator")
           = {Into("rds_demodulator"), IntoSecond("rds_demodulator")}
      /\ Join("rds_symbol_shape_filter", "pll_generator", "rds_bits_decoder")
           = {Into("rds_bits_decoder"), IntoSecond("rds_bits_decoder")}
  BY <1>1, <1>2 DEF Join
<1>6. Rds = {Into("pilot_trippler")} \cup {Into("rds_demodulator"), IntoSecond("rds_demodulator")}
              \cup {Into("rds_demodulated_filter"), Into("rds_symbol_shape_filter")}
              \cup {Into("rds_bits_decoder"), IntoSecond("rds_bits_decoder")}
              \cup {Into("rds_groups_decoder"), Into("rds_messages_decoder")}
  BY <1>3, <1>4, <1>5 DEF Rds
<1> QED BY <1>6 DEF RdsFed

LEMMA EstimatorLinks ==
  ASSUME NEW samples, NEW sampler, NEW estimator, NEW recorder,
         FirstOf(sampler) = samples, FirstOf(estimator) = sampler, FirstOf(recorder) = estimator,
         SecondOf(estimator) = "noise_sampler",
         PortOf(sampler) = 0, PortOf(estimator) = 0, PortOf(recorder) = 0
  PROVE  Estimator(samples, sampler, estimator, recorder)
           = {Into(sampler), Into(estimator), IntoSecond(estimator), Into(recorder)}
<1>1. /\ Into(sampler) = Link(samples, 0, sampler, 0)
      /\ Into(estimator) = Link(sampler, 0, estimator, 0)
      /\ IntoSecond(estimator) = Link("noise_sampler", 0, estimator, 1)
      /\ Into(recorder) = Link(estimator, 0, recorder, 0)
  BY DEF Into, IntoSecond
<1>2. Chain(<<samples, sampler>>) = {Into(sampler)} /\ Chain(<<estimator, recorder>>) = {Into(recorder)}
  BY <1>1, ChainOfTwo
<1>3. Join(sampler, "noise_sampler", estimator) = {Into(estimator), IntoSecond(estimator)}
  BY <1>1 DEF Join
<1> QED BY <1>2, <1>3 DEF Estimator

LEMMA NoiseLinks ==
  Noise = {Into(g) : g \in NoiseFed}
            \cup {IntoSecond(g) : g \in {"pilot_snr_estimator", "mono_snr_estimator",
                                        "stereo_snr_estimator", "rds_snr_estimator"}}
<1>1. /\ Into("noise_sampler") = Link("noise_extractor_filter", 0, "noise_sampler", 0)
      /\ Into("real_extractor") = Link("stereo_pilot_filter", 0, "real_extractor", 0)
  BY DEF Into, FirstOf, PortOf
<1>2. /\ Chain(<<"noise_extractor_filter", "noise_sampler">>) = {Into("noise_sampler")}
      /\ Chain(<<"stereo_pilot_filter", "real_extractor">>) = {Into("real_extractor")}
  BY <1>1, ChainOfTwo
<1>3. /\ FirstOf("pilot_sampler") = "real_extractor" /\ FirstOf("pilot_snr_estimator") = "pilot_sampler"
      /\ FirstOf("pilot_snr_recorder") = "pilot_snr_estimator"
      /\ FirstOf("mono_sampler") = "audio_mono_decimator" /\ FirstOf("mono_snr_estimator") = "mono_sampler"
      /\ FirstOf("mono_snr_recorder") = "mono_snr_estimator"
      /\ FirstOf("stereo_sampler") = "stereo_bandpass_filter"
      /\ FirstOf("stereo_snr_estimator") = "stereo_sampler"
      /\ FirstOf("stereo_snr_recorder") = "stereo_snr_estimator"
      /\ FirstOf("rds_sampler") = "rds_bandpass_filter" /\ FirstOf("rds_snr_estimator") = "rds_sampler"
      /\ FirstOf("rds_snr_recorder") = "rds_snr_estimator"
  BY DEF FirstOf
<1>4. /\ \A g \in EstimatorsFed : PortOf(g) = 0
      /\ \A g \in {"pilot_snr_estimator", "mono_snr_estimator", "stereo_snr_estimator", "rds_snr_estimator"} :
           SecondOf(g) = "noise_sampler"
  BY DEF SecondOf, PortOf, EstimatorsFed
<1>5. Estimator("real_extractor", "pilot_sampler", "pilot_snr_estimator", "pilot_snr_recorder")
        = {Into("pilot_sampler"), Into("pilot_snr_estimator"), IntoSecond("pilot_snr_estimator"),
           Into("pilot_snr_recorder")}
  BY <1>3, <1>4, EstimatorLinks DEF EstimatorsFed
<1>6. Estimator("audio_mono_decimator", "mono_sampler", "mono_snr_estimator", "mono_snr_recorder")
        = {Into("mono_sampler"), Into("mono_snr_estimator"), IntoSecond("mono_snr_estimator"),
           Into("mono_snr_recorder")}
  BY <1>3, <1>4, EstimatorLinks DEF EstimatorsFed
<1>7. Estimator("stereo_bandpass_filter", "stereo_sampler", "stereo_snr_estimator", "stereo_snr_recorder")
        = {Into("stereo_sampler"), Into("stereo_snr_estimator"), IntoSecond("stereo_snr_estimator"),
           Into("stereo_snr_recorder")}
  BY <1>3, <1>4, EstimatorLinks DEF EstimatorsFed
<1>8. Estimator("rds_bandpass_filter", "rds_sampler", "rds_snr_estimator", "rds_snr_recorder")
        = {Into("rds_sampler"), Into("rds_snr_estimator"), IntoSecond("rds_snr_estimator"),
           Into("rds_snr_recorder")}
  BY <1>3, <1>4, EstimatorLinks DEF EstimatorsFed
<1>9. Noise = {Into("noise_sampler")} \cup {Into("real_extractor")}
                \cup {Into("pilot_sampler"), Into("pilot_snr_estimator"), IntoSecond("pilot_snr_estimator"),
                      Into("pilot_snr_recorder")}
                \cup {Into("mono_sampler"), Into("mono_snr_estimator"), IntoSecond("mono_snr_estimator"),
                      Into("mono_snr_recorder")}
                \cup {Into("stereo_sampler"), Into("stereo_snr_estimator"), IntoSecond("stereo_snr_estimator"),
                      Into("stereo_snr_recorder")}
                \cup {Into("rds_sampler"), Into("rds_snr_estimator"), IntoSecond("rds_snr_estimator"),
                      Into("rds_snr_recorder")}
  BY <1>2, <1>5, <1>6, <1>7, <1>8 DEF Noise
<1> QED BY <1>9 DEF NoiseFed, EstimatorsFed

LEMMA AllLinks == Connections = {Into(g) : g \in Fed} \cup {IntoSecond(g) : g \in Joining}
BY FrontLinks, BandsLinks, AudioLinks, RdsLinks, NoiseLinks DEF Connections, Fed, Joining

LEMMA LinkFields ==
  \A f, o, g, i : /\ Link(f, o, g, i).from = From(f, o) /\ Link(f, o, g, i).to = To(g, i)
                  /\ From(f, o).filter = f /\ From(f, o).output = o
                  /\ To(g, i).filter = g /\ To(g, i).input = i
BY DEF Link, From, To

LEMMA IntoFields ==
  ASSUME NEW g
  PROVE  /\ Into(g).from = From(FirstOf(g), PortOf(g)) /\ Into(g).to = To(g, 0)
         /\ IntoSecond(g).from = From(SecondOf(g), 0) /\ IntoSecond(g).to = To(g, 1)
BY LinkFields DEF Into, IntoSecond

LEMMA FirstsIn ==
  /\ \A g \in Fed : FirstOf(g) \in {"source"} \cup Fed
  /\ \A g \in Joining : SecondOf(g) \in Fed
  /\ Joining \subseteq Fed /\ "source" \notin Fed
<1>1. \A g \in FrontFed : FirstOf(g) \in {"source"} \cup FrontFed
  BY DEF FrontFed, FirstOf
<1>2. \A g \in BandsFed : FirstOf(g) \in FrontFed
  BY DEF FrontFed, BandsFed, FirstOf
<1>3. \A g \in AudioFed : FirstOf(g) \in AudioFed \cup BandsFed
  BY DEF AudioFed, BandsFed, FirstOf
<1>4. \A g \in RdsFed : FirstOf(g) \in RdsFed \cup BandsFed \cup AudioFed
  BY DEF RdsFed, AudioFed, BandsFed, FirstOf
<1>5. \A g \in EstimatorsFed : FirstOf(g) \in NoiseFed \cup BandsFed
  BY DEF NoiseFed, EstimatorsFed, BandsFed, FirstOf
<1>6. FirstOf("noise_sampler") \in BandsFed /\ FirstOf("real_extractor") \in BandsFed
  BY DEF BandsFed, FirstOf
<1>7. \A g \in Fed : FirstOf(g) \in {"source"} \cup Fed
  BY <1>1, <1>2, <1>3, <1>4, <1>5, <1>6 DEF Fed, NoiseFed
<1>8. \A g \in Joining : SecondOf(g) \in Fed
  BY DEF Joining, SecondOf, Fed, AudioFed, BandsFed, RdsFed, NoiseFed
<1>9. Joining \subseteq Fed
  BY DEF Joining, Fed, AudioFed, RdsFed, NoiseFed, EstimatorsFed
<1>10. "source" \notin Fed
  BY DEF Fed, FrontFed, BandsFed, AudioFed, RdsFed, NoiseFed, EstimatorsFed
<1> QED BY <1>7, <1>8, <1>9, <1>10

LEMMA FiltersAre == ReceiverFilters = {"source"} \cup Fed
<1>1. \A c \in Connections : \/ \E g \in Fed : c.from.filter = FirstOf(g) /\ c.to.filter = g
                            \/ \E g \in Joining : c.from.filter = SecondOf(g) /\ c.to.filter = g
  BY AllLinks, IntoFields, LinkFields
<1>2. \A c \in Connections : c.from.filter \in {"source"} \cup Fed /\ c.to.filter \in Fed
  BY <1>1, FirstsIn
<1>3. \A g \in Fed : Into(g) \in Connections /\ Into(g).to.filter = g /\ Into(g).from.filter = FirstOf(g)
  BY AllLinks, IntoFields, LinkFields
<1>4. "fm_band_filter" \in Fed /\ FirstOf("fm_band_filter") = "source"
  BY DEF Fed, FrontFed, FirstOf
<1>5. "source" \in ReceiverFilters
  BY <1>3, <1>4 DEF ReceiverFilters
<1>6. \A g \in Fed : g \in ReceiverFilters
  BY <1>3 DEF ReceiverFilters
<1> QED BY <1>2, <1>5, <1>6 DEF ReceiverFilters

(* No input reads from two outputs.                                        *)
LEMMA OneWriter == \A c, d \in Connections : c.to = d.to => c.from = d.from
<1>1. \A c \in Connections :
        \/ c.to.input = 0 /\ c.from = From(FirstOf(c.to.filter), PortOf(c.to.filter))
        \/ c.to.input = 1 /\ c.from = From(SecondOf(c.to.filter), 0)
  BY AllLinks, IntoFields, LinkFields
<1> QED BY <1>1

LEMMA InputsAre ==
  {c.to : c \in Connections} = UNION {{To(f, i) : i \in 0..(InputsCount(f) - 1)} : f \in ReceiverFilters}
<1>1. \A x : x \in {c.to : c \in Connections} <=> (\E g \in Fed : x = To(g, 0)) \/ (\E g \in Joining : x = To(g, 1))
  BY AllLinks, IntoFields
<1>2. /\ 0..(InputsCount("source") - 1) = {}
      /\ \A f \in Joining : 0..(InputsCount(f) - 1) = {0, 1}
      /\ \A f \in Fed \ Joining : 0..(InputsCount(f) - 1) = {0}
  <2>1. /\ InputsCount("source") = 0
        /\ \A f \in Joining : InputsCount(f) = 2
        /\ \A f \in Fed \ Joining : InputsCount(f) = 1
    BY FirstsIn DEF InputsCount
  <2>2. 0..(0 - 1) = {} /\ 0..(2 - 1) = {0, 1} /\ 0..(1 - 1) = {0}
    OBVIOUS
  <2> QED BY <2>1, <2>2
<1>3. \A x : x \in UNION {{To(f, i) : i \in 0..(InputsCount(f) - 1)} : f \in ReceiverFilters}
               <=> \E f \in ReceiverFilters : \E i \in 0..(InputsCount(f) - 1) : x = To(f, i)
  OBVIOUS
<1>4. \A x : (\E f \in ReceiverFilters : \E i \in 0..(InputsCount(f) - 1) : x = To(f, i))
               <=> (\E g \in Fed : x = To(g, 0)) \/ (\E g \in Joining : x = To(g, 1))
  BY <1>2, FiltersAre, FirstsIn
<1>5. \A x : x \in {c.to : c \in Connections}
               <=> x \in UNION {{To(f, i) : i \in 0..(InputsCount(f) - 1)} : f \in ReceiverFilters}
  BY <1>1, <1>3, <1>4
<1> HIDE DEF InputsCount
<1> QED BY <1>5

(* Every output but those of the sinks has a reader.                       *)
Sinks == Recorders \cup {"rds_messages_decoder", "sink"}

LEMMA Read ==
  \A f \in ReceiverFilters \ Sinks : \E c \in Connections : c.from = From(f, 0)
<1>1. \A g \in Fed : PortOf(g) = 0 => From(FirstOf(g), 0) \in {c.from : c \in Connections}
  BY AllLinks, IntoFields
<1>2. \A g \in Joining : From(SecondOf(g), 0) \in {c.from : c \in Connections}
  BY AllLinks, IntoFields
<1> DEFINE S == {f \in ReceiverFilters : From(f, 0) \in {c.from : c \in Connections}}
<1>3. \A g \in Fed : PortOf(g) = 0 => FirstOf(g) \in S
  BY <1>1, FiltersAre, FirstsIn
<1>4. \A g \in Joining : SecondOf(g) \in S
  BY <1>2, FiltersAre, FirstsIn
<1> HIDE DEF S
<1>5. "source" \in S /\ FrontFed \subseteq S
  <2>1. \A g \in FrontFed \cup {"stereo_pilot_filter"} : g \in Fed /\ PortOf(g) = 0
    BY DEF FrontFed, PortOf, Fed, BandsFed
  <2>2. /\ FirstOf("fm_band_filter") = "source" /\ FirstOf("fm_equalizer") = "fm_band_filter"
        /\ FirstOf("fm_decoder") = "fm_equalizer" /\ FirstOf("decimator_interm") = "fm_decoder"
        /\ FirstOf("stereo_pilot_filter") = "decimator_interm"
    BY DEF FirstOf
  <2> QED BY <1>3, <2>1, <2>2 DEF FrontFed
<1>6. BandsFed \subseteq S
  <2>1. \A g \in {"mono_sampler", "pll_generator", "stereo_sampler", "rds_sampler", "noise_sampler"} :
          g \in Fed /\ PortOf(g) = 0
    BY DEF PortOf, Fed, AudioFed, NoiseFed, EstimatorsFed
  <2>2. /\ FirstOf("mono_sampler") = "audio_mono_decimator" /\ FirstOf("pll_generator") = "stereo_pilot_filter"
        /\ FirstOf("stereo_sampler") = "stereo_bandpass_filter" /\ FirstOf("rds_sampler") = "rds_bandpass_filter"
        /\ FirstOf("noise_sampler") = "noise_extractor_filter"
    BY DEF FirstOf
  <2> QED BY <1>3, <2>1, <2>2 DEF BandsFed
<1>7. AudioFed \ {"sink"} \subseteq S
  <2>1. \A g \in {"fm_stereo_extractor", "audio_stereo_decimator", "deemphasizer_left", "resampler_left",
                  "resampler_right", "sink"} : g \in Fed /\ PortOf(g) = 0
    BY DEF PortOf, Fed, AudioFed
  <2>2. "fm_stereo_demultiplexer" \in Joining /\ "sink" \in Joining
    BY DEF Joining
  <2>3. /\ FirstOf("fm_stereo_extractor") = "pll_generator"
        /\ FirstOf("audio_stereo_decimator") = "fm_stereo_extractor"
        /\ SecondOf("fm_stereo_demultiplexer") = "audio_stereo_decimator"
        /\ FirstOf("deemphasizer_left") = "fm_stereo_demultiplexer"
        /\ FirstOf("resampler_left") = "deemphasizer_left" /\ FirstOf("resampler_right") = "deemphasizer_right"
        /\ FirstOf("sink") = "resampler_left" /\ SecondOf("sink") = "resampler_right"
    BY DEF FirstOf, SecondOf
  <2> QED BY <1>3, <1>4, <2>1, <2>2, <2>3 DEF AudioFed
<1>8. RdsFed \ {"rds_messages_decoder"} \subseteq S
  <2>1. \A g \in RdsFed : g \in Fed /\ PortOf(g) = 0
    BY DEF PortOf, Fed, RdsFed
  <2>2. "rds_demodulator" \in Joining
    BY DEF Joining
  <2>3. /\ SecondOf("rds_demodulator") = "pilot_trippler" /\ FirstOf("rds_demodulated_filter") = "rds_demodulator"
        /\ FirstOf("rds_symbol_shape_filter") = "rds_demodulated_filter"
        /\ FirstOf("rds_bits_decoder") = "rds_symbol_shape_filter"
        /\ FirstOf("rds_groups_decoder") = "rds_bits_decoder"
        /\ FirstOf("rds_messages_decoder") = "rds_groups_decoder"
    BY DEF FirstOf, SecondOf
  <2> QED BY <1>3, <1>4, <2>1, <2>2, <2>3 DEF RdsFed
<1>9. NoiseFed \ Recorders \subseteq S
  <2>1. \A g \in EstimatorsFed : g \in Fed /\ PortOf(g) = 0
    BY DEF PortOf, Fed, NoiseFed, EstimatorsFed
  <2>2. "pilot_snr_estimator" \in Joining
    BY DEF Joining
  <2>3. /\ SecondOf("pilot_snr_estimator") = "noise_sampler" /\ FirstOf("pilot_sampler") = "real_extractor"
        /\ FirstOf("pilot_snr_estimator") = "pilot_sampler" /\ FirstOf("pilot_snr_recorder") = "pilot_snr_estimator"
        /\ FirstOf("mono_snr_estimator") = "mono_sampler" /\ FirstOf("mono_snr_recorder") = "mono_snr_estimator"
        /\ FirstOf("stereo_snr_estimator") = "stereo_sampler"
        /\ FirstOf("stereo_snr_recorder") = "stereo_snr_estimator"
        /\ FirstOf("rds_snr_estimator") = "rds_sampler" /\ FirstOf("rds_snr_recorder") = "rds_snr_estimator"
    BY DEF FirstOf, SecondOf
  <2> QED BY <1>3, <1>4, <2>1, <2>2, <2>3 DEF NoiseFed, EstimatorsFed, Recorders
<1>10. ReceiverFilters \ Sinks \subseteq S
  BY <1>5, <1>6, <1>7, <1>8, <1>9, FiltersAre DEF Fed, Sinks
<1> QED BY <1>10 DEF S

LEMMA OutputsAre ==
  {c.from : c \in Connections} = UNION {{From(f, o) : o \in 0..(OutputsCount(f) - 1)} : f \in ReceiverFilters}
<1>1. /\ \A f \in Sinks : 0..(OutputsCount(f) - 1) = {}
      /\ 0..(OutputsCount("fm_stereo_demultiplexer") - 1) = {0, 1}
      /\ \A f \in ReceiverFilters \ Sinks : f # "fm_stereo_demultiplexer" => 0..(OutputsCount(f) - 1) = {0}
  <2>1. /\ \A f \in Sinks : OutputsCount(f) = 0
        /\ OutputsCount("fm_stereo_demultiplexer") = 2
        /\ \A f \in ReceiverFilters \ Sinks : f # "fm_stereo_demultiplexer" => OutputsCount(f) = 1
    BY DEF OutputsCount, Sinks, Recorders
  <2>2. 0..(0 - 1) = {} /\ 0..(2 - 1) = {0, 1} /\ 0..(1 - 1) = {0}
    OBVIOUS
  <2> QED BY <2>1, <2>2
<1>2. \A g \in Fed : FirstOf(g) \in ReceiverFilters \ Sinks
  <2>1. \A g \in FrontFed \cup BandsFed \cup AudioFed : FirstOf(g) \notin Sinks
    BY DEF FirstOf, FrontFed, BandsFed, AudioFed, Sinks, Recorders
  <2>2. \A g \in RdsFed \cup NoiseFed : FirstOf(g) \notin Sinks
    BY DEF FirstOf, RdsFed, NoiseFed, EstimatorsFed, Sinks, Recorders
  <2> QED BY <2>1, <2>2, FirstsIn, FiltersAre DEF Fed
<1>3. \A g \in Joining : SecondOf(g) \in ReceiverFilters \ Sinks
  <2>1. \A g \in Joining : SecondOf(g) \notin Sinks
    BY DEF SecondOf, Joining, Sinks, Recorders
  <2> QED BY <2>1, FirstsIn, FiltersAre
<1>4. PortOf("deemphasizer_right") = 1 /\ FirstOf("deemphasizer_right") = "fm_stereo_demultiplexer"
      /\ "deemphasizer_right" \in Fed /\ \A g : g # "deemphasizer_right" => PortOf(g) = 0
  BY DEF PortOf, FirstOf, Fed, AudioFed
<1>5. \A x : x \in {c.from : c \in Connections}
               <=> (\E g \in Fed : x = From(FirstOf(g), PortOf(g))) \/ (\E g \in Joining : x = From(SecondOf(g), 0))
  BY AllLinks, IntoFields
<1>6. \A x : x \in UNION {{From(f, o) : o \in 0..(OutputsCount(f) - 1)} : f \in ReceiverFilters}
               <=> \E f \in ReceiverFilters : \E o \in 0..(OutputsCount(f) - 1) : x = From(f, o)
  OBVIOUS
<1>7. "fm_stereo_demultiplexer" \in ReceiverFilters /\ "fm_stereo_demultiplexer" \notin Sinks
  BY <1>2, <1>4
<1>8. ASSUME NEW g \in Fed
      PROVE  \E f \in ReceiverFilters : \E o \in 0..(OutputsCount(f) - 1) : From(FirstOf(g), PortOf(g)) = From(f, o)
  <2>1. PortOf(g) \in 0..(OutputsCount(FirstOf(g)) - 1)
    BY <1>1, <1>2, <1>4
  <2> QED BY <1>2, <2>1
<1>9. ASSUME NEW g \in Joining
      PROVE  \E f \in ReceiverFilters : \E o \in 0..(OutputsCount(f) - 1) : From(SecondOf(g), 0) = From(f, o)
  <2>1. 0 \in 0..(OutputsCount(SecondOf(g)) - 1)
    BY <1>1, <1>3
  <2> QED BY <1>3, <2>1
<1>10. ASSUME NEW f \in ReceiverFilters, NEW o \in 0..(OutputsCount(f) - 1)
       PROVE  From(f, o) \in {c.from : c \in Connections}
  <2>1. f \notin Sinks
    BY <1>1
  <2>2. o = 0 \/ (o = 1 /\ f = "fm_stereo_demultiplexer")
    BY <1>1, <2>1
  <2>3. CASE o = 0
    BY <2>1, <2>3, Read
  <2>4. CASE o = 1 /\ f = "fm_stereo_demultiplexer"
    BY <1>4, <1>5, <2>4
  <2> QED BY <2>2, <2>3, <2>4
<1>11. \A x : x \in {c.from : c \in Connections}
                <=> x \in UNION {{From(f, o) : o \in 0..(OutputsCount(f) - 1)} : f \in ReceiverFilters}
  BY <1>5, <1>6, <1>8, <1>9, <1>10
<1> QED BY <1>11

(* All filters are found from the source, by way of first inputs alone.    *)
LEMMA Reached ==
  ASSUME NEW S, "source" \in S, \A g \in Fed : FirstOf(g) \in S => g \in S
  PROVE  ReceiverFilters \subseteq S
<1>1. FrontFed \cup BandsFed \subseteq S
  <2>1. /\ FirstOf("fm_band_filter") = "source" /\ FirstOf("fm_equalizer") = "fm_band_filter"
        /\ FirstOf("fm_decoder") = "fm_equalizer" /\ FirstOf("decimator_interm") = "fm_decoder"
        /\ \A g \in BandsFed : FirstOf(g) = "decimator_interm"
    BY DEF FirstOf, BandsFed
  <2>2. FrontFed \cup BandsFed \subseteq Fed
    BY DEF Fed
  <2> QED BY <2>1, <2>2 DEF FrontFed
<1>2. AudioFed \subseteq S
  <2>1. /\ FirstOf("pll_generator") = "stereo_pilot_filter" /\ FirstOf("fm_stereo_extractor") = "pll_generator"
        /\ FirstOf("audio_stereo_decimator") = "fm_stereo_extractor"
        /\ FirstOf("fm_stereo_demultiplexer") = "audio_mono_decimator"
        /\ FirstOf("deemphasizer_left") = "fm_stereo_demultiplexer"
        /\ FirstOf("deemphasizer_right") = "fm_stereo_demultiplexer"
        /\ FirstOf("resampler_left") = "deemphasizer_left" /\ FirstOf("resampler_right") = "deemphasizer_right"
        /\ FirstOf("sink") = "resampler_left"
    BY DEF FirstOf
  <2>2. AudioFed \subseteq Fed /\ "stereo_pilot_filter" \in S /\ "audio_mono_decimator" \in S
    BY <1>1 DEF Fed, BandsFed
  <2> QED BY <2>1, <2>2 DEF AudioFed
<1>3. RdsFed \subseteq S
  <2>1. /\ FirstOf("pilot_trippler") = "pll_generator" /\ FirstOf("rds_demodulator") = "rds_bandpass_filter"
        /\ FirstOf("rds_demodulated_filter") = "rds_demodulator"
        /\ FirstOf("rds_symbol_shape_filter") = "rds_demodulated_filter"
        /\ FirstOf("rds_bits_decoder") = "rds_symbol_shape_filter"
        /\ FirstOf("rds_groups_decoder") = "rds_bits_decoder"
        /\ FirstOf("rds_messages_decoder") = "rds_groups_decoder"
    BY DEF FirstOf
  <2>2. RdsFed \subseteq Fed /\ "pll_generator" \in S /\ "rds_bandpass_filter" \in S
    BY <1>1, <1>2 DEF Fed, AudioFed, BandsFed
  <2> QED BY <2>1, <2>2 DEF RdsFed
<1>4. NoiseFed \subseteq S
  <2>1. /\ FirstOf("noise_sampler") = "noise_extractor_filter" /\ FirstOf("real_extractor") = "stereo_pilot_filter"
        /\ FirstOf("pilot_sampler") = "real_extractor" /\ FirstOf("pilot_snr_estimator") = "pilot_sampler"
        /\ FirstOf("pilot_snr_recorder") = "pilot_snr_estimator"
        /\ FirstOf("mono_sampler") = "audio_mono_decimator" /\ FirstOf("mono_snr_estimator") = "mono_sampler"
        /\ FirstOf("mono_snr_recorder") = "mono_snr_estimator"
        /\ FirstOf("stereo_sampler") = "stereo_bandpass_filter"
        /\ FirstOf("stereo_snr_estimator") = "stereo_sampler"
        /\ FirstOf("stereo_snr_recorder") = "stereo_snr_estimator"
        /\ FirstOf("rds_sampler") = "rds_bandpass_filter" /\ FirstOf("rds_snr_estimator") = "rds_sampler"
        /\ FirstOf("rds_snr_recorder") = "rds_snr_estimator"
    BY DEF FirstOf
  <2>2. NoiseFed \subseteq Fed /\ BandsFed \subseteq S
    BY <1>1 DEF Fed
  <2> QED BY <2>1, <2>2 DEF NoiseFed, EstimatorsFed, BandsFed
<1> QED BY <1>1, <1>2, <1>3, <1>4, FiltersAre DEF Fed

-----------------------------------------------------------------------------
(* The streams: how many samples of the source there are to one, and what  *)
(* has let the signal lag.                                                 *)
SpacingIn(f) ==
  CASE f \in {"source", "fm_band_filter", "fm_equalizer", "fm_decoder"} -> 24
    [] f \in {"audio_mono_decimator", "audio_stereo_decimator", "fm_stereo_demultiplexer",
              "deemphasizer_left", "deemphasizer_right"} -> 480
    [] f \in {"resampler_left", "resampler_right", "sink"} -> 500
    [] f \in {"noise_sampler", "pilot_sampler", "mono_sampler", "stereo_sampler", "rds_sampler"} -> 4800
    [] f \in {"pilot_snr_estimator", "mono_snr_estimator", "stereo_snr_estimator", "rds_snr_estimator",
              "pilot_snr_recorder", "mono_snr_recorder", "stereo_snr_recorder", "rds_snr_recorder"} -> 2400000
    [] OTHER -> 96

LagsIn(f) ==
  CASE f \in {"source", "fm_band_filter", "fm_equalizer", "fm_decoder"} -> {}
    [] f \in {"resampler_left", "resampler_right", "sink"} -> {"FmDemodDecimatorTaps", "AudioResamplerTaps"}
    [] f \in {"rds_symbol_shape_filter", "rds_bits_decoder", "rds_groups_decoder", "rds_messages_decoder"} ->
         {"FmDemodDecimatorTaps", "RdsSymbolShapeTaps"}
    [] OTHER -> {"FmDemodDecimatorTaps"}

LEMMA SpacingsAre == \A g \in Fed : SpacingIn(g) = SpacingAfter(g, SpacingIn(FirstOf(g)))
<1>1. Ratio("mono_sampler") = 10 /\ \A g \in {"noise_sampler", "pilot_sampler", "stereo_sampler", "rds_sampler"} :
                                     Ratio(g) = 50
  BY DEF Ratio, IntermediateSamplingRate, IntermediateAudioSamplingRate, NoiseSamplingRate
<1>2. \A g \in {"pilot_snr_estimator", "mono_snr_estimator", "stereo_snr_estimator", "rds_snr_estimator"} :
        Ratio(g) = 500
  BY DEF Ratio, NoiseSamplingRate, SnrRate
<1>3. Ratio("decimator_interm") = 4 /\ Ratio("audio_mono_decimator") = 5 /\ Ratio("audio_stereo_decimator") = 5
  BY DEF Ratio
<1>4. \A g \in (FrontFed \ {"decimator_interm"}) \cup (BandsFed \ {"audio_mono_decimator"})
                \cup (AudioFed \ {"audio_stereo_decimator"}) \cup RdsFed \cup {"real_extractor"} \cup Recorders :
        Ratio(g) = 1
  BY DEF Ratio, FrontFed, BandsFed, AudioFed, RdsFed, Recorders
<1>5. \A g \in FrontFed : SpacingIn(g) = SpacingIn(FirstOf(g)) * Ratio(g)
  <2>1. \A f \in {"source", "fm_band_filter", "fm_equalizer", "fm_decoder"} : SpacingIn(f) = 24
    BY DEF SpacingIn
  <2>2. SpacingIn("decimator_interm") = 96
    BY DEF SpacingIn
  <2>3. /\ FirstOf("fm_band_filter") = "source" /\ FirstOf("fm_equalizer") = "fm_band_filter"
        /\ FirstOf("fm_decoder") = "fm_equalizer" /\ FirstOf("decimator_interm") = "fm_decoder"
    BY DEF FirstOf
  <2>4. Ratio("fm_band_filter") = 1 /\ Ratio("fm_equalizer") = 1 /\ Ratio("fm_decoder") = 1
    BY <1>4 DEF FrontFed
  <2>5. /\ SpacingIn("fm_band_filter") = SpacingIn(FirstOf("fm_band_filter")) * Ratio("fm_band_filter")
        /\ SpacingIn("fm_equalizer") = SpacingIn(FirstOf("fm_equalizer")) * Ratio("fm_equalizer")
        /\ SpacingIn("fm_decoder") = SpacingIn(FirstOf("fm_decoder")) * Ratio("fm_decoder")
        /\ SpacingIn("decimator_interm") = SpacingIn(FirstOf("decimator_interm")) * Ratio("decimator_interm")
    BY <1>3, <2>1, <2>2, <2>3, <2>4
  <2> QED BY <2>5 DEF FrontFed
<1>6. \A g \in BandsFed : SpacingIn(g) = SpacingIn(FirstOf(g)) * Ratio(g)
  <2>1. SpacingIn("decimator_interm") = 96 /\ SpacingIn("audio_mono_decimator") = 480
        /\ \A g \in BandsFed \ {"audio_mono_decimator"} : SpacingIn(g) = 96
    BY DEF SpacingIn, BandsFed
  <2>2. \A g \in BandsFed : FirstOf(g) = "decimator_interm"
    BY DEF FirstOf, BandsFed
  <2>3. 96 = 96 * 1 /\ 480 = 96 * 5
    OBVIOUS
  <2>4. \A g \in BandsFed \ {"audio_mono_decimator"} : Ratio(g) = 1
    BY <1>4
  <2> QED BY <1>3, <2>1, <2>2, <2>3, <2>4
<1>a. 96 * 1 = 96 /\ 480 * 1 = 480 /\ 500 * 1 = 500 /\ 96 * 5 = 480 /\ 96 * 50 = 4800 /\ 480 * 10 = 4800
  OBVIOUS
<1>b. 4800 * 500 = 2400000 /\ 2400000 * 1 = 2400000
  OBVIOUS
<1>7. \A g \in AudioFed \ {"resampler_left", "resampler_right"} : SpacingIn(g) = SpacingIn(FirstOf(g)) * Ratio(g)
  <2>1. \A g \in {"pll_generator", "fm_stereo_extractor"} :
          SpacingIn(g) = 96 /\ SpacingIn(FirstOf(g)) = 96
    <3>1. /\ FirstOf("pll_generator") = "stereo_pilot_filter"
          /\ FirstOf("fm_stereo_extractor") = "pll_generator"
      BY DEF FirstOf
    <3>2. /\ SpacingIn("fm_stereo_extractor") = 96
          /\ SpacingIn("pll_generator") = 96
          /\ SpacingIn("stereo_pilot_filter") = 96
      BY DEF SpacingIn
    <3> QED BY <3>1, <3>2
  <2>2. \A g \in {"fm_stereo_demultiplexer", "deemphasizer_left", "deemphasizer_right"} :
          SpacingIn(g) = 480 /\ SpacingIn(FirstOf(g)) = 480
    <3>1. /\ FirstOf("fm_stereo_demultiplexer") = "audio_mono_decimator"
          /\ FirstOf("deemphasizer_left") = "fm_stereo_demultiplexer"
          /\ FirstOf("deemphasizer_right") = "fm_stereo_demultiplexer"
      BY DEF FirstOf
    <3>2. /\ SpacingIn("audio_mono_decimator") = 480
          /\ SpacingIn("deemphasizer_left") = 480
          /\ SpacingIn("deemphasizer_right") = 480
          /\ SpacingIn("fm_stereo_demultiplexer") = 480
      BY DEF SpacingIn
    <3> QED BY <3>1, <3>2
  <2>3. SpacingIn("audio_stereo_decimator") = 480 /\ SpacingIn(FirstOf("audio_stereo_decimator")) = 96
    <3>1. /\ FirstOf("audio_stereo_decimator") = "fm_stereo_extractor"
          /\ FirstOf("audio_stereo_decimator") = "fm_stereo_extractor"
      BY DEF FirstOf
    <3>2. /\ SpacingIn("audio_stereo_decimator") = 480
          /\ SpacingIn("fm_stereo_extractor") = 96
      BY DEF SpacingIn
    <3> QED BY <3>1, <3>2
  <2>4. SpacingIn("sink") = 500 /\ SpacingIn(FirstOf("sink")) = 500
    <3>1. /\ FirstOf("sink") = "resampler_left"
          /\ FirstOf("sink") = "resampler_left"
      BY DEF FirstOf
    <3>2. /\ SpacingIn("resampler_left") = 500
          /\ SpacingIn("sink") = 500
      BY DEF SpacingIn
    <3> QED BY <3>1, <3>2
  <2>5. \A g \in AudioFed \ {"audio_stereo_decimator"} : Ratio(g) = 1
    BY <1>4
  <2>6. \A g \in AudioFed \ {"resampler_left", "resampler_right"} :
          g \in {"pll_generator", "fm_stereo_extractor"}
          \/ g \in {"fm_stereo_demultiplexer", "deemphasizer_left", "deemphasizer_right"}
          \/ g = "audio_stereo_decimator" \/ g = "sink"
    BY DEF AudioFed
  <2>7. \A g \in {"pll_generator", "fm_stereo_extractor", "fm_stereo_demultiplexer", "deemphasizer_left",
                  "deemphasizer_right", "sink"} : Ratio(g) = 1
    BY <2>5 DEF AudioFed
  <2>8. SpacingIn("sink") = SpacingIn(FirstOf("sink")) * Ratio("sink")
    BY <1>a, <2>4, <2>7
  <2>9. SpacingIn("audio_stereo_decimator")
          = SpacingIn(FirstOf("audio_stereo_decimator")) * Ratio("audio_stereo_decimator")
    BY <1>a, <1>3, <2>3
  <2>10. \A g \in {"pll_generator", "fm_stereo_extractor"} : SpacingIn(g) = SpacingIn(FirstOf(g)) * Ratio(g)
    BY <1>a, <2>1, <2>7
  <2>11. \A g \in {"fm_stereo_demultiplexer", "deemphasizer_left", "deemphasizer_right"} :
           SpacingIn(g) = SpacingIn(FirstOf(g)) * Ratio(g)
    BY <1>a, <2>2, <2>7
  <2> QED BY <2>6, <2>8, <2>9, <2>10, <2>11
<1>8. \A g \in RdsFed : SpacingIn(g) = SpacingIn(FirstOf(g)) * Ratio(g)
  <2>1. \A g \in RdsFed : SpacingIn(g) = 96
    BY DEF SpacingIn, RdsFed
  <2>2. \A g \in RdsFed : FirstOf(g) \in RdsFed \cup {"pll_generator", "rds_bandpass_filter"}
    BY DEF FirstOf, RdsFed
  <2>3. SpacingIn("pll_generator") = 96 /\ SpacingIn("rds_bandpass_filter") = 96
    BY DEF SpacingIn
  <2>4. \A g \in RdsFed : SpacingIn(FirstOf(g)) = 96
    BY <2>1, <2>2, <2>3
  <2>5. \A g \in RdsFed : Ratio(g) = 1
    BY <1>4
  <2> QED BY <1>a, <2>1, <2>4, <2>5
<1>9. \A g \in NoiseFed : SpacingIn(g) = SpacingIn(FirstOf(g)) * Ratio(g)
  <2>1. \A g \in {"noise_sampler", "pilot_sampler", "stereo_sampler", "rds_sampler"} :
          SpacingIn(g) = 4800 /\ SpacingIn(FirstOf(g)) = 96
    <3>1. /\ FirstOf("noise_sampler") = "noise_extractor_filter"
          /\ FirstOf("pilot_sampler") = "real_extractor"
          /\ FirstOf("stereo_sampler") = "stereo_bandpass_filter"
          /\ FirstOf("rds_sampler") = "rds_bandpass_filter"
      BY DEF FirstOf
    <3>2. /\ SpacingIn("noise_extractor_filter") = 96
          /\ SpacingIn("noise_sampler") = 4800
          /\ SpacingIn("pilot_sampler") = 4800
          /\ SpacingIn("rds_bandpass_filter") = 96
          /\ SpacingIn("rds_sampler") = 4800
          /\ SpacingIn("real_extractor") = 96
          /\ SpacingIn("stereo_bandpass_filter") = 96
          /\ SpacingIn("stereo_sampler") = 4800
      BY DEF SpacingIn
    <3> QED BY <3>1, <3>2
  <2>2. SpacingIn("mono_sampler") = 4800 /\ SpacingIn(FirstOf("mono_sampler")) = 480
    <3>1. /\ FirstOf("mono_sampler") = "audio_mono_decimator"
          /\ FirstOf("mono_sampler") = "audio_mono_decimator"
      BY DEF FirstOf
    <3>2. /\ SpacingIn("audio_mono_decimator") = 480
          /\ SpacingIn("mono_sampler") = 4800
      BY DEF SpacingIn
    <3> QED BY <3>1, <3>2
  <2>3. SpacingIn("real_extractor") = 96 /\ SpacingIn(FirstOf("real_extractor")) = 96
    <3>1. /\ FirstOf("real_extractor") = "stereo_pilot_filter"
          /\ FirstOf("real_extractor") = "stereo_pilot_filter"
      BY DEF FirstOf
    <3>2. /\ SpacingIn("real_extractor") = 96
          /\ SpacingIn("stereo_pilot_filter") = 96
      BY DEF SpacingIn
    <3> QED BY <3>1, <3>2
  <2>4. \A g \in {"pilot_snr_estimator", "mono_snr_estimator", "stereo_snr_estimator", "rds_snr_estimator"} :
          SpacingIn(g) = 2400000 /\ SpacingIn(FirstOf(g)) = 4800
    <3>1. /\ FirstOf("pilot_snr_estimator") = "pilot_sampler"
          /\ FirstOf("mono_snr_estimator") = "mono_sampler"
          /\ FirstOf("stereo_snr_estimator") = "stereo_sampler"
          /\ FirstOf("rds_snr_estimator") = "rds_sampler"
      BY DEF FirstOf
    <3>2. /\ SpacingIn("mono_sampler") = 4800
          /\ SpacingIn("mono_snr_estimator") = 2400000
          /\ SpacingIn("pilot_sampler") = 4800
          /\ SpacingIn("pilot_snr_estimator") = 2400000
          /\ SpacingIn("rds_sampler") = 4800
          /\ SpacingIn("rds_snr_estimator") = 2400000
          /\ SpacingIn("stereo_sampler") = 4800
          /\ SpacingIn("stereo_snr_estimator") = 2400000
      BY DEF SpacingIn
    <3> QED BY <3>1, <3>2
  <2>5. \A g \in {"pilot_snr_recorder", "mono_snr_recorder", "stereo_snr_recorder", "rds_snr_recorder"} :
          SpacingIn(g) = 2400000 /\ SpacingIn(FirstOf(g)) = 2400000
    <3>1. /\ FirstOf("pilot_snr_recorder") = "pilot_snr_estimator"
          /\ FirstOf("mono_snr_recorder") = "mono_snr_estimator"
          /\ FirstOf("stereo_snr_recorder") = "stereo_snr_estimator"
          /\ FirstOf("rds_snr_recorder") = "rds_snr_estimator"
      BY DEF FirstOf
    <3>2. /\ SpacingIn("mono_snr_estimator") = 2400000
          /\ SpacingIn("mono_snr_recorder") = 2400000
          /\ SpacingIn("pilot_snr_estimator") = 2400000
          /\ SpacingIn("pilot_snr_recorder") = 2400000
          /\ SpacingIn("rds_snr_estimator") = 2400000
          /\ SpacingIn("rds_snr_recorder") = 2400000
          /\ SpacingIn("stereo_snr_estimator") = 2400000
          /\ SpacingIn("stereo_snr_recorder") = 2400000
      BY DEF SpacingIn
    <3> QED BY <3>1, <3>2
  <2>6. Ratio("real_extractor") = 1
    BY <1>4
  <2>7. \A g \in {"pilot_snr_recorder", "mono_snr_recorder", "stereo_snr_recorder", "rds_snr_recorder"} :
          Ratio(g) = 1
    BY <1>4 DEF Recorders
  <2>8. \A g \in {"noise_sampler", "pilot_sampler", "stereo_sampler", "rds_sampler"} :
          SpacingIn(g) = SpacingIn(FirstOf(g)) * Ratio(g)
    BY <1>a, <1>1, <2>1
  <2>9. SpacingIn("mono_sampler") = SpacingIn(FirstOf("mono_sampler")) * Ratio("mono_sampler")
    BY <1>a, <1>1, <2>2
  <2>10. SpacingIn("real_extractor") = SpacingIn(FirstOf("real_extractor")) * Ratio("real_extractor")
    BY <1>a, <2>3, <2>6
  <2>11. \A g \in {"pilot_snr_estimator", "mono_snr_estimator", "stereo_snr_estimator", "rds_snr_estimator"} :
           SpacingIn(g) = SpacingIn(FirstOf(g)) * Ratio(g)
    BY <1>b, <1>2, <2>4
  <2>12. \A g \in {"pilot_snr_recorder", "mono_snr_recorder", "stereo_snr_recorder", "rds_snr_recorder"} :
           SpacingIn(g) = SpacingIn(FirstOf(g)) * Ratio(g)
    BY <1>b, <2>5, <2>7
  <2> QED BY <2>8, <2>9, <2>10, <2>11, <2>12 DEF NoiseFed, EstimatorsFed
<1>10. \A g \in {"resampler_left", "resampler_right"} : SpacingIn(g) = (SpacingIn(FirstOf(g)) * 25) \div 24
  <2>1. (480 * 25) \div 24 = 500
    OBVIOUS
  <2>2. FirstOf("resampler_left") = "deemphasizer_left" /\ FirstOf("resampler_right") = "deemphasizer_right"
    BY DEF FirstOf
  <2>3. /\ SpacingIn("resampler_left") = 500 /\ SpacingIn("resampler_right") = 500
        /\ SpacingIn("deemphasizer_left") = 480 /\ SpacingIn("deemphasizer_right") = 480
    BY DEF SpacingIn
  <2> QED BY <2>1, <2>2, <2>3
<1>11. \A g \in Fed \ {"resampler_left", "resampler_right"} : SpacingIn(g) = SpacingIn(FirstOf(g)) * Ratio(g)
  BY <1>5, <1>6, <1>7, <1>8, <1>9 DEF Fed
<1> QED BY <1>10, <1>11 DEF SpacingAfter

LEMMA LagsAre == \A g \in Fed : LagsIn(g) = LagsIn(FirstOf(g)) \cup Lag(g)
<1> DEFINE decimated == {"FmDemodDecimatorTaps"}
           symbols == {"RdsSymbolShapeTaps"}
           resampled == {"AudioResamplerTaps"}
           shaped == {"FmDemodDecimatorTaps", "RdsSymbolShapeTaps"}
           played == {"FmDemodDecimatorTaps", "AudioResamplerTaps"}
<1>1. /\ decimated \cup symbols = shaped /\ decimated \cup resampled = played
      /\ decimated = {} \cup decimated
      /\ decimated = decimated \cup {} /\ shaped = shaped \cup {} /\ played = played \cup {} /\ {} = {} \cup {}
  OBVIOUS
<1>2. \A g \in {"fm_band_filter", "fm_equalizer", "fm_decoder"} :
        LagsIn(g) = LagsIn(FirstOf(g)) \cup Lag(g)
  <2>1. /\ FirstOf("fm_band_filter") = "source"
        /\ FirstOf("fm_equalizer") = "fm_band_filter"
        /\ FirstOf("fm_decoder") = "fm_equalizer"
    BY DEF FirstOf
  <2>2. /\ LagsIn("fm_band_filter") = {}
        /\ LagsIn("fm_equalizer") = {}
        /\ LagsIn("fm_decoder") = {}
        /\ LagsIn("source") = {}
    BY DEF LagsIn
  <2>3. /\ Lag("fm_band_filter") = {}
        /\ Lag("fm_equalizer") = {}
        /\ Lag("fm_decoder") = {}
    BY DEF Lag
  <2> HIDE DEF decimated, symbols, resampled, shaped, played
  <2> QED BY <1>1, <2>1, <2>2, <2>3
<1>3. \A g \in {"decimator_interm"} :
        LagsIn(g) = LagsIn(FirstOf(g)) \cup Lag(g)
  <2>1. /\ FirstOf("decimator_interm") = "fm_decoder"
    BY DEF FirstOf
  <2>2. /\ LagsIn("decimator_interm") = decimated
        /\ LagsIn("fm_decoder") = {}
    BY DEF LagsIn
  <2>3. /\ Lag("decimator_interm") = decimated
    BY DEF Lag
  <2> HIDE DEF decimated, symbols, resampled, shaped, played
  <2> QED BY <1>1, <2>1, <2>2, <2>3
<1>4. \A g \in {"audio_mono_decimator", "stereo_pilot_filter",
                "stereo_bandpass_filter", "rds_bandpass_filter",
                "noise_extractor_filter", "pll_generator", "real_extractor",
                "fm_stereo_extractor", "pilot_trippler"} :
        LagsIn(g) = LagsIn(FirstOf(g)) \cup Lag(g)
  <2>1. /\ FirstOf("audio_mono_decimator") = "decimator_interm"
        /\ FirstOf("stereo_pilot_filter") = "decimator_interm"
        /\ FirstOf("stereo_bandpass_filter") = "decimator_interm"
        /\ FirstOf("rds_bandpass_filter") = "decimator_interm"
        /\ FirstOf("noise_extractor_filter") = "decimator_interm"
        /\ FirstOf("pll_generator") = "stereo_pilot_filter"
        /\ FirstOf("real_extractor") = "stereo_pilot_filter"
        /\ FirstOf("fm_stereo_extractor") = "pll_generator"
        /\ FirstOf("pilot_trippler") = "pll_generator"
    BY DEF FirstOf
  <2>2. /\ LagsIn("audio_mono_decimator") = decimated
        /\ LagsIn("stereo_pilot_filter") = decimated
        /\ LagsIn("stereo_bandpass_filter") = decimated
        /\ LagsIn("rds_bandpass_filter") = decimated
        /\ LagsIn("noise_extractor_filter") = decimated
        /\ LagsIn("pll_generator") = decimated
        /\ LagsIn("real_extractor") = decimated
        /\ LagsIn("fm_stereo_extractor") = decimated
        /\ LagsIn("pilot_trippler") = decimated
        /\ LagsIn("decimator_interm") = decimated
    BY DEF LagsIn
  <2>3. /\ Lag("audio_mono_decimator") = {}
        /\ Lag("stereo_pilot_filter") = {}
        /\ Lag("stereo_bandpass_filter") = {}
        /\ Lag("rds_bandpass_filter") = {}
        /\ Lag("noise_extractor_filter") = {}
        /\ Lag("pll_generator") = {}
        /\ Lag("real_extractor") = {}
        /\ Lag("fm_stereo_extractor") = {}
        /\ Lag("pilot_trippler") = {}
    BY DEF Lag
  <2> HIDE DEF decimated, symbols, resampled, shaped, played
  <2> QED BY <1>1, <2>1, <2>2, <2>3
<1>5. \A g \in {"audio_stereo_decimator", "fm_stereo_demultiplexer", "mono_sampler",
                "deemphasizer_left", "deemphasizer_right", "rds_demodulator",
                "rds_sampler", "rds_demodulated_filter", "noise_sampler"} :
        LagsIn(g) = LagsIn(FirstOf(g)) \cup Lag(g)
  <2>1. /\ FirstOf("audio_stereo_decimator") = "fm_stereo_extractor"
        /\ FirstOf("fm_stereo_demultiplexer") = "audio_mono_decimator"
        /\ FirstOf("mono_sampler") = "audio_mono_decimator"
        /\ FirstOf("deemphasizer_left") = "fm_stereo_demultiplexer"
        /\ FirstOf("deemphasizer_right") = "fm_stereo_demultiplexer"
        /\ FirstOf("rds_demodulator") = "rds_bandpass_filter"
        /\ FirstOf("rds_sampler") = "rds_bandpass_filter"
        /\ FirstOf("rds_demodulated_filter") = "rds_demodulator"
        /\ FirstOf("noise_sampler") = "noise_extractor_filter"
    BY DEF FirstOf
  <2>2. /\ LagsIn("audio_stereo_decimator") = decimated
        /\ LagsIn("fm_stereo_demultiplexer") = decimated
        /\ LagsIn("mono_sampler") = decimated
        /\ LagsIn("deemphasizer_left") = decimated
        /\ LagsIn("deemphasizer_right") = decimated
        /\ LagsIn("rds_demodulator") = decimated
        /\ LagsIn("rds_sampler") = decimated
        /\ LagsIn("rds_demodulated_filter") = decimated
        /\ LagsIn("noise_sampler") = decimated
        /\ LagsIn("fm_stereo_extractor") = decimated
        /\ LagsIn("audio_mono_decimator") = decimated
        /\ LagsIn("rds_bandpass_filter") = decimated
        /\ LagsIn("noise_extractor_filter") = decimated
    BY DEF LagsIn
  <2>3. /\ Lag("audio_stereo_decimator") = {}
        /\ Lag("fm_stereo_demultiplexer") = {}
        /\ Lag("mono_sampler") = {}
        /\ Lag("deemphasizer_left") = {}
        /\ Lag("deemphasizer_right") = {}
        /\ Lag("rds_demodulator") = {}
        /\ Lag("rds_sampler") = {}
        /\ Lag("rds_demodulated_filter") = {}
        /\ Lag("noise_sampler") = {}
    BY DEF Lag
  <2> HIDE DEF decimated, symbols, resampled, shaped, played
  <2> QED BY <1>1, <2>1, <2>2, <2>3
<1>6. \A g \in {"pilot_sampler", "stereo_sampler", "pilot_snr_estimator",
                "mono_snr_estimator", "stereo_snr_estimator", "rds_snr_estimator",
                "pilot_snr_recorder", "mono_snr_recorder", "stereo_snr_recorder"} :
        LagsIn(g) = LagsIn(FirstOf(g)) \cup Lag(g)
  <2>1. /\ FirstOf("pilot_sampler") = "real_extractor"
        /\ FirstOf("stereo_sampler") = "stereo_bandpass_filter"
        /\ FirstOf("pilot_snr_estimator") = "pilot_sampler"
        /\ FirstOf("mono_snr_estimator") = "mono_sampler"
        /\ FirstOf("stereo_snr_estimator") = "stereo_sampler"
        /\ FirstOf("rds_snr_estimator") = "rds_sampler"
        /\ FirstOf("pilot_snr_recorder") = "pilot_snr_estimator"
        /\ FirstOf("mono_snr_recorder") = "mono_snr_estimator"
        /\ FirstOf("stereo_snr_recorder") = "stereo_snr_estimator"
    BY DEF FirstOf
  <2>2. /\ LagsIn("pilot_sampler") = decimated
        /\ LagsIn("stereo_sampler") = decimated
        /\ LagsIn("pilot_snr_estimator") = decimated
        /\ LagsIn("mono_snr_estimator") = decimated
        /\ LagsIn("stereo_snr_estimator") = decimated
        /\ LagsIn("rds_snr_estimator") = decimated
        /\ LagsIn("pilot_snr_recorder") = decimated
        /\ LagsIn("mono_snr_recorder") = decimated
        /\ LagsIn("stereo_snr_recorder") = decimated
        /\ LagsIn("real_extractor") = decimated
        /\ LagsIn("stereo_bandpass_filter") = decimated
        /\ LagsIn("mono_sampler") = decimated
        /\ LagsIn("rds_sampler") = decimated
    BY DEF LagsIn
  <2>3. /\ Lag("pilot_sampler") = {}
        /\ Lag("stereo_sampler") = {}
        /\ Lag("pilot_snr_estimator") = {}
        /\ Lag("mono_snr_estimator") = {}
        /\ Lag("stereo_snr_estimator") = {}
        /\ Lag("rds_snr_estimator") = {}
        /\ Lag("pilot_snr_recorder") = {}
        /\ Lag("mono_snr_recorder") = {}
        /\ Lag("stereo_snr_recorder") = {}
    BY DEF Lag
  <2> HIDE DEF decimated, symbols, resampled, shaped, played
  <2> QED BY <1>1, <2>1, <2>2, <2>3
<1>7. \A g \in {"rds_snr_recorder"} :
        LagsIn(g) = LagsIn(FirstOf(g)) \cup Lag(g)
  <2>1. /\ FirstOf("rds_snr_recorder") = "rds_snr_estimator"
    BY DEF FirstOf
  <2>2. /\ LagsIn("rds_snr_recorder") = decimated
        /\ LagsIn("rds_snr_estimator") = decimated
    BY DEF LagsIn
  <2>3. /\ Lag("rds_snr_recorder") = {}
    BY DEF Lag
  <2> HIDE DEF decimated, symbols, resampled, shaped, played
  <2> QED BY <1>1, <2>1, <2>2, <2>3
<1>8. \A g \in {"resampler_left", "resampler_right"} :
        LagsIn(g) = LagsIn(FirstOf(g)) \cup Lag(g)
  <2>1. /\ FirstOf("resampler_left") = "deemphasizer_left"
        /\ FirstOf("resampler_right") = "deemphasizer_right"
    BY DEF FirstOf
  <2>2. /\ LagsIn("resampler_left") = played
        /\ LagsIn("resampler_right") = played
        /\ LagsIn("deemphasizer_left") = decimated
        /\ LagsIn("deemphasizer_right") = decimated
    BY DEF LagsIn
  <2>3. /\ Lag("resampler_left") = resampled
        /\ Lag("resampler_right") = resampled
    BY DEF Lag
  <2> HIDE DEF decimated, symbols, resampled, shaped, played
  <2> QED BY <1>1, <2>1, <2>2, <2>3
<1>9. \A g \in {"sink"} :
        LagsIn(g) = LagsIn(FirstOf(g)) \cup Lag(g)
  <2>1. /\ FirstOf("sink") = "resampler_left"
    BY DEF FirstOf
  <2>2. /\ LagsIn("sink") = played
        /\ LagsIn("resampler_left") = played
    BY DEF LagsIn
  <2>3. /\ Lag("sink") = {}
    BY DEF Lag
  <2> HIDE DEF decimated, symbols, resampled, shaped, played
  <2> QED BY <1>1, <2>1, <2>2, <2>3
<1>10. \A g \in {"rds_symbol_shape_filter"} :
         LagsIn(g) = LagsIn(FirstOf(g)) \cup Lag(g)
  <2>1. /\ FirstOf("rds_symbol_shape_filter") = "rds_demodulated_filter"
    BY DEF FirstOf
  <2>2. /\ LagsIn("rds_symbol_shape_filter") = shaped
        /\ LagsIn("rds_demodulated_filter") = decimated
    BY DEF LagsIn
  <2>3. /\ Lag("rds_symbol_shape_filter") = symbols
    BY DEF Lag
  <2> HIDE DEF decimated, symbols, resampled, shaped, played
  <2> QED BY <1>1, <2>1, <2>2, <2>3
<1>11. \A g \in {"rds_bits_decoder", "rds_groups_decoder", "rds_messages_decoder"} :
         LagsIn(g) = LagsIn(FirstOf(g)) \cup Lag(g)
  <2>1. /\ FirstOf("rds_bits_decoder") = "rds_symbol_shape_filter"
        /\ FirstOf("rds_groups_decoder") = "rds_bits_decoder"
        /\ FirstOf("rds_messages_decoder") = "rds_groups_decoder"
    BY DEF FirstOf
  <2>2. /\ LagsIn("rds_bits_decoder") = shaped
        /\ LagsIn("rds_groups_decoder") = shaped
        /\ LagsIn("rds_messages_decoder") = shaped
        /\ LagsIn("rds_symbol_shape_filter") = shaped
    BY DEF LagsIn
  <2>3. /\ Lag("rds_bits_decoder") = {}
        /\ Lag("rds_groups_decoder") = {}
        /\ Lag("rds_messages_decoder") = {}
    BY DEF Lag
  <2> HIDE DEF decimated, symbols, resampled, shaped, played
  <2> QED BY <1>1, <2>1, <2>2, <2>3
<1>12. \A g \in Fed : \/ g \in {"fm_band_filter", "fm_equalizer", "fm_decoder"}
                      \/ g \in {"decimator_interm"}
                      \/ g \in {"audio_mono_decimator", "stereo_pilot_filter",
                                "stereo_bandpass_filter", "rds_bandpass_filter",
                                "noise_extractor_filter", "pll_generator", "real_extractor",
                                "fm_stereo_extractor", "pilot_trippler"}
                      \/ g \in {"audio_stereo_decimator", "fm_stereo_demultiplexer", "mono_sampler",
                                "deemphasizer_left", "deemphasizer_right", "rds_demodulator",
                                "rds_sampler", "rds_demodulated_filter", "noise_sampler"}
                      \/ g \in {"pilot_sampler", "stereo_sampler", "pilot_snr_estimator",
                                "mono_snr_estimator", "stereo_snr_estimator", "rds_snr_estimator",
                                "pilot_snr_recorder", "mono_snr_recorder", "stereo_snr_recorder"}
                      \/ g \in {"rds_snr_recorder"}
                      \/ g \in {"resampler_left", "resampler_right"}
                      \/ g \in {"sink"}
                      \/ g \in {"rds_symbol_shape_filter"}
                      \/ g \in {"rds_bits_decoder", "rds_groups_decoder", "rds_messages_decoder"}
  BY DEF Fed, FrontFed, BandsFed, AudioFed, RdsFed, NoiseFed, EstimatorsFed
<1> HIDE DEF decimated, symbols, resampled, shaped, played
<1> QED BY <1>2, <1>3, <1>4, <1>5, <1>6, <1>7, <1>8, <1>9, <1>10, <1>11, <1>12

Late(g) == IF g = "rds_bits_decoder" THEN Lag("rds_symbol_shape_filter") ELSE {}

LEMMA StreamsInStep ==
  \A g \in Joining : /\ SpacingIn(FirstOf(g)) = SpacingIn(SecondOf(g))
                     /\ LagsIn(FirstOf(g)) = LagsIn(SecondOf(g)) \cup Late(g)
<1> DEFINE decimated == {"FmDemodDecimatorTaps"}
           symbols == {"RdsSymbolShapeTaps"}
           shaped == {"FmDemodDecimatorTaps", "RdsSymbolShapeTaps"}
           played == {"FmDemodDecimatorTaps", "AudioResamplerTaps"}
<1>1. decimated = decimated \cup {} /\ played = played \cup {} /\ shaped = decimated \cup symbols
  OBVIOUS
<1>2. /\ FirstOf("fm_stereo_extractor") = "pll_generator"
      /\ FirstOf("fm_stereo_demultiplexer") = "audio_mono_decimator"
      /\ FirstOf("sink") = "resampler_left"
      /\ FirstOf("rds_demodulator") = "rds_bandpass_filter"
      /\ FirstOf("rds_bits_decoder") = "rds_symbol_shape_filter"
      /\ FirstOf("pilot_snr_estimator") = "pilot_sampler"
      /\ FirstOf("mono_snr_estimator") = "mono_sampler"
      /\ FirstOf("stereo_snr_estimator") = "stereo_sampler"
      /\ FirstOf("rds_snr_estimator") = "rds_sampler"
  BY DEF FirstOf
<1>3. /\ SecondOf("fm_stereo_extractor") = "stereo_bandpass_filter"
      /\ SecondOf("fm_stereo_demultiplexer") = "audio_stereo_decimator"
      /\ SecondOf("sink") = "resampler_right"
      /\ SecondOf("rds_demodulator") = "pilot_trippler"
      /\ SecondOf("rds_bits_decoder") = "pll_generator"
      /\ SecondOf("pilot_snr_estimator") = "noise_sampler"
      /\ SecondOf("mono_snr_estimator") = "noise_sampler"
      /\ SecondOf("stereo_snr_estimator") = "noise_sampler"
      /\ SecondOf("rds_snr_estimator") = "noise_sampler"
  BY DEF SecondOf
<1>4. /\ SpacingIn("pll_generator") = 96
      /\ SpacingIn("audio_mono_decimator") = 480
      /\ SpacingIn("resampler_left") = 500
      /\ SpacingIn("rds_bandpass_filter") = 96
      /\ SpacingIn("rds_symbol_shape_filter") = 96
      /\ SpacingIn("pilot_sampler") = 4800
      /\ SpacingIn("mono_sampler") = 4800
      /\ SpacingIn("stereo_sampler") = 4800
      /\ SpacingIn("rds_sampler") = 4800
      /\ SpacingIn("stereo_bandpass_filter") = 96
      /\ SpacingIn("audio_stereo_decimator") = 480
      /\ SpacingIn("resampler_right") = 500
      /\ SpacingIn("pilot_trippler") = 96
      /\ SpacingIn("noise_sampler") = 4800
  BY DEF SpacingIn
<1>5. /\ LagsIn("pll_generator") = decimated
      /\ LagsIn("audio_mono_decimator") = decimated
      /\ LagsIn("resampler_left") = played
      /\ LagsIn("rds_bandpass_filter") = decimated
      /\ LagsIn("rds_symbol_shape_filter") = shaped
      /\ LagsIn("pilot_sampler") = decimated
      /\ LagsIn("mono_sampler") = decimated
      /\ LagsIn("stereo_sampler") = decimated
      /\ LagsIn("rds_sampler") = decimated
      /\ LagsIn("stereo_bandpass_filter") = decimated
      /\ LagsIn("audio_stereo_decimator") = decimated
      /\ LagsIn("resampler_right") = played
      /\ LagsIn("pilot_trippler") = decimated
      /\ LagsIn("noise_sampler") = decimated
  BY DEF LagsIn
<1>6. Late("rds_bits_decoder") = symbols /\ \A g \in Joining \ {"rds_bits_decoder"} : Late(g) = {}
  BY DEF Late, Lag
<1> HIDE DEF decimated, symbols, shaped, played
<1>7. \A g \in Joining : SpacingIn(FirstOf(g)) = SpacingIn(SecondOf(g))
  BY <1>2, <1>3, <1>4 DEF Joining
<1>8. \A g \in Joining \ {"rds_bits_decoder"} : LagsIn(FirstOf(g)) = LagsIn(SecondOf(g)) \cup Late(g)
  BY <1>1, <1>2, <1>3, <1>5, <1>6 DEF Joining
<1>9. LagsIn(FirstOf("rds_bits_decoder")) = LagsIn(SecondOf("rds_bits_decoder")) \cup Late("rds_bits_decoder")
  BY <1>1, <1>2, <1>3, <1>5, <1>6
<1> QED BY <1>7, <1>8, <1>9

-----------------------------------------------------------------------------
(* What has been linked: the writers and the readers of all the filters    *)
(* that have been gone through, and of them alone.                         *)
Wired ==
  /\ found \subseteq ReceiverFilters /\ "source" \in found
  /\ DOMAIN writerOf = {c.to : c \in {d \in Connections : d.to.filter \in linked}}
  /\ \A c \in Connections : c.to.filter \in linked => writerOf[c.to] = c.from
  /\ DOMAIN readersOf = {c.from : c \in Connections}
  /\ \A o \in DOMAIN readersOf :
       readersOf[o] = {c.to : c \in {d \in Connections : d.from = o /\ d.from.filter \in linked}}

LEMMA WiredInit == GraphInit => Wired
<1> SUFFICES ASSUME GraphInit PROVE Wired
  OBVIOUS
<1>1. found = {"source"} /\ linked = {} /\ writerOf = <<>> /\ readersOf = [c \in {d.from : d \in Connections} |-> {}]
  BY DEF GraphInit
<1>2. DOMAIN writerOf = {}
  BY <1>1
<1>3. DOMAIN readersOf = {c.from : c \in Connections} /\ \A o \in DOMAIN readersOf : readersOf[o] = {}
  BY <1>1
<1>4. found \subseteq ReceiverFilters /\ "source" \in found
  BY <1>1, FiltersAre
<1> QED BY <1>1, <1>2, <1>3, <1>4 DEF Wired

LEMMA WiredFind ==
  ASSUME Wired, FindFilter
  PROVE  Wired'
<1>1. UNCHANGED <<linked, writerOf, readersOf>>
  BY DEF FindFilter
<1>2. found' = found \/ \E f \in Unseen(Head(path)) : found' = found \cup {f}
  <2>1. CASE Unseen(Head(path)) = {}
    BY <2>1 DEF FindFilter
  <2>2. CASE Unseen(Head(path)) # {}
    <3> DEFINE next == CHOOSE f \in Unseen(Head(path)) : TRUE
    <3>1. found' = found \cup {next}
      BY <2>2 DEF FindFilter
    <3>2. next \in Unseen(Head(path))
      BY <2>2
    <3> HIDE DEF next
    <3> QED BY <3>1, <3>2
  <2> QED BY <2>1, <2>2
<1>3. \A g : \A f \in Unseen(g) : f \in ReceiverFilters
  BY DEF Unseen, Other, ReceiverFilters
<1>4. found' \subseteq ReceiverFilters /\ "source" \in found'
  BY <1>2, <1>3 DEF Wired
<1> QED BY <1>1, <1>4 DEF Wired

LEMMA WiredLink ==
  ASSUME Wired, LinkBlock
  PROVE  Wired'
<1> DEFINE f == CHOOSE g \in found : g \notin linked
           into == {c \in Connections : c.to.filter = f}
           outOf == {c \in Connections : c.from.filter = f}
           inputs == {c.to : c \in into}
           chosen(i) == CHOOSE c \in into : c.to = i
           added(o) == {c.to : c \in {d \in outOf : d.from = o}}
<1>1. /\ linked' = linked \cup {f} /\ found' = found
      /\ writerOf' = [i \in DOMAIN writerOf \cup inputs |->
                        IF i \in DOMAIN writerOf THEN writerOf[i] ELSE chosen(i).from]
      /\ readersOf' = [o \in DOMAIN readersOf |-> readersOf[o] \cup added(o)]
  BY DEF LinkBlock
<1>2. \A c \in into : chosen(c.to) \in Connections /\ chosen(c.to).to = c.to
  OBVIOUS
<1>3. \A c \in into : chosen(c.to).from = c.from
  <2> HIDE DEF chosen
  <2> QED BY <1>2, OneWriter
<1>4. /\ DOMAIN writerOf' = DOMAIN writerOf \cup inputs
      /\ \A i \in DOMAIN writerOf : writerOf'[i] = writerOf[i]
      /\ \A i \in inputs : i \notin DOMAIN writerOf => writerOf'[i] = chosen(i).from
  <2> HIDE DEF chosen, inputs
  <2> QED BY <1>1
<1>5. DOMAIN readersOf' = DOMAIN readersOf /\ \A o \in DOMAIN readersOf : readersOf'[o] = readersOf[o] \cup added(o)
  <2> HIDE DEF added
  <2> QED BY <1>1
<1> HIDE DEF f, chosen
<1>6. DOMAIN writerOf' = {c.to : c \in {d \in Connections : d.to.filter \in linked'}}
  BY <1>1, <1>4 DEF Wired
<1>7. ASSUME NEW c \in Connections, c.to.filter \in linked'
      PROVE  writerOf'[c.to] = c.from
  <2>1. CASE c.to.filter \in linked
    BY <1>4, <2>1 DEF Wired
  <2>2. CASE c.to.filter \notin linked
    <3>1. c \in into
      BY <1>1, <1>7, <2>2
    <3>2. CASE c.to \in DOMAIN writerOf
      <4>1. PICK d \in Connections : d.to.filter \in linked /\ d.to = c.to
        BY <3>2 DEF Wired
      <4> QED BY <2>2, <4>1
    <3>3. CASE c.to \notin DOMAIN writerOf
      BY <1>3, <1>4, <3>1, <3>3
    <3> QED BY <3>2, <3>3
  <2> QED BY <2>1, <2>2
<1>8. ASSUME NEW o \in DOMAIN readersOf'
      PROVE  readersOf'[o] = {c.to : c \in {d \in Connections : d.from = o /\ d.from.filter \in linked'}}
  <2>1. readersOf'[o] = readersOf[o] \cup added(o)
    BY <1>5, <1>8
  <2>2. readersOf[o] = {c.to : c \in {d \in Connections : d.from = o /\ d.from.filter \in linked}}
    BY <1>5, <1>8 DEF Wired
  <2> QED BY <1>1, <2>1, <2>2
<1>9. DOMAIN readersOf' = {c.from : c \in Connections}
  BY <1>5 DEF Wired
<1> QED BY <1>1, <1>6, <1>7, <1>8, <1>9 DEF Wired

(* When all writers are known, so are the streams.                         *)
LEMMA StreamsAre ==
  ASSUME \A g \in Fed : writerOf[To(g, 0)].filter = FirstOf(g)
  PROVE  \A f \in ReceiverFilters : StreamOf[f].spacing = SpacingIn(f) /\ StreamOf[f].lags = LagsIn(f)
<1> DEFINE Stage(F, f) ==
             IF f = "source" THEN [spacing |-> Unit, lags |-> {}]
             ELSE LET stream == F[writerOf[To(f, 0)].filter]
                  IN [spacing |-> SpacingAfter(f, stream.spacing), lags |-> stream.lags \cup Lag(f)]
           T == [f \in ReceiverFilters |-> [spacing |-> SpacingIn(f), lags |-> LagsIn(f)]]
<1>1. SpacingIn("source") = Unit /\ LagsIn("source") = {}
  BY DEF SpacingIn, LagsIn, Unit
<1>2. \A f \in ReceiverFilters : f # "source" => f \in Fed /\ FirstOf(f) \in ReceiverFilters
  BY FiltersAre, FirstsIn
<1>3. \A f \in ReceiverFilters : T[f] = Stage(T, f)
  <2> TAKE f \in ReceiverFilters
  <2>1. CASE f = "source"
    BY <1>1, <2>1
  <2>2. CASE f # "source"
    <3>1. f \in Fed /\ FirstOf(f) \in ReceiverFilters /\ writerOf[To(f, 0)].filter = FirstOf(f)
      BY <1>2, <2>2
    <3>2. T[FirstOf(f)] = [spacing |-> SpacingIn(FirstOf(f)), lags |-> LagsIn(FirstOf(f))]
      BY <3>1
    <3>3. SpacingIn(f) = SpacingAfter(f, SpacingIn(FirstOf(f))) /\ LagsIn(f) = LagsIn(FirstOf(f)) \cup Lag(f)
      BY <3>1, SpacingsAre, LagsAre
    <3>4. T[f] = [spacing |-> SpacingIn(f), lags |-> LagsIn(f)]
      OBVIOUS
    <3> HIDE DEF T
    <3> QED BY <2>2, <3>1, <3>2, <3>3, <3>4
  <2> QED BY <2>1, <2>2
<1>4. T = [f \in ReceiverFilters |-> Stage(T, f)]
  <2>1. T = [f \in ReceiverFilters |-> T[f]]
    OBVIOUS
  <2> HIDE DEF T, Stage
  <2> QED BY <1>3, <2>1
<1>5. StreamOf = CHOOSE F : F = [f \in ReceiverFilters |-> Stage(F, f)]
  BY DEF StreamOf
<1>6. StreamOf = [f \in ReceiverFilters |-> Stage(StreamOf, f)]
  <2> HIDE DEF T
  <2> QED BY <1>4, <1>5
<1>7. \A f \in ReceiverFilters : StreamOf[f] = Stage(StreamOf, f)
  <2> HIDE DEF Stage
  <2> QED BY <1>6
<1> DEFINE S == {f \in ReceiverFilters : StreamOf[f].spacing = SpacingIn(f) /\ StreamOf[f].lags = LagsIn(f)}
<1>8. "source" \in S
  <2>1. "source" \in ReceiverFilters
    BY FiltersAre
  <2>2. StreamOf["source"] = [spacing |-> Unit, lags |-> {}]
    BY <1>7, <2>1
  <2>3. StreamOf["source"].spacing = Unit /\ StreamOf["source"].lags = {}
    BY <2>2
  <2> HIDE DEF Stage, T
  <2> QED BY <1>1, <2>1, <2>3
<1>9. ASSUME NEW g \in Fed, FirstOf(g) \in S
      PROVE  g \in S
  <2>1. g # "source" /\ g \in ReceiverFilters /\ writerOf[To(g, 0)].filter = FirstOf(g)
    BY FiltersAre, FirstsIn
  <2>2. StreamOf[g] = [spacing |-> SpacingAfter(g, StreamOf[FirstOf(g)].spacing),
                       lags |-> StreamOf[FirstOf(g)].lags \cup Lag(g)]
    BY <1>7, <2>1
  <2>3. /\ StreamOf[g].spacing = SpacingAfter(g, StreamOf[FirstOf(g)].spacing)
        /\ StreamOf[g].lags = StreamOf[FirstOf(g)].lags \cup Lag(g)
    BY <2>2
  <2>4. StreamOf[FirstOf(g)].spacing = SpacingIn(FirstOf(g)) /\ StreamOf[FirstOf(g)].lags = LagsIn(FirstOf(g))
    BY <1>9
  <2>5. SpacingIn(g) = SpacingAfter(g, SpacingIn(FirstOf(g))) /\ LagsIn(g) = LagsIn(FirstOf(g)) \cup Lag(g)
    BY SpacingsAre, LagsAre
  <2> HIDE DEF Stage, T
  <2> QED BY <2>1, <2>3, <2>4, <2>5
<1> HIDE DEF S
<1>10. ReceiverFilters \subseteq S
  BY <1>8, <1>9, Reached
<1> QED BY <1>10 DEF S

LEMMA AllFound ==
  ASSUME Followed, Wired, path = <<>>
  PROVE  found = ReceiverFilters
<1>1. \A f \in found : Unseen(f) = {}
  <2>1. Len(path) = 0
    OBVIOUS
  <2>2. \A f \in found : \A k \in 1..Len(path) : path[k] # f
    BY <2>1
  <2> QED BY <2>2 DEF Followed
<1>2. ASSUME NEW g \in Fed, FirstOf(g) \in found
      PROVE  g \in found
  <2>1. Into(g) \in Connections
    BY AllLinks
  <2>2. Into(g).from.filter = FirstOf(g) /\ Into(g).to.filter = g
    BY IntoFields, LinkFields
  <2>3. Other(Into(g), FirstOf(g)) = g
    BY <2>2 DEF Other
  <2>4. Into(g) \in {d \in Connections : FirstOf(g) \in {d.from.filter, d.to.filter}}
    BY <2>1, <2>2
  <2>5. g \in found \/ g \in Unseen(FirstOf(g))
    BY <2>3, <2>4 DEF Unseen
  <2> QED BY <1>1, <1>2, <2>5
<1>3. "source" \in found /\ found \subseteq ReceiverFilters
  BY DEF Wired
<1> QED BY <1>2, <1>3, Reached

LEMMA AllLinked ==
  ASSUME Followed, Wired, path = <<>>, linked = found
  PROVE  GraphLinked
<1>1. found = ReceiverFilters /\ linked = ReceiverFilters
  BY AllFound
<1>2. \A c \in Connections : c.to.filter \in linked /\ c.from.filter \in linked
  BY <1>1 DEF ReceiverFilters
<1>3. \A c \in Connections : writerOf[c.to] = c.from
  BY <1>2 DEF Wired
<1>4. DOMAIN writerOf = {c.to : c \in Connections}
  <2>1. {d \in Connections : d.to.filter \in linked} = Connections
    BY <1>2
  <2> QED BY <2>1 DEF Wired
<1>5. DOMAIN writerOf = UNION {{To(f, i) : i \in 0..(InputsCount(f) - 1)} : f \in found}
  BY <1>1, <1>4, InputsAre
<1>6. DOMAIN readersOf = UNION {{From(f, o) : o \in 0..(OutputsCount(f) - 1)} : f \in found}
  BY <1>1, OutputsAre DEF Wired
<1>7. ASSUME NEW o \in DOMAIN readersOf
      PROVE  readersOf[o] = {i \in DOMAIN writerOf : writerOf[i] = o}
  <2>1. readersOf[o] = {c.to : c \in {d \in Connections : d.from = o /\ d.from.filter \in linked}}
    BY DEF Wired
  <2>2. {d \in Connections : d.from = o /\ d.from.filter \in linked} = {d \in Connections : d.from = o}
    BY <1>2
  <2>3. readersOf[o] = {c.to : c \in {d \in Connections : d.from = o}}
    BY <2>1, <2>2
  <2>4. ASSUME NEW i \in readersOf[o] PROVE i \in DOMAIN writerOf /\ writerOf[i] = o
    BY <1>3, <1>4, <2>3
  <2>5. ASSUME NEW i \in DOMAIN writerOf, writerOf[i] = o PROVE i \in readersOf[o]
    <3>1. PICK c \in Connections : c.to = i
      BY <1>4
    <3>2. c.from = o
      BY <1>3, <2>5, <3>1
    <3> QED BY <2>3, <3>1, <3>2
  <2> QED BY <2>4, <2>5
<1>8. \A g \in Fed : writerOf[To(g, 0)].filter = FirstOf(g)
  <2> TAKE g \in Fed
  <2>1. Into(g) \in Connections /\ Into(g).to = To(g, 0) /\ Into(g).from = From(FirstOf(g), PortOf(g))
    BY AllLinks, IntoFields
  <2>2. writerOf[To(g, 0)] = From(FirstOf(g), PortOf(g))
    BY <1>3, <2>1
  <2> QED BY <2>2, LinkFields
<1>9. \A g \in Joining : writerOf[To(g, 1)].filter = SecondOf(g)
  <2> TAKE g \in Joining
  <2>1. IntoSecond(g) \in Connections /\ IntoSecond(g).to = To(g, 1) /\ IntoSecond(g).from = From(SecondOf(g), 0)
    BY AllLinks, IntoFields
  <2>2. writerOf[To(g, 1)] = From(SecondOf(g), 0)
    BY <1>3, <2>1
  <2> QED BY <2>2, LinkFields
<1>10. \A f \in ReceiverFilters : StreamOf[f].spacing = SpacingIn(f) /\ StreamOf[f].lags = LagsIn(f)
  BY <1>8, StreamsAre
<1>11. ASSUME NEW f \in Joining
       PROVE  /\ StreamOf[writerOf[To(f, 0)].filter].spacing = StreamOf[writerOf[To(f, 1)].filter].spacing
              /\ StreamOf[writerOf[To(f, 0)].filter].lags
                   = StreamOf[writerOf[To(f, 1)].filter].lags \cup Late(f)
  <2>1. f \in Fed /\ FirstOf(f) \in ReceiverFilters /\ SecondOf(f) \in ReceiverFilters
    BY FirstsIn, FiltersAre
  <2>2. writerOf[To(f, 0)].filter = FirstOf(f) /\ writerOf[To(f, 1)].filter = SecondOf(f)
    BY <1>8, <1>9, <2>1
  <2>3. /\ StreamOf[FirstOf(f)].spacing = SpacingIn(FirstOf(f)) /\ StreamOf[FirstOf(f)].lags = LagsIn(FirstOf(f))
        /\ StreamOf[SecondOf(f)].spacing = SpacingIn(SecondOf(f))
        /\ StreamOf[SecondOf(f)].lags = LagsIn(SecondOf(f))
    BY <1>10, <2>1
  <2>4. SpacingIn(FirstOf(f)) = SpacingIn(SecondOf(f)) /\ LagsIn(FirstOf(f)) = LagsIn(SecondOf(f)) \cup Late(f)
    BY StreamsInStep
  <2> QED BY <2>2, <2>3, <2>4
<1> QED BY <1>1, <1>3, <1>5, <1>6, <1>7, <1>11 DEF GraphLinked, Late

-----------------------------------------------------------------------------
(* The inductive invariant: what a slice is, and what is kept by the filter *)
(* that is run.                                                            *)
Inv ==
  /\ Counts
  /\ kind \in {"sampler", "fir"} => Picked
  /\ kind = "windows" => Windowed
  /\ kind = "resampler" => Resampled
  /\ kind = "snr" => Estimated
  /\ kind = "demod" => Demodulated
  /\ kind = "fft" => Transformed
  /\ kind = "decimator" => Thinned
  /\ kind = "alsa" => Played
  /\ kind = "cma" => Balanced /\ Tapped /\ Ringed /\ Decayed
  /\ kind \in {"file", "loop"} => Delivered
  /\ kind \in Decoders => Decoded
  /\ kind = "bits" => Clocked
  /\ kind = "groups" => Grouped
  /\ kind = "air" => Aired
  /\ kind = "graph" => Followed /\ Wired

LEMMA InvInit == Init => Inv
<1> SUFFICES ASSUME Init PROVE Inv
  OBVIOUS
<1> USE SamplersAssumption, FftAssumption, DevicesAssumption, RdsBitsAssumption
<1>1. /\ kind \in Kinds /\ taken = 0 /\ made = <<>> /\ Len(made) = 0 /\ Listing(made)
      /\ given = 0 /\ room = 0 /\ input_index = 0 /\ output_index = 0
      /\ pc = "idle" /\ checked = TRUE
  BY Listings DEF Init, SlicesInit
<1>2. Counts /\ MadeWhole /\ Place = 0
  BY <1>1 DEF Counts, MadeWhole, Place
<1>3. 0 * Rate = 0 /\ 0 * WindowSize = 0 /\ 0 * Interpolation = 0
  OBVIOUS
<1>4. Picked
  BY <1>1, <1>2, <1>3 DEF Picked
<1>5. Windowed
  <2>1. skip = 0 /\ left = WindowSize
    BY DEF Init, SamplersInit
  <2>2. WindowAt(0)
    BY <1>1, <1>2, <1>3, <2>1 DEF WindowAt
  <2> QED BY <1>1, <1>2, <2>1, <2>2 DEF Windowed
<1>6. Resampled
  <2>1. kernel = 0
    BY DEF Init, SamplersInit
  <2> QED BY <1>1, <1>2, <1>3, <2>1 DEF Resampled
<1>7. Estimated
  <2>1. skip = 0 /\ power = Cleared
    BY DEF Init, SamplersInit
  <2>2. Summed(power, Place)
    BY <1>2, <2>1, Starting
  <2>3. Place + skip = Len(made) * Rate
    BY <1>1, <1>2, <1>3, <2>1
  <2> QED BY <1>1, <1>2, <2>1, <2>2, <2>3 DEF Estimated
<1>8. Demodulated
  <2>1. phase = [found |-> FALSE, skipped |-> 0] /\ power.size = 0
    BY DEF Init, SamplersInit, NoPhase, Cleared
  <2> QED BY <1>1, <1>2, <2>1, RunningSumAssumption DEF Demodulated
<1>9. Transformed
  BY <1>1, <1>2 DEF Transformed
<1>10. Thinned
  <2>1. fft_skip = 0
    BY DEF Init, FftInit
  <2>2. Place + fft_skip = Len(made) * Rate
    BY <1>1, <1>2, <1>3, <2>1
  <2>3. output_index <= room + Excess
    BY <1>1 DEF Excess
  <2> QED BY <1>1, <1>2, <2>1, <2>2, <2>3 DEF Thinned
<1>11. Played /\ Balanced
  BY <1>1, <1>2 DEF Played, Balanced
<1>12. Delivered
  <2>1. place = 0 /\ failed = FALSE /\ eof = FALSE
    BY DEF Init, DevicesInit
  <2> QED BY <1>1, <2>1 DEF Delivered
<1>13. Decoded
  BY <1>1 DEF Decoded
<1>14. Clocked
  <2>1. crossings = 0 /\ clock = 0 /\ passed = Divider /\ best = 0
    BY DEF Init, RdsInit
  <2> QED BY <1>1, <2>1 DEF Clocked
<1>15. Grouped
  <2>1. blocks = [i \in 1..GroupBits |-> Foreign] /\ accumulated = 0 /\ skipped = 0
    BY DEF Init, RdsInit
  <2>2. GroupBits * Len(made) + skipped + accumulated = Place
    <3> DEFINE n == GroupBits
    <3>1. n \in Nat
      BY GroupBitsNat
    <3> HIDE DEF n
    <3>2. n * 0 = 0
      BY <3>1
    <3> QED BY <1>1, <1>2, <2>1, <3>2 DEF n
  <2>3. \A i \in 1..GroupBits : ~(GroupBits - i < accumulated)
    BY <2>1, GroupBitsNat
  <2>4. blocks \in [1..GroupBits -> Int]
    BY <2>1 DEF Foreign
  <2> QED BY <1>1, <2>1, <2>2, <2>3, <2>4 DEF Grouped
<1>16. kind = "graph" => Followed
  <2>1. found = {"source"} /\ path = <<"source">> /\ linked = {}
    BY DEF Init, GraphInit
  <2>2. path \in Seq(found) /\ Len(path) = 1 /\ path[1] = "source"
    BY <2>1
  <2>3. \A f \in found : path[1] = f
    BY <2>1, <2>2
  <2>4. 1 \in 1..Len(path)
    BY <2>2
  <2> QED BY <1>1, <2>1, <2>2, <2>3, <2>4 DEF Followed
<1>17. Tapped
  <2> DEFINE f == [k \in Slots |-> 0]
             a == [k \in Slots |-> IF k = 0 THEN 0 ELSE None]
             e == {0}
  <2>1. taps = ListOf(f, a, e)
    BY DEF Init, EqualizerInit, ListOf
  <2>2. 0 \in Slots /\ None \in Int
    BY TapsCountNat DEF Slots, None
  <2>3. f \in [Slots -> Slots] /\ a \in [Slots -> Int] /\ f[0] = 0 /\ a[0] = 0 /\ e \subseteq Slots
    BY <2>2
  <2>4. Cardinality(e) = 1
    BY FS_Singleton
  <2> HIDE DEF f, a
  <2>5. \A k \in 0..(1 - 1) : k = 0
    OBVIOUS
  <2>6. e = Members(f, 1)
    <3>1. \A k \in 0..(1 - 1) : f[k] = 0
      BY <2>3, <2>5
    <3> QED BY <3>1 DEF Members
  <2>7. Ascending(f, 1) /\ Alike(a, f, 1)
    BY <2>3, <2>5 DEF Ascending, Alike
  <2>8. Parted(f, 1, 1, TapsCount - 1)
    BY <2>3, <2>5, TapsCountNat DEF Parted
  <2>9. 1 \in 1..TapsCount
    BY TapsCountNat
  <2>10. Ranked(f, a, e, 1, 1, TapsCount - 1)
    BY <2>3, <2>4, <2>6, <2>7, <2>8, <2>9 DEF Ranked
  <2> QED BY <2>1, <2>10 DEF Tapped
<1>18. Ringed
  <2>1. outputs = [i \in 0..(2 * TapsCount - 1) |-> None] /\ cursor = 0
    BY DEF Init, EqualizerInit
  <2>2. outputs \in [0..(2 * TapsCount - 1) -> Int] /\ \A i \in 0..(2 * TapsCount - 1) : outputs[i] = None
    BY <2>1 DEF None
  <2>3. 0 \in Slots /\ \A j \in Slots : j \in 0..(2 * TapsCount - 1) /\ j + TapsCount \in 0..(2 * TapsCount - 1)
    BY TapsCountNat DEF Slots
  <2>4. \A k : k \notin 1..Least(0, TapsCount)
    BY TapsCountNat DEF Least
  <2> QED BY <1>1, <2>1, <2>2, <2>3, <2>4 DEF Ringed
<1>19. Decayed
  <2>1. /\ sums = [left |-> 0, every |-> 1, samples |-> 0, weight |-> 0, enough |-> FALSE]
        /\ tapping = [left |-> MinTapsInterval - 1, every |-> MinTapsInterval, disabled |-> 0]
    BY DEF Init, EqualizerInit
  <2> QED BY <2>1, EqualizerAssumption DEF Decayed
<1>20. Aired
  BY <1>1 DEF Aired
<1>21. Wired
  BY WiredInit DEF Init
<1> QED
  BY <1>2, <1>4, <1>5, <1>6, <1>7, <1>8, <1>9, <1>10, <1>11, <1>12, <1>13, <1>14, <1>15, <1>16, <1>17, <1>18,
     <1>19, <1>20, <1>21 DEF Inv

LEMMA KindStays == Counts /\ Next => kind' = kind
<1> SUFFICES ASSUME Counts, Next PROVE kind' = kind
  OBVIOUS
<1>1. CASE Called \/ Returns \/ Reset
  BY <1>1, Entering, Leaving, Resetting
<1>2. CASE Sampling
  BY <1>2 DEF Sampling, Pick, SkipSamples, CopySamples, WindowDone, NextSample, ApplyKernel, ResamplerDone,
              AddPower, SnrDone, KeepPhase, MeasurePhase, DemodulatorDone, Emit, Return
<1>3. CASE Convolving
  BY <1>3 DEF Convolving, FftStart, Convolve, Convolved, DecimateStart, DecimateBlock, Decimated, Emit, sliceVars
<1>4. CASE Playing \/ Reading
  BY <1>4 DEF Playing, Reading, AlsaWait, AlsaStart, AlsaWrite, AlsaWritten, AlsaThrows, ReadFile, Emit, Return
<1>5. CASE DecodingBits
  BY <1>5 DEF DecodingBits, NoCrossing, Crossing, BitsDone, Bit, Air, Emit, Return
<1>6. CASE EqualizingTaps
  BY <1>6 DEF EqualizingTaps, Equalize, Weigh, Adapt, EqualizerDone, Output, Emit, Return
<1>7. CASE Building
  BY <1>7 DEF Building, FindFilter, LinkBlock, sliceVars
<1> QED BY <1>1, <1>2, <1>3, <1>4, <1>5, <1>6, <1>7 DEF Next

LEMMA InvNext == Inv /\ Next => Inv'
<1> SUFFICES ASSUME Inv, Next PROVE Inv'
  OBVIOUS
<1>1. Counts /\ kind' = kind /\ kind \in Kinds
  BY KindStays DEF Inv, Counts
<1>2. kind \in {"sampler", "fir"} => Counts' /\ Picked'
  BY <1>1, PickedKeeps DEF Inv
<1>3. kind = "windows" => Counts' /\ Windowed'
  BY <1>1, WindowedKeeps DEF Inv
<1>4. kind = "resampler" => Counts' /\ Resampled'
  BY <1>1, ResampledKeeps DEF Inv
<1>5. kind = "snr" => Counts' /\ Estimated'
  BY <1>1, EstimatedKeeps DEF Inv
<1>6. kind = "demod" => Counts' /\ Demodulated'
  BY <1>1, DemodulatedKeeps DEF Inv
<1>7. kind = "fft" => Counts' /\ Transformed'
  BY <1>1, TransformedKeeps DEF Inv
<1>8. kind = "decimator" => Counts' /\ Thinned'
  BY <1>1, ThinnedKeeps DEF Inv
<1>9. kind = "alsa" => Counts' /\ Played'
  BY <1>1, PlayedKeeps DEF Inv
<1>10. kind = "cma" => Counts' /\ Balanced' /\ Tapped' /\ Ringed' /\ Decayed'
  BY <1>1, BalancedKeeps, TappedKeeps, RingedKeeps, DecayedKeeps DEF Inv
<1>11. kind \in {"file", "loop"} => Counts' /\ Delivered'
  BY <1>1, DeliveredKeeps DEF Inv
<1>12. kind \in Decoders => Counts' /\ Decoded'
  BY <1>1, DecodedKeeps DEF Inv
<1>13. kind = "bits" => Clocked'
  BY <1>1, ClockedKeeps DEF Inv, Decoders
<1>14. kind = "groups" => Grouped'
  BY <1>1, GroupedKeeps DEF Inv, Decoders
<1>15. kind = "graph" => Counts' /\ Followed'
  BY <1>1, FollowedKeeps DEF Inv
<1>18. kind = "graph" => Wired'
  <2>1. kind = "graph" => FindFilter \/ LinkBlock
    BY <1>1, OnlyBuilding DEF Inv
  <2> QED BY <2>1, WiredFind, WiredLink DEF Inv
<1>16. Counts'
  BY <1>1, <1>2, <1>3, <1>4, <1>5, <1>6, <1>7, <1>8, <1>9, <1>10, <1>11, <1>12, <1>15
     DEF Kinds, StatesOf, Decoders
<1>17. kind = "air" => Aired'
  BY <1>1, AiredKeeps DEF Inv, Decoders
<1> QED
  BY <1>1, <1>2, <1>3, <1>4, <1>5, <1>6, <1>7, <1>8, <1>9, <1>10, <1>11, <1>12, <1>13, <1>14, <1>15, <1>16,
     <1>17, <1>18 DEF Inv

LEMMA InvStays == Inv /\ UNCHANGED vars => Inv'
<1> SUFFICES ASSUME Inv, UNCHANGED vars PROVE Inv'
  OBVIOUS
<1>1. UNCHANGED <<kind, taken, made, given, room, input_index, output_index, pc, checked>>
  BY DEF vars, sliceVars
<1>2. UNCHANGED <<skip, left, kernel, power, phase>>
  BY DEF vars, samplerVars
<1>3. UNCHANGED <<cells, until, at, fft_skip>>
  BY DEF vars, fftVars
<1>4. UNCHANGED <<remaining, place, failed, eof>>
  BY DEF vars, deviceVars
<1>5. UNCHANGED <<crossings, clock, passed, best, blocks, accumulated, skipped>>
  BY DEF vars, rdsVars
<1>6. UNCHANGED <<found, path, linked, writerOf, readersOf>>
  BY DEF vars, graphVars
<1>7. Counts' = Counts /\ Place' = Place
  BY <1>1 DEF Counts, Listing, Place
<1>8. MadeWhole' = MadeWhole
  BY <1>1 DEF MadeWhole, Whole
<1>9. Picked' = Picked
  BY <1>1, <1>7, <1>8 DEF Picked
<1>10. Windowed' = Windowed
  BY <1>1, <1>2, <1>7, <1>8 DEF Windowed, WindowAt
<1>11. Resampled' = Resampled
  BY <1>1, <1>2, <1>7, <1>8 DEF Resampled
<1>12. Estimated' = Estimated
  BY <1>1, <1>2, <1>7, <1>8 DEF Estimated, Summed, SnrSize
<1>13. Demodulated' = Demodulated
  BY <1>1, <1>2, <1>7, <1>8 DEF Demodulated
<1>14. Transformed' = Transformed
  BY <1>1, <1>3, <1>7, <1>8 DEF Transformed
<1>15. Thinned' = Thinned
  BY <1>1, <1>3, <1>7, <1>8 DEF Thinned, Limit, Excess
<1>16. Played' = Played /\ Balanced' = Balanced
  BY <1>1, <1>4, <1>7, <1>8 DEF Played, Balanced
<1>17. Delivered' = Delivered
  BY <1>1, <1>4, <1>7 DEF Delivered, InOrder
<1>18. Decoded' = Decoded
  BY <1>1 DEF Decoded
<1>19. Clocked' = Clocked
  BY <1>1, <1>5 DEF Clocked
<1>20. Grouped' = Grouped
  BY <1>1, <1>5, <1>7 DEF Grouped, GroupBits
<1>21. Followed' = Followed
  BY <1>1, <1>6 DEF Followed, Unseen
<1>22. UNCHANGED <<outputs, cursor, taps, sums, tapping>>
  BY DEF vars, equalizerVars
<1>23. Tapped' = Tapped
  BY <1>22 DEF Tapped
<1>24. Ringed' = Ringed
  BY <1>1, <1>22 DEF Ringed
<1>25. Decayed' = Decayed
  BY <1>22 DEF Decayed
<1>26. Aired' = Aired
  BY <1>1 DEF Aired, Arrived, Arrival
<1>27. Wired' = Wired
  BY <1>6 DEF Wired
<1> QED
  BY <1>1, <1>7, <1>9, <1>10, <1>11, <1>12, <1>13, <1>14, <1>15, <1>16, <1>17, <1>18, <1>19, <1>20, <1>21,
     <1>23, <1>24, <1>25, <1>26, <1>27
     DEF Inv

THEOREM InvHolds == Spec => []Inv
<1>1. Inv /\ [Next]_vars => Inv'
  BY InvNext, InvStays
<1> QED BY InvInit, <1>1, PTL DEF Spec

-----------------------------------------------------------------------------
(* The filters keep to the states they have declared and do not write past *)
(* the output slice, wherever no rate is above the size of a block.  With  *)
(* such a rate a block may have no output, and a call that puts out none   *)
(* fails the CHECK of Block::process; the receiver's rates are 4 and 5,    *)
(* and its blocks are of hundreds of samples.                              *)
THEOREM AcceptedHolds ==
  ASSUME Rate <= OutputBlock
  PROVE  Spec => []Accepted
<1>1. Inv => Accepted
  <2> SUFFICES ASSUME Inv PROVE Accepted
    OBVIOUS
  <2>1. Counts /\ kind \in Kinds
    BY DEF Inv, Counts
  <2>2. kind = "decimator" => Accepted
    BY DEF Inv, Thinned, Accepted
  <2>3. kind # "decimator" => Excess = 0
    BY DEF Excess
  <2>4. room + 0 = room /\ output_index \in Nat /\ room \in Nat
    BY <2>1 DEF Counts
  <2>5. kind \in {"sampler", "fir", "windows", "resampler", "snr", "demod", "fft", "cma", "file", "loop"} =>
          checked /\ output_index <= room
    BY DEF Inv, Picked, Windowed, Resampled, Estimated, Demodulated, Transformed, Balanced, Delivered
  <2>6. kind \in Decoders => checked /\ output_index <= room
    BY DEF Inv, Decoded
  <2>7. kind = "graph" => checked /\ output_index <= room
    BY <2>1 DEF Inv, Followed, Counts
  <2>8. kind = "alsa" => checked
    BY DEF Inv, Played
  <2> QED BY <2>1, <2>2, <2>3, <2>4, <2>5, <2>6, <2>7, <2>8 DEF Accepted, Kinds, StatesOf, Decoders
<1> QED BY InvHolds, <1>1, PTL

(* What a filter puts out is the same however its input and output are cut *)
(* into slices, and after a call no sample that the next output is made    *)
(* for has been left behind.                                               *)
THEOREM CutsDoNotShowHolds == Spec => []CutsDoNotShow
<1>1. Inv => CutsDoNotShow
  <2> SUFFICES ASSUME Inv, kind \notin {"file", "loop", "bits", "groups", "air", "graph"}
               PROVE  /\ \A k \in DOMAIN made : made[k] = Whole(k - 1)
                      /\ pc = "idle" => SampleOf(Whole(Len(made))) >= taken
    BY DEF CutsDoNotShow
  <2> USE SamplersAssumption
  <2>1. Counts /\ Len(made) \in Nat /\ DOMAIN made = 1..Len(made)
    BY Joined, Listings DEF Inv, Counts, Listing
  <2>2. kind \in {"sampler", "fir", "windows", "resampler", "snr", "demod", "fft", "decimator", "alsa", "cma"}
    BY <2>1 DEF Counts, Kinds, StatesOf
  <2>3. MadeWhole
    BY <2>2 DEF Inv, Picked, Windowed, Resampled, Estimated, Demodulated, Transformed, Balanced, Thinned, Played
  <2>4. ASSUME pc = "idle" PROVE SampleOf(Whole(Len(made))) >= taken
    <3>1. Place = taken /\ taken \in Nat
      BY <2>1, <2>4 DEF Place, Counts
    <3>2. CASE kind \in {"sampler", "fir"}
      BY <3>1, <3>2 DEF Inv, Picked, SampleOf, Whole
    <3>3. CASE kind = "decimator"
      <4>1. Len(made) * Rate = taken + fft_skip /\ fft_skip \in 0..(Rate - 1)
        BY <3>1, <3>3 DEF Inv, Thinned
      <4>2. SampleOf(Whole(Len(made))) = taken + fft_skip
        BY <3>3, <4>1 DEF SampleOf, Whole
      <4> QED BY <3>1, <4>1, <4>2
    <3>4. CASE kind = "snr"
      <4>1. Len(made) * Rate = taken + skip /\ skip \in 0..(Rate - 1)
        BY <3>1, <3>4 DEF Inv, Estimated
      <4>2. SampleOf(Whole(Len(made))) = Len(made) * Rate
        BY <3>4 DEF SampleOf, Whole
      <4> QED BY <3>1, <4>1, <4>2
    <3>5. CASE kind = "demod"
      <4>1. SampleOf(Whole(Len(made))) = Len(made)
        BY <3>5 DEF SampleOf, Whole
      <4> QED BY <3>1, <3>5, <4>1 DEF Inv, Demodulated
    <3>6. CASE kind = "resampler"
      <4>1. kernel \in Nat /\ taken * Interpolation + kernel = Len(made) * Rate
        BY <3>1, <3>6 DEF Inv, Resampled
      <4> DEFINE n == Len(made) * Rate
                 q == n \div Interpolation
      <4>2. SampleOf(Whole(Len(made))) = q
        BY <3>6 DEF SampleOf, Whole
      <4>3. n \in Nat /\ taken * Interpolation \in Int /\ taken * Interpolation <= n
            /\ Interpolation \in Nat \ {0}
        <5>1. taken * Interpolation \in Int /\ n = taken * Interpolation + kernel /\ Interpolation \in Nat \ {0}
          BY <3>1, <4>1
        <5>2. n \in Nat
          BY <2>1
        <5> HIDE DEF n
        <5> QED BY <4>1, <5>1, <5>2
      <4> HIDE DEF n
      <4>4. q \in Nat /\ n < q * Interpolation + Interpolation
        BY <4>3, Rounding
      <4> HIDE DEF q
      <4>5. q + 1 \in Int /\ (q + 1) * Interpolation = q * Interpolation + Interpolation
            /\ q * Interpolation \in Int
        BY <4>3, <4>4, Scaled
      <4>6. taken * Interpolation < (q + 1) * Interpolation
        BY <4>3, <4>4, <4>5
      <4>7. taken < q + 1
        BY <3>1, <4>3, <4>5, <4>6, Scaled
      <4> QED BY <3>1, <4>2, <4>4, <4>7
    <3>7. CASE kind = "windows"
      <4>1. PICK w \in Nat : WindowAt(w)
        BY <3>7 DEF Inv, Windowed
      <4>2. left \in 0..WindowSize /\ skip \in Nat /\ (left = 0 <=> skip > 0)
        BY <3>7 DEF Inv, Windowed
      <4> DEFINE j == IF skip = 0 THEN WindowSize - left ELSE 0
                 start == w * WindowSize * Rate
      <4>3. j \in 0..(WindowSize - 1)
        BY <4>2
      <4>4. Len(made) = w * WindowSize + j /\ start + j >= taken
        <5>1. w * WindowSize \in Nat /\ start \in Nat
          OBVIOUS
        <5>2. CASE skip = 0
          <6>1. Len(made) = w * WindowSize + (WindowSize - left) /\ taken = start + (WindowSize - left)
            BY <3>1, <4>1, <5>2 DEF WindowAt
          <6>2. j = WindowSize - left
            BY <5>2
          <6> HIDE DEF start
          <6> QED BY <3>1, <4>2, <5>1, <6>1, <6>2
        <5>3. CASE skip # 0
          <6>1. Len(made) = w * WindowSize /\ taken = start - skip
            BY <3>1, <4>1, <5>3 DEF WindowAt
          <6>2. j = 0
            BY <5>3
          <6> HIDE DEF start
          <6> QED BY <3>1, <4>2, <5>1, <6>1, <6>2
        <5> QED BY <5>2, <5>3
      <4> HIDE DEF j
      <4>5. (w * WindowSize + j) \div WindowSize = w /\ (w * WindowSize + j) % WindowSize = j
        BY <4>3, Quotients
      <4>6. SampleOf(Whole(Len(made))) = start + j
        BY <3>7, <4>4, <4>5 DEF SampleOf, Whole
      <4> QED BY <4>4, <4>6
    <3>8. CASE kind \in {"fft", "alsa", "cma"}
      <4>1. SampleOf(Whole(Len(made))) = Len(made)
        BY <3>8 DEF SampleOf, Whole
      <4> QED BY <3>1, <3>8, <4>1 DEF Inv, Transformed, Balanced, Played
    <3> QED BY <2>2, <3>2, <3>3, <3>4, <3>5, <3>6, <3>7, <3>8
  <2> QED BY <2>1, <2>3, <2>4 DEF MadeWhole
<1> QED BY InvHolds, <1>1, PTL

(* FileSource puts out the file in order, and is at the end of its output  *)
(* only when all of it has been put out; a loop starts again only where    *)
(* what is left does not fill a slice.                                     *)
THEOREM FileInOrderHolds == Spec => []FileInOrder
<1>1. Inv => FileInOrder
  BY DEF Inv, Delivered, FileInOrder, InOrder
<1> QED BY InvHolds, <1>1, PTL

(* RdsBitsDecoder reads symbols that are more than half a period of the    *)
(* clock apart and less than two and a half, however the best clock moves. *)
THEOREM SymbolsApartHolds == Spec => []SymbolsApart
<1>1. Inv => SymbolsApart
  BY DEF Inv, Clocked, SymbolsApart
<1> QED BY InvHolds, <1>1, PTL

(* RdsGroupsDecoder makes groups of bits that follow each other, uses no   *)
(* bit in two groups, and counts the ones it skips.                        *)
THEOREM GroupsApartHolds == Spec => []GroupsApart
<1>1. Inv => GroupsApart
  <2> SUFFICES ASSUME Inv, kind = "groups" PROVE GroupsApart
    BY DEF GroupsApart
  <2>1. Grouped /\ Counts
    BY DEF Inv
  <2>2. DOMAIN made = 1..Len(made)
    BY <2>1 DEF Counts, Listing
  <2>3. Place = taken + (IF pc = "idle" THEN 0 ELSE input_index)
    BY <2>1 DEF Counts, Place
  <2>4. GroupBits * Len(made) + skipped + accumulated = taken + (IF pc = "idle" THEN 0 ELSE input_index)
    BY <2>1, <2>3 DEF Grouped
  <2> QED BY <2>1, <2>2, <2>4 DEF Grouped, GroupsApart
<1> QED BY InvHolds, <1>1, PTL

(* What a group holds, after one burst of errors of any length and with    *)
(* any information bits, is what was sent wherever it says so.             *)
THEOREM ReceivedAsSentHolds == Spec => []ReceivedAsSent
<1>1. Inv => ReceivedAsSent
  <2> SUFFICES ASSUME Inv, kind = "air", NEW k \in DOMAIN made, NEW b \in 1..4
               PROVE  LET group == made[k].group
                      IN \/ group[b].data = made[k].sent[b - 1]
                         \/ group[b].status = Uncorrectable
                         \/ group[b].status = Valid /\ ~(made[k].burst \subseteq 0..(ParityBits - 1))
                         \/ group[b].status = Corrected /\ ~(made[k].burst \subseteq 0..4)
                         \/ b = 3 /\ group[2].status = Uncorrectable
    BY DEF ReceivedAsSent
  <2>1. Aired /\ k \in 1..Len(made)
    BY DEF Inv, Counts, Listing
  <2>2. PICK info \in Infos, start \in 0..(4 * CodeBits - 1), burst \in Bursts :
          Arrival(made[k], info, start, burst)
    BY <2>1 DEF Aired, Arrived
  <2>3. \A c \in 0..3 : info[c] \in InfoWords
    BY CorrectorAssumption DEF InfoWords
  <2> DEFINE group == Extracted(Received(info, start, burst)).group
  <2>4. \/ group[b].data = info[b - 1]
        \/ group[b].status = Uncorrectable
        \/ group[b].status = Valid /\ ~(burst \subseteq 0..(ParityBits - 1))
        \/ group[b].status = Corrected /\ ~(burst \subseteq 0..4)
        \/ b = 3 /\ group[2].status = Uncorrectable
    BY <2>3, GroupAsSent
  <2>5. made[k].group = group /\ made[k].sent = info /\ made[k].burst = burst
    BY <2>2 DEF Arrival
  <2> HIDE DEF group
  <2> QED BY <2>4, <2>5
<1> QED BY InvHolds, <1>1, PTL

(* The taps that the equalizer goes through are the enabled ones, each once, *)
(* in order and adjusted for the present gain; under them lie the latest     *)
(* outputs; and no sample in the sums is older than the table of decays.     *)
THEOREM EqualizedHolds == Spec => []Equalized
<1>1. Inv => Equalized
  <2> SUFFICES ASSUME Inv, kind = "cma" PROVE Equalized
    BY DEF Equalized
  <2>1. Tapped /\ Ringed /\ Decayed
    BY DEF Inv
  <2>2. PICK f, a, e, n : taps = ListOf(f, a, e) /\ Ranked(f, a, e, n, n, TapsCount - 1)
    BY <2>1 DEF Tapped
  <2>3. taps.listed = TRUE /\ taps.indices = f /\ taps.adjusted = a /\ taps.enabled = e /\ Enabled(taps) = n
    BY <2>2 DEF ListOf, Enabled, Ranked
  <2>4. Listed(taps)
    <3>1. e = Members(f, n)
      BY <2>2 DEF Ranked
    <3> QED BY <2>3, <3>1 DEF Listed, Members
  <2>5. ASSUME NEW k \in 0..(n - 1)
        PROVE  a[k] = f[k] /\ (k > 0 => f[k - 1] < f[k])
    <3>1. n \in Nat /\ Alike(a, f, n) /\ \A i, j \in 0..(n - 1) : i < j => f[i] < f[j]
      BY <2>2 DEF Ranked, Ascending
    <3>2. k > 0 => k - 1 \in 0..(n - 1) /\ k - 1 < k
      BY <3>1
    <3> QED BY <3>1, <3>2 DEF Alike
  <2>6. \A k \in 1..Least(Len(made), TapsCount) : outputs[cursor + k] = made[Len(made) + 1 - k]
    BY <2>1 DEF Ringed
  <2>7. sums.samples <= MaxTapsInterval
    BY <2>1, EqualizerAssumption DEF Decayed
  <2>8. \A k \in 0..(Enabled(taps) - 1) :
          taps.adjusted[k] = taps.indices[k] /\ (k > 0 => taps.indices[k - 1] < taps.indices[k])
    BY <2>3, <2>5
  <2> QED BY <2>3, <2>4, <2>6, <2>7, <2>8 DEF Equalized
<1> QED BY InvHolds, <1>1, PTL

(* Pipeline::add finds all the filters of the receiver and links each input *)
(* with one output; and the inputs of a filter that joins streams are in    *)
(* step.                                                                    *)
THEOREM GraphLinkedHolds == Spec => []GraphLinked
<1>1. Inv => GraphLinked
  <2> SUFFICES ASSUME Inv, kind = "graph", path = <<>>, linked = found PROVE GraphLinked
    BY DEF GraphLinked
  <2> QED BY AllLinked DEF Inv
<1> QED BY InvHolds, <1>1, PTL

(* All of it: what the filters make of a stream is the same however it is   *)
(* cut, and the graph is linked so that the streams they make are in step.  *)
THEOREM AsWholeHolds == Spec => []AsWhole
<1>1. CutsDoNotShow /\ FileInOrder /\ SymbolsApart /\ GroupsApart /\ ReceivedAsSent /\ Equalized /\ GraphLinked
        => AsWhole
  BY DEF AsWhole
<1> QED
  BY CutsDoNotShowHolds, FileInOrderHolds, SymbolsApartHolds, GroupsApartHolds, ReceivedAsSentHolds, EqualizedHolds,
     GraphLinkedHolds, <1>1, PTL
=============================================================================
