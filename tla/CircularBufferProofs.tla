------------------------ MODULE CircularBufferProofs ------------------------
(***************************************************************************)
(* What holds of the circular buffer for every size of the buffer, every   *)
(* number of readers, every history, delay and required size, and every    *)
(* length of the stream.  The one assumption beyond those of CircularBuffer *)
(* is that Pipeline::reset visits no reader after the writer               *)
(* (ResetAfterSource = {}): otherwise Fifo is false.  What is said of the  *)
(* progress of the stream further assumes a reader with a history, without *)
(* which it is false, and room for the slices.                             *)
(*                                                                         *)
(* The argument: the cells between the end of a lap and an index hold the  *)
(* stream position that the distance says (Stored, Kept), the index of a   *)
(* reader stands for the position it has taken (Located), the writer knows *)
(* a lower bound of the readers that could be overwritten (Tracked), and   *)
(* the sizes the scheduler tested only grow until they are used (Claimed). *)
(* For the progress of the stream these sizes are also what there is       *)
(* (Informed).                                                             *)
(***************************************************************************)
EXTENDS CircularBuffer, FiniteSetTheorems, WellFoundedInduction, TLAPS

(***************************************************************************)
(* The least and the greatest element of a set of sizes.                   *)
(***************************************************************************)
LEMMA MinOfNaturals ==
  ASSUME NEW S \in SUBSET Nat, S # {}
  PROVE  Min(S) \in S /\ \A y \in S : Min(S) <= y
<1> DEFINE Segments == {0 .. x : x \in S}
<1>1. PICK T \in Segments : \A U \in Segments : ~ (<<U, T>> \in StrictSubsetOrdering(Nat))
  <2>1. Segments \subseteq FiniteSubsetsOf(Nat) /\ Segments # {}
    <3>1. \A x \in S : IsFiniteSet(0 .. x) /\ 0 .. x \subseteq Nat
      BY FS_Interval
    <3> QED
      BY <3>1 DEF FiniteSubsetsOf
  <2> HIDE DEF Segments
  <2> QED
    BY <2>1, FS_StrictSubsetOrderingWellFounded, WFMin
<1>2. PICK x \in S : T = 0 .. x
  OBVIOUS
<1>3. \A y \in S : x <= y
  <2> SUFFICES ASSUME NEW y \in S, y < x PROVE FALSE
    OBVIOUS
  <2>1. 0 .. y \subseteq 0 .. x /\ 0 .. y # 0 .. x
    <3>1. x \in 0 .. x /\ ~ (x \in 0 .. y)
      OBVIOUS
    <3> QED
      BY <3>1
  <2>2. 0 .. x \in SUBSET Nat /\ 0 .. y \in SUBSET Nat
    OBVIOUS
  <2>3. <<0 .. y, 0 .. x>> \in StrictSubsetOrdering(Nat)
    BY <2>1, <2>2, Zenon DEF StrictSubsetOrdering
  <2> QED
    BY <1>1, <1>2, <2>3
<1> QED
  BY <1>3 DEF Min

LEMMA MaxOfNaturals ==
  ASSUME NEW S \in SUBSET Nat, S # {}, IsFiniteSet(S)
  PROVE  Max(S) \in S /\ \A y \in S : y <= Max(S)
<1> DEFINE Greater(x) == {y \in S : y > x}
           Rests == {Greater(x) : x \in S}
<1>1. PICK T \in Rests : \A U \in Rests : ~ (<<U, T>> \in StrictSubsetOrdering(S))
  <2>1. Rests \subseteq FiniteSubsetsOf(S) /\ Rests # {}
    <3>1. \A x \in S : IsFiniteSet(Greater(x)) /\ Greater(x) \subseteq S
      <4> TAKE x \in S
      <4>1. Greater(x) \in SUBSET S
        OBVIOUS
      <4> HIDE DEF Greater
      <4> QED
        BY <4>1, FS_Subset
    <3> HIDE DEF Greater
    <3> QED
      BY <3>1, Zenon DEF FiniteSubsetsOf
  <2> HIDE DEF Rests
  <2> QED
    BY <2>1, FS_StrictSubsetOrderingWellFounded, WFMin
<1>2. PICK x \in S : T = Greater(x)
  OBVIOUS
<1>3. \A y \in S : x >= y
  <2> SUFFICES ASSUME NEW y \in S, y > x PROVE FALSE
    OBVIOUS
  <2>1. Greater(y) \subseteq Greater(x) /\ Greater(y) # Greater(x)
    <3>1. y \in Greater(x) /\ ~ (y \in Greater(y))
      OBVIOUS
    <3>2. \A z \in S : z > y => z > x
      OBVIOUS
    <3>3. Greater(y) \subseteq Greater(x)
      BY <3>2
    <3> HIDE DEF Greater
    <3> QED
      BY <3>1, <3>3, Zenon
  <2>2. Greater(x) \in SUBSET S /\ Greater(y) \in SUBSET S /\ Greater(y) \in Rests
    OBVIOUS
  <2>3. <<Greater(y), Greater(x)>> \in StrictSubsetOrdering(S)
    <3> HIDE DEF Greater
    <3> QED
      BY <2>1, <2>2, Zenon DEF StrictSubsetOrdering
  <2> QED
    BY <1>1, <1>2, <2>2, <2>3
<1>4. Max(S) \in S /\ \A y \in S : Max(S) >= y
  BY <1>3 DEF Max
<1> QED
  BY <1>4

(***************************************************************************)
(* The layout of the buffer.                                               *)
(***************************************************************************)
LEMMA RoundUpBounds ==
  ASSUME NEW n \in Nat
  PROVE  RoundUp(n) \in Nat /\ n <= RoundUp(n)
<1> DEFINE q == (n + Alignment - 1) \div Alignment
<1>1. Alignment \in Nat /\ Alignment > 0
  BY SizesAssumption
<1>2. q \in Int /\ Alignment * q <= n + Alignment - 1 /\ n + Alignment - 1 < Alignment * q + Alignment
  BY <1>1
<1>3. RoundUp(n) = Alignment * q
  BY <1>1, <1>2 DEF RoundUp
<1>4. Alignment * q \in Int
  BY <1>1, <1>2
<1> QED
  BY <1>1, <1>2, <1>3, <1>4

LEMMA RoundUpMonotonic ==
  ASSUME NEW n \in Nat, NEW k \in Nat, n <= k
  PROVE  RoundUp(n) <= RoundUp(k)
<1> DEFINE q(i) == (i + Alignment - 1) \div Alignment
<1>1. Alignment \in Nat /\ Alignment > 0
  BY SizesAssumption
<1>2. \A i \in Nat : /\ q(i) \in Int
                     /\ Alignment * q(i) <= i + Alignment - 1
                     /\ i + Alignment - 1 < Alignment * q(i) + Alignment
                     /\ RoundUp(i) = Alignment * q(i)
  BY <1>1 DEF RoundUp
<1>3. q(n) <= q(k)
  <2> SUFFICES ASSUME q(k) + 1 <= q(n) PROVE FALSE
    BY <1>2
  <2>1. Alignment * (q(k) + 1) <= Alignment * q(n)
    BY <1>1, <1>2
  <2>2. Alignment * (q(k) + 1) = Alignment * q(k) + Alignment
    BY <1>1, <1>2
  <2> QED
    BY <1>1, <1>2, <2>1, <2>2
<1> QED
  BY <1>1, <1>2, <1>3

LEMMA Layout ==
  /\ DataSize \in Nat /\ Overlap \in Nat /\ MaxHistorySize \in Nat
  /\ MinOutputSize \in Nat /\ 0 < MinOutputSize
  /\ SuggestedOutputSize \in Nat /\ MinOutputSize <= SuggestedOutputSize
  /\ MaxHistorySize <= Overlap
  /\ 2 * Overlap + MinOutputSize <= DataSize
  /\ Readers # {} /\ Source \notin Readers
  /\ \A r \in Readers : /\ HistorySize[r] \in Nat /\ Delay[r] \in Nat
                        /\ RequiredSize[r] \in Nat /\ 0 < RequiredSize[r]
                        /\ SuggestedSize[r] \in Nat /\ RequiredSize[r] <= SuggestedSize[r]
                        /\ Delay[r] <= HistorySize[r]
                        /\ HistorySize[r] <= MaxHistorySize
<1> DEFINE Inputs == {MinCombinedInputSize(r) : r \in Readers}
           Histories == {HistorySize[r] : r \in Readers}
<1>1. \A r \in Readers : HistorySize[r] \in Nat /\ MinCombinedInputSize(r) \in Nat
                         /\ HistorySize[r] <= MinCombinedInputSize(r)
  BY SizesAssumption DEF MinCombinedInputSize
<1>2. IsFiniteSet(Inputs) /\ Inputs # {} /\ Inputs \in SUBSET Nat
  <2>1. [r \in Readers |-> MinCombinedInputSize(r)] \in Surjection(Readers, Inputs)
    BY DEF Surjection
  <2> QED
    BY <1>1, <2>1, FS_Surjection, SizesAssumption
<1>3. IsFiniteSet(Histories) /\ Histories # {} /\ Histories \in SUBSET Nat
  <2>1. [r \in Readers |-> HistorySize[r]] \in Surjection(Readers, Histories)
    BY DEF Surjection
  <2> QED
    BY <1>1, <2>1, FS_Surjection, SizesAssumption
<1>4. Max(Inputs) \in Nat /\ \A y \in Inputs : y <= Max(Inputs)
  <2> HIDE DEF Inputs
  <2> QED
    BY <1>2, MaxOfNaturals
<1>5. Max(Histories) \in Histories /\ \A y \in Histories : y <= Max(Histories)
  <2> HIDE DEF Histories
  <2> QED
    BY <1>3, MaxOfNaturals
<1>6. Max(Histories) \in Nat /\ Max(Histories) <= Max(Inputs)
  <2>1. PICK r \in Readers : Max(Histories) = HistorySize[r]
    BY <1>5
  <2>2. MinCombinedInputSize(r) <= Max(Inputs)
    BY <1>4
  <2> HIDE DEF Inputs, Histories
  <2> QED
    BY <1>1, <1>4, <2>1, <2>2
<1>7. Overlap = RoundUp(Max(Inputs)) /\ MaxHistorySize = RoundUp(Max(Histories))
  BY DEF Overlap, MaxHistorySize
<1>8. Overlap \in Nat /\ MaxHistorySize \in Nat /\ MaxHistorySize <= Overlap
      /\ Max(Histories) <= MaxHistorySize
  <2> HIDE DEF Inputs, Histories
  <2> QED
    BY <1>4, <1>6, <1>7, RoundUpBounds, RoundUpMonotonic
<1>9. \A r \in Readers : HistorySize[r] <= MaxHistorySize
  <2> TAKE r \in Readers
  <2>1. HistorySize[r] <= Max(Histories)
    BY <1>5
  <2> HIDE DEF Histories
  <2> QED
    BY <1>1, <1>6, <1>8, <2>1
<1> HIDE DEF Inputs, Histories
<1> QED
  BY <1>8, <1>9, SizesAssumption, LayoutAssumption

(***************************************************************************)
(* What the memory and the indices hold, of a writer w and readers rs when *)
(* n elements have been written and reader r has taken t[r].               *)
(*                                                                         *)
(* A reader on the writer's lap is below it, and far enough below to have  *)
(* its history, unless it has not left the start of the buffer; a reader   *)
(* of the previous lap is above the writer and below the end of that lap.  *)
(***************************************************************************)
SameLap(x, w) == x.wrap_flag = w.wrap_flag

Placed(r, x, w) ==
  /\ SameLap(x, w) =>
       /\ x.input_index <= w.output_index
       /\ \/ x.input_index + HistorySize[r] <= w.output_index
          \/ x.input_index + HistorySize[r] <= 2 * Overlap
  /\ ~SameLap(x, w) =>
       /\ Overlap <= w.output_index
       /\ w.output_index <= x.input_index
       /\ x.input_index + HistorySize[r] <= w.current_size

Sized(x, w) == x.available_size <= ReadEnd(x, w) - x.input_index

(* Position in the stream of cell i of a lap.                              *)
ThisLap(w, n, i) == n - w.output_index + i

PreviousLap(w, n, i) == n - (w.output_index - Overlap) - w.current_size + i

Located(r, x, w, n, t) ==
  t + Delay[r] - HistorySize[r] =
    IF SameLap(x, w) THEN ThisLap(w, n, x.input_index) ELSE PreviousLap(w, n, x.input_index)

Stored(w, n) ==
  \A i \in 0 .. w.output_index - 1 :
    ThisLap(w, n, i) >= 0 => w.data[i] = ThisLap(w, n, i)

Kept(x, w, n) ==
  ~SameLap(x, w) =>
    \A i \in x.input_index .. w.current_size - 1 :
      PreviousLap(w, n, i) >= 0 => w.data[i] = PreviousLap(w, n, i)

WriterPlaced(w) ==
  /\ w \in WriterType
  /\ DataSize - MinOutputSize < w.current_size

ReaderPlaced(r, x, w, n, t) ==
  /\ x \in ReaderType
  /\ Placed(r, x, w)
  /\ Located(r, x, w, n, t)
  /\ Kept(x, w, n)

Buffered(w, rs, n, t) ==
  /\ WriterPlaced(w)
  /\ Stored(w, n)
  /\ rs \in [Readers -> ReaderType]
  /\ \A r \in Readers : ReaderPlaced(r, rs[r], w, n, t[r]) /\ Sized(rs[r], w)

(* The readers that bound the writer, and what it knows of them.           *)
Bounding(w, rs) == IF ReadersAbove(w, rs) = {} THEN Readers ELSE ReadersAbove(w, rs)

Bounded(w, rs) ==
  /\ \A r \in Bounding(w, rs) : w.min_input_index <= rs[r].input_index
  /\ \E r \in Bounding(w, rs) : w.min_input_index = rs[r].input_index

Tracked(w, rs) ==
  /\ w.wrap_flag = w.min_input_wrap_flag <=> ReadersAbove(w, rs) = {}
  /\ Bounded(w, rs)

(* The size the scheduler sees is never more than there is, and the writer *)
(* has wrapped if it had to.                                               *)
Settled(w) ==
  /\ w.available_size <= WriterSpace(w)
  /\ ~MustWrap(w)

(* CircularBufferWriter::updateMinInputIndex takes one of the readers that *)
(* bound the writer, and none of them is behind it.                        *)
LEMMA SlowestBounds ==
  ASSUME NEW w, NEW rs \in [Readers -> ReaderType]
  PROVE  /\ \A r \in Bounding(w, rs) : SlowestIndex(w, rs) <= rs[r].input_index
         /\ \E r \in Bounding(w, rs) : SlowestIndex(w, rs) = rs[r].input_index
<1> DEFINE B == Bounding(w, rs)
           S == {rs[r].input_index : r \in B}
<1>1. B \subseteq Readers /\ B # {}
  BY Layout DEF Bounding, ReadersAbove
<1>2. \A r \in Readers : rs[r].input_index \in 0 .. DataSize
  BY DEF ReaderType
<1>3. S \in SUBSET Nat /\ S # {}
  BY <1>1, <1>2, Layout
<1>4. SlowestIndex(w, rs) = Min(S)
  BY DEF SlowestIndex, Bounding
<1>5. Min(S) \in S /\ \A y \in S : Min(S) <= y
  <2> HIDE DEF S
  <2> QED
    BY <1>3, MinOfNaturals
<1> QED
  BY <1>4, <1>5

(***************************************************************************)
(* The writer: filling memory, wrapping, measuring.                        *)
(***************************************************************************)
LEMMA ReaderFields ==
  ASSUME NEW x \in ReaderType
  PROVE  /\ x.input_index \in Nat /\ x.input_index <= DataSize
         /\ x.available_size \in Nat /\ x.available_size <= DataSize
         /\ x.wrap_flag \in BOOLEAN /\ x.wrapping \in BOOLEAN
BY Layout DEF ReaderType

LEMMA WriterFields ==
  ASSUME NEW w \in WriterType
  PROVE  /\ w.output_index \in Nat /\ w.output_index <= DataSize
         /\ w.current_size \in Nat /\ w.current_size <= DataSize
         /\ w.min_input_index \in Nat /\ w.min_input_index <= DataSize
         /\ w.available_size \in Nat /\ w.available_size <= DataSize
         /\ w.wrap_flag \in BOOLEAN /\ w.min_input_wrap_flag \in BOOLEAN
         /\ w.wrapping \in BOOLEAN
         /\ w.data \in [Cells -> {NoData} \cup Nat]
BY Layout DEF WriterType

LEMMA WrapFields ==
  ASSUME NEW w \in WriterType, MustWrap(w)
  PROVE  LET v == WriterWrap(w)
         IN  /\ v \in WriterType
             /\ v.output_index = Overlap
             /\ v.current_size = w.output_index
             /\ v.wrap_flag = ~w.wrap_flag
             /\ v.min_input_index = w.min_input_index
             /\ v.min_input_wrap_flag = w.min_input_wrap_flag
             /\ \A i \in Cells : v.data[i] = IF i < Overlap
                                               THEN w.data[w.output_index - Overlap + i]
                                               ELSE w.data[i]
<1>1. /\ w.output_index \in Nat /\ w.output_index <= DataSize
      /\ DataSize - MinOutputSize < w.output_index
  BY WriterFields, Layout DEF MustWrap
<1> DEFINE d == [i \in Cells |-> IF i < Overlap THEN w.data[w.output_index - Overlap + i]
                                                ELSE w.data[i]]
<1>2. d \in [Cells -> {NoData} \cup Nat]
  <2>1. \A i \in Cells : i < Overlap => w.output_index - Overlap + i \in Cells
    BY <1>1, Layout DEF Cells
  <2> QED
    BY <2>1, WriterFields
<1>3. WriterWrap(w) = [w EXCEPT !.current_size = w.output_index, !.data = d,
                                !.output_index = Overlap, !.wrap_flag = ~w.wrap_flag]
  BY DEF WriterWrap
<1>4. Overlap \in 0 .. DataSize /\ w.output_index \in 0 .. DataSize
  BY <1>1, Layout
<1>5. \A i \in Cells : d[i] = IF i < Overlap THEN w.data[w.output_index - Overlap + i] ELSE w.data[i]
  OBVIOUS
<1> HIDE DEF d
<1> QED
  BY <1>2, <1>3, <1>4, <1>5 DEF WriterType

(* The wrap copies the last elements of the lap, and leaves every reader   *)
(* its place on what is now the previous lap.                              *)
LEMMA WrapKeeps ==
  ASSUME NEW w, NEW rs, NEW n \in Nat, NEW t \in [Readers -> Nat],
         Buffered(w, rs, n, t), MustWrap(w),
         \A r \in Readers : SameLap(rs[r], w) /\ w.min_input_index <= rs[r].input_index
  PROVE  Buffered(WriterWrap(w), rs, n, t)
<1> DEFINE v == WriterWrap(w)
<1>1. /\ w \in WriterType /\ rs \in [Readers -> ReaderType]
      /\ w.output_index \in Nat /\ w.output_index <= DataSize
      /\ DataSize - MinOutputSize < w.output_index
      /\ w.min_input_index \in Nat /\ Overlap <= w.min_input_index
      /\ w.wrap_flag \in BOOLEAN
  BY WriterFields, Layout DEF MustWrap, Buffered, WriterPlaced
<1>2. /\ v \in WriterType
      /\ v.output_index = Overlap
      /\ v.current_size = w.output_index
      /\ v.wrap_flag = ~w.wrap_flag
      /\ \A i \in Cells : v.data[i] = IF i < Overlap
                                        THEN w.data[w.output_index - Overlap + i]
                                        ELSE w.data[i]
  BY <1>1, WrapFields
<1> HIDE DEF v
<1>3. \A i \in 0 .. w.output_index - 1 : n - w.output_index + i >= 0 => w.data[i] = n - w.output_index + i
  BY DEF Buffered, Stored, ThisLap
<1>4. WriterPlaced(v)
  BY <1>1, <1>2 DEF WriterPlaced
<1>5. Stored(v, n)
  <2> SUFFICES ASSUME NEW i \in 0 .. Overlap - 1, n - Overlap + i >= 0
               PROVE  v.data[i] = n - Overlap + i
    BY <1>2 DEF Stored, ThisLap
  <2>1. i \in Cells /\ i < Overlap /\ w.output_index - Overlap + i \in 0 .. w.output_index - 1
    BY <1>1, Layout DEF Cells
  <2>2. v.data[i] = w.data[w.output_index - Overlap + i]
    BY <1>2, <2>1
  <2>3. n - w.output_index + (w.output_index - Overlap + i) = n - Overlap + i
    BY <1>1, Layout
  <2> QED
    BY <1>3, <2>1, <2>2, <2>3
<1>6. ASSUME NEW r \in Readers PROVE ReaderPlaced(r, rs[r], v, n, t[r]) /\ Sized(rs[r], v)
  <2> DEFINE x == rs[r]
  <2>1. /\ x \in ReaderType /\ x.input_index \in Nat /\ x.available_size \in Nat
        /\ SameLap(x, w) /\ w.min_input_index <= x.input_index
    BY <1>1, ReaderFields
  <2>2. Placed(r, x, w) /\ Sized(x, w) /\ Located(r, x, w, n, t[r])
    BY DEF Buffered, ReaderPlaced
  <2> HIDE DEF x
  <2>3. ~SameLap(x, v)
    BY <1>1, <1>2, <2>1 DEF SameLap
  <2>4. Placed(r, x, v) /\ Sized(x, v)
    BY <1>1, <1>2, <2>1, <2>2, <2>3, Layout DEF Placed, Sized, ReadEnd, SameLap
  <2>5. Located(r, x, v, n, t[r])
    BY <1>1, <1>2, <2>1, <2>2, <2>3, Layout DEF Located, ThisLap, PreviousLap
  <2>6. Kept(x, v, n)
    <3> SUFFICES ASSUME NEW i \in x.input_index .. v.current_size - 1,
                        PreviousLap(v, n, i) >= 0
                 PROVE  v.data[i] = PreviousLap(v, n, i)
      BY DEF Kept
    <3>1. i \in 0 .. w.output_index - 1 /\ i \in Cells /\ ~(i < Overlap)
      BY <1>1, <1>2, <2>1, Layout DEF Cells
    <3>2. PreviousLap(v, n, i) = n - w.output_index + i
      BY <1>1, <1>2, <3>1, Layout DEF PreviousLap
    <3> QED
      BY <1>2, <1>3, <3>1, <3>2
  <2> QED
    BY <2>1, <2>4, <2>5, <2>6 DEF ReaderPlaced, x
<1> QED
  BY <1>1, <1>4, <1>5, <1>6 DEF Buffered, v

(* Writing behind the index of the writer, and below the readers of the    *)
(* previous lap, moves the index over the new elements.                    *)
LEMMA FillKeeps ==
  ASSUME NEW w, NEW rs, NEW n \in Nat, NEW t \in [Readers -> Nat],
         Buffered(w, rs, n, t),
         NEW k \in Nat, w.output_index + k <= DataSize,
         \A r \in Readers : ~SameLap(rs[r], w) => w.output_index + k <= rs[r].input_index,
         NEW d \in [Cells -> {NoData} \cup Nat],
         \A i \in Cells : d[i] = IF i \in w.output_index .. w.output_index + k - 1
                                   THEN n + (i - w.output_index)
                                   ELSE w.data[i]
  PROVE  Buffered([w EXCEPT !.data = d, !.output_index = w.output_index + k],
                  rs, n + k, t)
<1> DEFINE v == [w EXCEPT !.data = d, !.output_index = w.output_index + k]
<1>1. /\ w \in WriterType /\ rs \in [Readers -> ReaderType]
      /\ w.output_index \in Nat /\ w.current_size \in Nat /\ w.current_size <= DataSize
      /\ w.wrap_flag \in BOOLEAN
      /\ DataSize - MinOutputSize < w.current_size
  BY WriterFields DEF Buffered, WriterPlaced
<1>2. /\ v \in WriterType
      /\ v.output_index = w.output_index + k
      /\ v.current_size = w.current_size
      /\ v.wrap_flag = w.wrap_flag
      /\ v.data = d
  <2>1. w.output_index + k \in 0 .. DataSize
    BY <1>1
  <2> QED
    BY <1>1, <2>1 DEF WriterType
<1> HIDE DEF v
<1>3. \A i \in 0 .. w.output_index - 1 : n - w.output_index + i >= 0 => w.data[i] = n - w.output_index + i
  BY DEF Buffered, Stored, ThisLap
<1>4. WriterPlaced(v)
  BY <1>1, <1>2 DEF WriterPlaced
<1>5. Stored(v, n + k)
  <2> SUFFICES ASSUME NEW i \in 0 .. w.output_index + k - 1, n - w.output_index + i >= 0
               PROVE  d[i] = n - w.output_index + i
    BY <1>1, <1>2 DEF Stored, ThisLap
  <2>1. i \in Cells
    BY <1>1, Layout DEF Cells
  <2>2. CASE i < w.output_index
    BY <1>1, <1>3, <2>1, <2>2
  <2>3. CASE ~(i < w.output_index)
    BY <1>1, <2>1, <2>3
  <2> QED
    BY <2>2, <2>3
<1>6. ASSUME NEW r \in Readers PROVE ReaderPlaced(r, rs[r], v, n + k, t[r]) /\ Sized(rs[r], v)
  <2> DEFINE x == rs[r]
  <2>1. /\ x \in ReaderType /\ x.input_index \in Nat /\ x.available_size \in Nat
        /\ SameLap(x, v) <=> SameLap(x, w)
        /\ ~SameLap(x, w) => w.output_index + k <= x.input_index
    BY <1>1, <1>2, ReaderFields DEF SameLap
  <2>2. Placed(r, x, w) /\ Sized(x, w) /\ Located(r, x, w, n, t[r]) /\ Kept(x, w, n)
    BY DEF Buffered, ReaderPlaced
  <2> HIDE DEF x
  <2>3. Placed(r, x, v) /\ Sized(x, v)
    <3>1. CASE SameLap(x, w)
      BY <1>1, <1>2, <2>1, <2>2, <3>1, Layout DEF Placed, Sized, ReadEnd, SameLap
    <3>2. CASE ~SameLap(x, w)
      BY <1>1, <1>2, <2>1, <2>2, <3>2, Layout DEF Placed, Sized, ReadEnd, SameLap
    <3> QED
      BY <3>1, <3>2
  <2>4. Located(r, x, v, n + k, t[r])
    BY <1>1, <1>2, <2>1, <2>2, Layout DEF Located, ThisLap, PreviousLap
  <2>5. Kept(x, v, n + k)
    <3> SUFFICES ASSUME ~SameLap(x, w), NEW i \in x.input_index .. w.current_size - 1,
                        PreviousLap(v, n + k, i) >= 0
                 PROVE  d[i] = PreviousLap(v, n + k, i)
      BY <1>2, <2>1 DEF Kept
    <3>1. PreviousLap(v, n + k, i) = PreviousLap(w, n, i)
      BY <1>1, <1>2, <2>1, Layout DEF PreviousLap
    <3>2. i \in Cells /\ ~(i \in w.output_index .. w.output_index + k - 1)
      <4>1. /\ i \in Int /\ x.input_index <= i /\ i <= w.current_size - 1
            /\ w.output_index + k <= x.input_index
        BY <1>1, <2>1
      <4>2. i \in 0 .. DataSize - 1 /\ w.output_index + k <= i
        BY <1>1, <2>1, <4>1, Layout
      <4> QED
        BY <1>1, <4>1, <4>2 DEF Cells
    <3>3. w.data[i] = PreviousLap(w, n, i)
      BY <2>2, <3>1 DEF Kept
    <3> QED
      BY <3>1, <3>2, <3>3
  <2> QED
    BY <2>1, <2>3, <2>4, <2>5 DEF ReaderPlaced, x
<1> QED
  BY <1>1, <1>4, <1>5, <1>6 DEF Buffered, v

(* Fields of the writer that say nothing about the memory.                 *)
LEMMA SameMemory ==
  ASSUME NEW w, NEW v, NEW rs, NEW n, NEW t,
         Buffered(w, rs, n, t), v \in WriterType,
         v.output_index = w.output_index, v.current_size = w.current_size,
         v.wrap_flag = w.wrap_flag, v.data = w.data
  PROVE  Buffered(v, rs, n, t)
BY DEF Buffered, WriterPlaced, Stored, ThisLap, ReaderPlaced, Placed, Sized, SameLap, ReadEnd,
       Located, PreviousLap, Kept

LEMMA WriterMeasureKeeps ==
  ASSUME NEW w, NEW rs, NEW n, NEW t, Buffered(w, rs, n, t),
         w.wrap_flag # w.min_input_wrap_flag => w.output_index <= w.min_input_index
  PROVE  LET v == WriterMeasure(w)
         IN  /\ Buffered(v, rs, n, t)
             /\ v.output_index = w.output_index /\ v.current_size = w.current_size
             /\ v.wrap_flag = w.wrap_flag /\ v.data = w.data
             /\ v.min_input_index = w.min_input_index
             /\ v.min_input_wrap_flag = w.min_input_wrap_flag
             /\ v.available_size = WriterSpace(w)
<1> DEFINE v == WriterMeasure(w)
<1>1. w \in WriterType
  BY DEF Buffered, WriterPlaced
<1>2. WriterSpace(w) \in 0 .. DataSize
  BY <1>1, WriterFields, Layout DEF WriterSpace
<1>3. (DataSize - w.output_index < SuggestedOutputSize) \in BOOLEAN
  OBVIOUS
<1>4. /\ v \in WriterType
      /\ v.output_index = w.output_index /\ v.current_size = w.current_size
      /\ v.wrap_flag = w.wrap_flag /\ v.data = w.data
      /\ v.min_input_index = w.min_input_index
      /\ v.min_input_wrap_flag = w.min_input_wrap_flag
      /\ v.available_size = WriterSpace(w)
  BY <1>1, <1>2, <1>3 DEF WriterMeasure, WriterType
<1> HIDE DEF v
<1>5. Buffered(v, rs, n, t)
  BY <1>4, SameMemory
<1> QED
  BY <1>4, <1>5 DEF v

(* CircularBufferWriter::adjust: whether it wraps or not, the buffer keeps *)
(* what its readers still need, and the writer is told all the space.      *)
LEMMA WriterAdjustKeeps ==
  ASSUME NEW w, NEW rs, NEW n \in Nat, NEW t \in [Readers -> Nat],
         Buffered(w, rs, n, t),
         w.wrap_flag = w.min_input_wrap_flag =>
           \A r \in Readers : SameLap(rs[r], w) /\ w.min_input_index <= rs[r].input_index,
         w.wrap_flag # w.min_input_wrap_flag => w.output_index <= w.min_input_index
  PROVE  LET v == WriterAdjust(w)
         IN  /\ Buffered(v, rs, n, t)
             /\ v.min_input_index = w.min_input_index
             /\ v.min_input_wrap_flag = w.min_input_wrap_flag
             /\ v.available_size = WriterSpace(v)
             /\ v.wrap_flag # v.min_input_wrap_flag => v.output_index <= v.min_input_index
             /\ IF MustWrap(w)
                  THEN /\ v.wrap_flag = ~w.wrap_flag
                       /\ v.output_index = Overlap
                       /\ v.current_size = w.output_index
                  ELSE /\ v.wrap_flag = w.wrap_flag
                       /\ v.output_index = w.output_index
                       /\ v.current_size = w.current_size
             /\ ~MustWrap(v)
<1> DEFINE v == WriterAdjust(w)
<1>1. w \in WriterType
  BY DEF Buffered, WriterPlaced
<1>2. CASE MustWrap(w)
  <2> DEFINE u == WriterWrap(w)
  <2>1. Buffered(u, rs, n, t)
    BY <1>2, WrapKeeps DEF MustWrap
  <2>2. /\ u.output_index = Overlap /\ u.current_size = w.output_index
        /\ u.wrap_flag = ~w.wrap_flag
        /\ u.min_input_index = w.min_input_index
        /\ u.min_input_wrap_flag = w.min_input_wrap_flag
    BY <1>1, <1>2, WrapFields
  <2>3. u.wrap_flag # u.min_input_wrap_flag /\ u.output_index <= u.min_input_index
    BY <1>1, <1>2, <2>2, WriterFields DEF MustWrap
  <2>4. v = WriterMeasure(u)
    BY <1>2 DEF WriterAdjust
  <2> HIDE DEF u, v
  <2>5. /\ Buffered(v, rs, n, t)
        /\ v.output_index = u.output_index /\ v.current_size = u.current_size
        /\ v.wrap_flag = u.wrap_flag
        /\ v.min_input_index = u.min_input_index
        /\ v.min_input_wrap_flag = u.min_input_wrap_flag
        /\ v.available_size = WriterSpace(u)
    BY <2>1, <2>3, <2>4, WriterMeasureKeeps
  <2>6. WriterSpace(v) = WriterSpace(u)
    BY <2>5 DEF WriterSpace
  <2>7. ~MustWrap(v)
    BY <2>3, <2>5 DEF MustWrap
  <2> QED
    BY <1>2, <2>2, <2>3, <2>5, <2>6, <2>7 DEF v
<1>3. CASE ~MustWrap(w)
  <2>1. v = WriterMeasure(w)
    BY <1>3 DEF WriterAdjust
  <2> HIDE DEF v
  <2>2. /\ Buffered(v, rs, n, t)
        /\ v.output_index = w.output_index /\ v.current_size = w.current_size
        /\ v.wrap_flag = w.wrap_flag
        /\ v.min_input_index = w.min_input_index
        /\ v.min_input_wrap_flag = w.min_input_wrap_flag
        /\ v.available_size = WriterSpace(w)
    BY <2>1, WriterMeasureKeeps
  <2>3. WriterSpace(v) = WriterSpace(w) /\ ~MustWrap(v)
    BY <1>3, <2>2 DEF WriterSpace, MustWrap
  <2> QED
    BY <1>3, <2>2, <2>3 DEF v
<1> QED
  BY <1>2, <1>3

(***************************************************************************)
(* CircularBufferReader::adjust: moving to the copy of the overlap changes *)
(* neither the position in the stream nor, downwards, what is available.   *)
(***************************************************************************)
LEMMA ReaderAdjustKeeps ==
  ASSUME NEW w, WriterPlaced(w), NEW n \in Nat,
         NEW r \in Readers, NEW x, NEW p \in Nat, ReaderPlaced(r, x, w, n, p)
  PROVE  LET y == ReaderAdjust(r, x, w)
         IN  /\ ReaderPlaced(r, y, w, n, p) /\ Sized(y, w)
             /\ Sized(x, w) => x.available_size <= y.available_size
             /\ \/ (SameLap(y, w) <=> SameLap(x, w)) /\ y.input_index = x.input_index
                \/ ~SameLap(x, w) /\ SameLap(y, w) /\ y.input_index <= Overlap
<1> DEFINE y == ReaderAdjust(r, x, w)
           z == ReaderWrap(x, w)
<1>1. /\ w \in WriterType /\ x \in ReaderType
      /\ w.output_index \in Nat /\ w.output_index <= DataSize
      /\ w.current_size \in Nat /\ w.current_size <= DataSize
      /\ w.wrap_flag \in BOOLEAN
      /\ DataSize - MinOutputSize < w.current_size
      /\ x.input_index \in Nat /\ x.available_size \in Nat /\ x.wrap_flag \in BOOLEAN
      /\ x.wrapping \in BOOLEAN /\ x.available_size <= DataSize /\ x.input_index <= DataSize
  BY WriterFields, ReaderFields DEF WriterPlaced, ReaderPlaced
<1>2. Placed(r, x, w) /\ Located(r, x, w, n, p) /\ Kept(x, w, n)
  BY DEF ReaderPlaced
<1>3. /\ z \in ReaderType /\ Placed(r, z, w) /\ Located(r, z, w, n, p) /\ Kept(z, w, n)
      /\ z.available_size = x.available_size /\ (Sized(x, w) => Sized(z, w))
      /\ \/ z = x
         \/ ~SameLap(x, w) /\ SameLap(z, w) /\ z.input_index <= Overlap
  <2>1. CASE ~SameLap(x, w) /\ w.current_size - x.input_index <= Overlap
    <3> DEFINE i == Overlap - (w.current_size - x.input_index)
    <3>1. z = [x EXCEPT !.input_index = i, !.wrap_flag = ~x.wrap_flag]
      BY <2>1 DEF ReaderWrap, SameLap
    <3>2. i \in Nat /\ i <= Overlap /\ i \in 0 .. DataSize
      BY <1>1, <1>2, <2>1, Layout DEF Placed
    <3>3. z \in ReaderType /\ z.input_index = i /\ z.wrap_flag = ~x.wrap_flag
          /\ z.available_size = x.available_size
      BY <1>1, <3>1, <3>2 DEF ReaderType
    <3>4. SameLap(z, w)
      BY <1>1, <2>1, <3>3 DEF SameLap
    <3> HIDE DEF z
    <3>5. Placed(r, z, w) /\ (Sized(x, w) => Sized(z, w))
      BY <1>1, <1>2, <2>1, <3>2, <3>3, <3>4, Layout DEF Placed, Sized, ReadEnd, SameLap
    <3>6. Located(r, z, w, n, p)
      BY <1>1, <1>2, <2>1, <3>2, <3>3, <3>4, Layout DEF Located, ThisLap, PreviousLap
    <3>7. Kept(z, w, n)
      BY <3>4 DEF Kept
    <3> QED
      BY <2>1, <3>2, <3>3, <3>4, <3>5, <3>6, <3>7
  <2>2. CASE ~(~SameLap(x, w) /\ w.current_size - x.input_index <= Overlap)
    <3>1. z = x
      BY <2>2 DEF ReaderWrap, SameLap
    <3> QED
      BY <1>1, <1>2, <3>1
  <2> QED
    BY <2>1, <2>2
<1> HIDE DEF z
<1>4. ReadEnd(z, w) - z.input_index \in 0 .. DataSize /\ z.input_index \in Nat
  <2>1. HistorySize[r] \in Nat /\ z.available_size \in Nat /\ z.input_index \in Nat
    BY <1>3, ReaderFields, Layout
  <2> QED
    BY <1>1, <1>3, <2>1, Layout DEF Placed, ReadEnd, SameLap
<1>5. y = [z EXCEPT !.available_size = ReadEnd(z, w) - z.input_index,
                    !.wrapping = LapEnd(z, w) - z.input_index
                                   < HistorySize[r] + SuggestedSize[r]]
  BY DEF ReaderAdjust, ReaderMeasure, z
<1>6. /\ y \in ReaderType
      /\ y.available_size = ReadEnd(z, w) - z.input_index
      /\ y.input_index = z.input_index /\ y.wrap_flag = z.wrap_flag
  <2>1. (LapEnd(z, w) - z.input_index < HistorySize[r] + SuggestedSize[r]) \in BOOLEAN
    OBVIOUS
  <2> QED
    BY <1>3, <1>4, <1>5, <2>1 DEF ReaderType
<1> HIDE DEF y
<1>7. ReadEnd(y, w) = ReadEnd(z, w) /\ (SameLap(y, w) <=> SameLap(z, w))
  BY <1>6 DEF ReadEnd, SameLap
<1>8. Placed(r, y, w) /\ Sized(y, w)
  BY <1>3, <1>4, <1>6, <1>7 DEF Placed, Sized
<1>9. Located(r, y, w, n, p) /\ Kept(y, w, n)
  BY <1>3, <1>6, <1>7 DEF Located, Kept
<1>10. Sized(x, w) => x.available_size <= y.available_size
  BY <1>3, <1>4, <1>6 DEF Sized
<1> QED
  BY <1>3, <1>6, <1>7, <1>8, <1>9, <1>10 DEF ReaderPlaced, y

(***************************************************************************)
(* What the writer knows of its readers.                                   *)
(***************************************************************************)
LEMMA TrackedFacts ==
  ASSUME NEW w, NEW rs, NEW n, NEW t, Buffered(w, rs, n, t), Tracked(w, rs)
  PROVE  /\ w.wrap_flag = w.min_input_wrap_flag =>
              /\ \A r \in Readers : SameLap(rs[r], w) /\ w.min_input_index <= rs[r].input_index
              /\ w.min_input_index <= w.output_index
         /\ w.wrap_flag # w.min_input_wrap_flag =>
              /\ \A r \in Readers : ~SameLap(rs[r], w) => w.min_input_index <= rs[r].input_index
              /\ Overlap <= w.output_index
              /\ w.output_index <= w.min_input_index
              /\ w.min_input_index <= w.current_size
<1>1. /\ w \in WriterType /\ rs \in [Readers -> ReaderType]
      /\ \A r \in Readers : Placed(r, rs[r], w)
  BY DEF Buffered, WriterPlaced, ReaderPlaced
<1>2. \A r \in Readers : r \in ReadersAbove(w, rs) <=> ~SameLap(rs[r], w)
  BY DEF ReadersAbove, SameLap
<1>3. CASE w.wrap_flag = w.min_input_wrap_flag
  <2>1. ReadersAbove(w, rs) = {} /\ Bounding(w, rs) = Readers
    BY <1>3 DEF Tracked, Bounding
  <2>2. PICK r \in Readers : w.min_input_index = rs[r].input_index
    BY <2>1 DEF Tracked, Bounded
  <2>3. w.min_input_index <= w.output_index
    BY <1>1, <1>2, <2>1, <2>2 DEF Placed
  <2> QED
    BY <1>2, <1>3, <2>1, <2>3 DEF Tracked, Bounded
<1>4. CASE w.wrap_flag # w.min_input_wrap_flag
  <2>1. ReadersAbove(w, rs) # {} /\ Bounding(w, rs) = ReadersAbove(w, rs)
    BY <1>4 DEF Tracked, Bounding
  <2>2. PICK r \in ReadersAbove(w, rs) : w.min_input_index = rs[r].input_index
    BY <2>1 DEF Tracked, Bounded
  <2>3. r \in Readers /\ ~SameLap(rs[r], w)
    BY <1>2 DEF ReadersAbove
  <2>4. /\ Overlap <= w.output_index /\ w.output_index <= w.min_input_index
        /\ w.min_input_index + HistorySize[r] <= w.current_size
    BY <1>1, <2>2, <2>3 DEF Placed
  <2>5. w.min_input_index <= w.current_size
    BY <1>1, <2>3, <2>4, WriterFields, Layout
  <2> QED
    BY <1>2, <1>4, <2>1, <2>4, <2>5 DEF Tracked, Bounded
<1> QED
  BY <1>3, <1>4

(* CircularBufferWriter::updateMinInputIndex: the writer comes to know its *)
(* readers, is told at least part of the space and wraps if that is due.   *)
(* When there is room for a slice it does not move and loses no space.     *)
LEMMA UpdateKeeps ==
  ASSUME NEW w, NEW rs, NEW n \in Nat, NEW t \in [Readers -> Nat],
         Buffered(w, rs, n, t), Settled(w),
         w.wrap_flag = w.min_input_wrap_flag => ReadersAbove(w, rs) = {},
         w.wrap_flag # w.min_input_wrap_flag =>
           /\ Overlap <= w.output_index
           /\ w.output_index <= w.min_input_index
           /\ \/ ReadersAbove(w, rs) # {}
              \/ \E r \in Readers : rs[r].input_index <= Overlap
  PROVE  LET v == UpdateMinInputIndex(w, rs)
         IN  /\ Buffered(v, rs, n, t)
             /\ Tracked(v, rs)
             /\ Settled(v)
             /\ (/\ w.output_index + MinOutputSize <= DataSize
                 /\ \A r \in Readers : ~SameLap(rs[r], w) => w.min_input_index <= rs[r].input_index)
                => /\ v.output_index = w.output_index
                   /\ w.available_size <= v.available_size
<1> DEFINE m == SlowestIndex(w, rs)
           f == IF ReadersAbove(w, rs) = {} THEN w.wrap_flag ELSE ~w.wrap_flag
           u == [w EXCEPT !.min_input_index = m, !.min_input_wrap_flag = f]
           v == UpdateMinInputIndex(w, rs)
<1>1. /\ w \in WriterType /\ rs \in [Readers -> ReaderType]
      /\ \A r \in Readers : Placed(r, rs[r], w)
  BY DEF Buffered, WriterPlaced, ReaderPlaced
<1>2. /\ w.output_index \in Nat /\ w.output_index <= DataSize
      /\ w.min_input_index \in Nat /\ w.min_input_index <= DataSize
      /\ w.wrap_flag \in BOOLEAN /\ w.min_input_wrap_flag \in BOOLEAN
      /\ w.available_size \in Nat
  BY <1>1, WriterFields
<1>3. \A r \in Readers : /\ r \in ReadersAbove(w, rs) <=> ~SameLap(rs[r], w)
                         /\ rs[r].input_index \in 0 .. DataSize
  BY <1>1 DEF ReadersAbove, SameLap, ReaderType
<1>4. /\ \A r \in Bounding(w, rs) : m <= rs[r].input_index
      /\ \E r \in Bounding(w, rs) : m = rs[r].input_index
  BY <1>1, SlowestBounds
<1>5. Bounding(w, rs) \subseteq Readers
  BY DEF Bounding, ReadersAbove
<1>6. m \in 0 .. DataSize /\ f \in BOOLEAN
  BY <1>2, <1>3, <1>4, <1>5
<1> HIDE DEF m, f
<1>7. /\ u \in WriterType
      /\ u.output_index = w.output_index /\ u.current_size = w.current_size
      /\ u.wrap_flag = w.wrap_flag /\ u.data = w.data
      /\ u.available_size = w.available_size
      /\ u.min_input_index = m /\ u.min_input_wrap_flag = f
  BY <1>1, <1>6 DEF WriterType
<1>8. v = IF u.min_input_index # w.min_input_index THEN WriterAdjust(u) ELSE u
  BY DEF UpdateMinInputIndex, m, f
<1> HIDE DEF u, v
<1>9. Buffered(u, rs, n, t)
  BY <1>7, SameMemory
<1>10. ReadersAbove(u, rs) = ReadersAbove(w, rs)
  BY <1>7 DEF ReadersAbove
<1>11. u.wrap_flag = u.min_input_wrap_flag <=> ReadersAbove(u, rs) = {}
  BY <1>2, <1>7, <1>10 DEF f
<1>12. Tracked(u, rs)
  BY <1>4, <1>7, <1>10, <1>11 DEF Tracked, Bounded, Bounding
<1>13. /\ u.wrap_flag = u.min_input_wrap_flag =>
            \A r \in Readers : SameLap(rs[r], u) /\ u.min_input_index <= rs[r].input_index
       /\ u.wrap_flag # u.min_input_wrap_flag => u.output_index <= u.min_input_index
  BY <1>9, <1>12, TrackedFacts
<1>14. CASE m # w.min_input_index
  <2>1. v = WriterAdjust(u)
    BY <1>7, <1>8, <1>14
  <2>2. /\ Buffered(v, rs, n, t)
        /\ v.min_input_index = u.min_input_index
        /\ v.min_input_wrap_flag = u.min_input_wrap_flag
        /\ v.available_size = WriterSpace(v)
        /\ IF MustWrap(u)
             THEN v.wrap_flag = ~u.wrap_flag
             ELSE /\ v.wrap_flag = u.wrap_flag
                  /\ v.output_index = u.output_index
        /\ ~MustWrap(v)
    BY <1>9, <1>13, <2>1, WriterAdjustKeeps
  <2>3. Settled(v)
    <3>1. v.available_size <= WriterSpace(v)
      <4>1. v.available_size \in Nat
        BY <2>2, WriterFields DEF Buffered, WriterPlaced
      <4> QED
        BY <2>2, <4>1
    <3> QED
      BY <2>2, <3>1 DEF Settled
  <2>4. Tracked(v, rs)
    <3>1. CASE MustWrap(u)
      <4>1. u.wrap_flag = u.min_input_wrap_flag /\ ReadersAbove(u, rs) = {}
        BY <1>11, <3>1 DEF MustWrap
      <4>2. Bounding(u, rs) = Readers /\ \A r \in Readers : SameLap(rs[r], u)
        BY <1>13, <4>1 DEF Bounding
      <4>3. ReadersAbove(v, rs) = Readers
        BY <1>2, <1>7, <2>2, <3>1, <4>2 DEF ReadersAbove, SameLap
      <4>4. Bounding(v, rs) = Readers
        BY <4>3 DEF Bounding
      <4>5. Bounded(v, rs)
        BY <1>12, <2>2, <4>2, <4>4 DEF Tracked, Bounded
      <4>6. v.wrap_flag # v.min_input_wrap_flag
        BY <1>2, <1>7, <2>2, <3>1, <4>1
      <4> QED
        BY <4>3, <4>5, <4>6, Layout DEF Tracked
    <3>2. CASE ~MustWrap(u)
      <4>1. ReadersAbove(v, rs) = ReadersAbove(u, rs)
        BY <2>2, <3>2 DEF ReadersAbove
      <4> QED
        BY <1>12, <2>2, <3>2, <4>1 DEF Tracked, Bounded, Bounding
    <3> QED
      BY <3>1, <3>2
  <2>5. ASSUME w.output_index + MinOutputSize <= DataSize,
               \A r \in Readers : ~SameLap(rs[r], w) => w.min_input_index <= rs[r].input_index
        PROVE  v.output_index = w.output_index /\ w.available_size <= v.available_size
    <3>1. ~MustWrap(u)
      BY <1>2, <1>7, <2>5, Layout DEF MustWrap
    <3>2. /\ v.wrap_flag = w.wrap_flag /\ v.output_index = w.output_index
          /\ v.min_input_index = m /\ v.min_input_wrap_flag = f
      BY <1>7, <2>2, <3>1
    <3>3. w.available_size <= WriterSpace(w)
      BY DEF Settled
    <3>4. CASE ReadersAbove(w, rs) = {}
      <4>1. v.available_size = DataSize - w.output_index
        BY <2>2, <3>2, <3>4 DEF WriterSpace, f
      <4> QED
        BY <1>2, <3>2, <3>3, <4>1, Layout DEF WriterSpace
    <3>5. CASE ReadersAbove(w, rs) # {}
      <4>1. w.wrap_flag # w.min_input_wrap_flag
        BY <3>5
      <4>2. v.available_size = m - w.output_index
        BY <1>2, <2>2, <3>2, <3>5 DEF WriterSpace, f
      <4>3. w.min_input_index <= m
        BY <1>3, <1>4, <1>5, <2>5, <3>5 DEF Bounding
      <4> QED
        BY <1>2, <1>6, <3>2, <3>3, <4>1, <4>2, <4>3 DEF WriterSpace
    <3> QED
      BY <3>4, <3>5
  <2> QED
    BY <2>2, <2>3, <2>4, <2>5 DEF v
<1>15. CASE m = w.min_input_index
  <2>1. v = u
    BY <1>7, <1>8, <1>15
  <2>2. w.available_size <= WriterSpace(w) /\ ~MustWrap(w)
    BY DEF Settled
  <2>3. Settled(u)
    <3>1. CASE w.wrap_flag = w.min_input_wrap_flag
      <4>1. f = w.min_input_wrap_flag
        BY <3>1 DEF f
      <4> QED
        BY <1>7, <1>15, <2>2, <4>1 DEF Settled, WriterSpace, MustWrap
    <3>2. CASE w.wrap_flag # w.min_input_wrap_flag /\ ReadersAbove(w, rs) # {}
      <4>1. f = w.min_input_wrap_flag
        BY <1>2, <3>2 DEF f
      <4> QED
        BY <1>7, <1>15, <2>2, <4>1 DEF Settled, WriterSpace, MustWrap
    <3>3. CASE w.wrap_flag # w.min_input_wrap_flag /\ ReadersAbove(w, rs) = {}
      <4>1. u.available_size <= WriterSpace(u)
        BY <1>2, <1>7, <1>11, <1>10, <2>2, <3>3, Layout DEF WriterSpace
      <4>2. PICK r \in Readers : rs[r].input_index <= Overlap
        BY <3>3
      <4>3. m <= rs[r].input_index
        BY <1>4, <3>3 DEF Bounding
      <4>4. w.output_index <= Overlap
        BY <1>2, <1>3, <1>15, <3>3, <4>2, <4>3, Layout
      <4>5. ~MustWrap(u)
        BY <1>2, <1>7, <4>4, Layout DEF MustWrap
      <4> QED
        BY <4>1, <4>5 DEF Settled
    <3> QED
      BY <3>1, <3>2, <3>3
  <2> QED
    BY <1>2, <1>7, <1>9, <1>12, <2>1, <2>3 DEF v
<1> QED
  BY <1>14, <1>15

(***************************************************************************)
(* The inductive invariant.  A block that was found large enough, or works *)
(* on a slice, still has that much: sizes only grow until it advances.     *)
(***************************************************************************)
Claimed ==
  /\ state[Source] = "Scheduled" => MinOutputSize <= writer.available_size
  /\ state[Source] = "Running" =>
       /\ slice[Source].start = writer.output_index
       /\ MinOutputSize <= slice[Source].size
       /\ slice[Source].size <= writer.available_size
  /\ \A r \in Readers :
       /\ state[r] = "Scheduled" => MinCombinedInputSize(r) <= reader[r].available_size
       /\ state[r] = "Running" => slice[r].size <= reader[r].available_size

Inv ==
  /\ TypeOK
  /\ Buffered(writer, reader, written, taken)
  /\ Tracked(writer, reader)
  /\ Settled(writer)
  /\ Claimed

(* What reset leaves, whatever is in the memory.                           *)
LEMMA ResetGives ==
  ASSUME NEW w \in WriterType, NEW rs, NEW t,
         rs = [r \in Readers |-> ReaderReset(r, {})],
         t = [r \in Readers |-> 0]
  PROVE  LET v == WriterReset(w)
         IN  Buffered(v, rs, 0, t) /\ Tracked(v, rs) /\ Settled(v)
<1> DEFINE S == {MaxHistorySize} \cup {StartIndex(r) : r \in Readers}
           m == Min(S)
           v == WriterReset(w)
<1>1. \A r \in Readers : StartIndex(r) \in Nat /\ StartIndex(r) <= MaxHistorySize
  BY Layout DEF StartIndex
<1>2. m \in S /\ \A y \in S : m <= y
  <2>1. S \in SUBSET Nat /\ S # {}
    BY <1>1, Layout
  <2> HIDE DEF S
  <2> QED
    BY <2>1, MinOfNaturals
<1>3. /\ \A r \in Readers : m <= StartIndex(r)
      /\ \E r \in Readers : m = StartIndex(r)
  <2>1. \A r \in Readers : m <= StartIndex(r)
    BY <1>2
  <2>2. CASE m = MaxHistorySize
    <3>1. PICK r \in Readers : TRUE
      BY Layout
    <3>2. m = StartIndex(r)
      <4>1. m <= StartIndex(r) /\ StartIndex(r) <= m
        BY <1>1, <2>1, <2>2
      <4> HIDE DEF m
      <4> QED
        BY <1>1, <2>2, <4>1, Layout
    <3> QED
      BY <2>1, <3>2
  <2>3. CASE m # MaxHistorySize
    BY <1>2, <2>1, <2>3
  <2> QED
    BY <2>2, <2>3
<1> HIDE DEF m
<1>4. m \in 0 .. DataSize
  <2>1. PICK r \in Readers : m = StartIndex(r)
    BY <1>3
  <2> QED
    BY <1>1, <2>1, Layout
<1>5. /\ v \in WriterType
      /\ v.current_size = DataSize /\ v.output_index = MaxHistorySize
      /\ v.wrap_flag = FALSE /\ v.min_input_wrap_flag = FALSE
      /\ v.min_input_index = m
      /\ v.available_size = DataSize - MaxHistorySize
  <2>1. v = [w EXCEPT !.current_size = DataSize, !.wrap_flag = FALSE,
                      !.min_input_wrap_flag = FALSE, !.wrapping = FALSE,
                      !.output_index = MaxHistorySize, !.min_input_index = m,
                      !.available_size = DataSize - MaxHistorySize]
    BY DEF WriterReset, m
  <2>2. /\ DataSize \in 0 .. DataSize /\ MaxHistorySize \in 0 .. DataSize
        /\ DataSize - MaxHistorySize \in 0 .. DataSize
    BY Layout
  <2> QED
    BY <1>4, <2>1, <2>2 DEF WriterType
<1> HIDE DEF v
<1>6. \A r \in Readers : /\ rs[r] \in ReaderType
                         /\ rs[r].input_index = StartIndex(r)
                         /\ rs[r].available_size = 0
                         /\ rs[r].wrap_flag = FALSE
  <2> TAKE r \in Readers
  <2>1. rs[r] = [input_index |-> StartIndex(r), wrap_flag |-> FALSE,
                 available_size |-> 0, wrapping |-> FALSE]
    BY DEF ReaderReset
  <2>2. StartIndex(r) \in 0 .. DataSize /\ 0 \in 0 .. DataSize
    BY <1>1, Layout
  <2> DEFINE i == StartIndex(r)
  <2> HIDE DEF i
  <2>3. rs[r] = [input_index |-> i, wrap_flag |-> FALSE,
                 available_size |-> 0, wrapping |-> FALSE]
    BY <2>1 DEF i
  <2>4. rs[r].input_index = i /\ rs[r].available_size = 0 /\ rs[r].wrap_flag = FALSE
    BY <2>3
  <2>5. rs[r] \in ReaderType
    <3>1. i \in 0 .. DataSize /\ 0 \in 0 .. DataSize
      BY <2>2 DEF i
    <3>2. \A a, c \in BOOLEAN : \A k, l \in 0 .. DataSize :
            [input_index |-> k, wrap_flag |-> a, available_size |-> l, wrapping |-> c] \in ReaderType
      BY DEF ReaderType
    <3> QED
      BY <2>3, <3>1, <3>2
  <2> QED
    BY <2>4, <2>5 DEF i
<1>7. rs \in [Readers -> ReaderType] /\ \A r \in Readers : SameLap(rs[r], v)
  BY <1>5, <1>6 DEF SameLap
<1>8. Stored(v, 0)
  BY <1>5, Layout DEF Stored, ThisLap
<1>9. ASSUME NEW r \in Readers PROVE ReaderPlaced(r, rs[r], v, 0, t[r]) /\ Sized(rs[r], v)
  <2>1. Placed(r, rs[r], v) /\ Sized(rs[r], v)
    BY <1>1, <1>5, <1>6, <1>7, Layout DEF Placed, Sized, ReadEnd, SameLap, StartIndex
  <2>2. Located(r, rs[r], v, 0, t[r])
    BY <1>5, <1>6, <1>7, Layout DEF Located, ThisLap, StartIndex
  <2>3. Kept(rs[r], v, 0)
    BY <1>7 DEF Kept
  <2> QED
    BY <1>6, <2>1, <2>2, <2>3 DEF ReaderPlaced
<1>10. Buffered(v, rs, 0, t)
  BY <1>5, <1>7, <1>8, <1>9, Layout DEF Buffered, WriterPlaced
<1>11. Tracked(v, rs)
  <2>1. ReadersAbove(v, rs) = {}
    BY <1>7 DEF ReadersAbove, SameLap
  <2> QED
    BY <1>3, <1>5, <1>6, <2>1 DEF Tracked, Bounded, Bounding
<1>12. Settled(v)
  <2>1. v.wrap_flag = v.min_input_wrap_flag
    BY <1>5
  <2> QED
    BY <1>5, <2>1, Layout DEF Settled, WriterSpace, MustWrap
<1> QED
  BY <1>10, <1>11, <1>12 DEF v

LEMMA SourceIsNoReader ==
  Source \in Blocks /\ \A r \in Readers : r # Source /\ r \in Blocks
  BY Layout DEF Blocks

LEMMA InitInv == Init => Inv
<1> SUFFICES ASSUME Init PROVE Inv
  OBVIOUS
<1> DEFINE w == [output_index |-> 0, current_size |-> DataSize, wrap_flag |-> FALSE,
                 min_input_index |-> DataSize, min_input_wrap_flag |-> FALSE,
                 available_size |-> DataSize, wrapping |-> FALSE,
                 data |-> [i \in Cells |-> NoData]]
<1>1. w \in WriterType
  <2>1. 0 \in 0 .. DataSize /\ DataSize \in 0 .. DataSize
    BY Layout
  <2> QED
    BY <2>1 DEF WriterType
<1>2. writer = WriterReset(w)
  BY DEF Init, NewWriter
<1> HIDE DEF w
<1>3. Buffered(writer, reader, written, taken) /\ Tracked(writer, reader) /\ Settled(writer)
  BY <1>1, <1>2, ResetGives DEF Init
<1>4. TypeOK
  <2>1. writer \in WriterType /\ reader \in [Readers -> ReaderType]
    BY <1>3 DEF Buffered, WriterPlaced
  <2>2. slice \in [Blocks -> [start : 0 .. DataSize, size : 0 .. DataSize]]
    BY Layout DEF Init, NoSlice
  <2>3. written \in 0 .. StreamLength /\ resets \in 0 .. MaxResets /\ taken \in [Readers -> Nat]
    BY SizesAssumption DEF Init
  <2>4. relaxed_mode \in BOOLEAN /\ eof \in BOOLEAN
    BY DEF Init
  <2>5. state \in [Blocks -> {"Idle", "Scheduled", "Running"}]
    BY DEF Init
  <2> QED
    BY <2>1, <2>2, <2>3, <2>4, <2>5 DEF TypeOK
<1>5. Claimed
  <2>1. \A b \in Blocks : state[b] = "Idle"
    BY DEF Init
  <2> QED
    BY <2>1, SourceIsNoReader DEF Claimed
<1> QED
  BY <1>3, <1>4, <1>5 DEF Inv

LEMMA TypeParts ==
  ASSUME TypeOK
  PROVE  /\ writer \in WriterType /\ reader \in [Readers -> ReaderType]
         /\ state \in [Blocks -> {"Idle", "Scheduled", "Running"}]
         /\ slice \in [Blocks -> [start : 0 .. DataSize, size : 0 .. DataSize]]
         /\ \A b \in Blocks : slice[b].start \in Nat /\ slice[b].size \in Nat
         /\ written \in Nat /\ written <= StreamLength
         /\ taken \in [Readers -> Nat]
BY Layout, SizesAssumption DEF TypeOK

(* The steps that leave the buffer alone.                                  *)
LEMMA ScheduleKeeps ==
  ASSUME Inv, NEW b \in Blocks, Schedule(b) PROVE Inv'
<1>1. TypeOK'
  BY DEF Inv, TypeOK, Schedule
<1>2. Claimed'
  <2>1. CASE b = Source
    <3>1. MinOutputSize <= writer.available_size
      BY <2>1, TypeParts, WriterFields, Layout
      DEF Schedule, Schedulable, OutputThreshold, Inv
    <3> QED
      BY <2>1, <3>1, TypeParts, SourceIsNoReader DEF Inv, Claimed, Schedule
  <2>2. CASE b \in Readers
    <3>1. reader[b] \in ReaderType
      BY <2>2, TypeParts DEF Inv
    <3>2. MinCombinedInputSize(b) <= reader[b].available_size
      BY <2>2, <3>1, SourceIsNoReader, ReaderFields, Layout
      DEF Schedule, Schedulable, InputThreshold, MinCombinedInputSize
    <3> QED
      BY <2>2, <3>2, TypeParts, SourceIsNoReader DEF Inv, Claimed, Schedule
  <2> QED
    BY <2>1, <2>2 DEF Blocks
<1> QED
  BY <1>1, <1>2 DEF Inv, Schedule

LEMMA SlicesKeep ==
  ASSUME Inv,
         \/ EnterRelaxedMode
         \/ WriterSlice
         \/ SourceEof
         \/ \E r \in Readers : ReaderSlice(r)
  PROVE  Inv'
<1> USE DEF Finish
<1>1. CASE EnterRelaxedMode
  BY <1>1 DEF Inv, TypeOK, Claimed, EnterRelaxedMode
<1>2. CASE WriterSlice
  <2>1. TypeOK'
    BY <1>2, TypeParts, SourceIsNoReader DEF Inv, TypeOK, WriterSlice, WriterType
  <2>2. Claimed'
    BY <1>2, TypeParts, WriterFields, SourceIsNoReader DEF Inv, Claimed, WriterSlice
  <2> QED
    BY <1>2, <2>1, <2>2 DEF Inv, WriterSlice
<1>3. CASE SourceEof
  <2>1. NoSlice \in [start : 0 .. DataSize, size : 0 .. DataSize]
    BY Layout DEF NoSlice
  <2>2. TypeOK'
    BY <1>3, <2>1 DEF Inv, TypeOK, SourceEof
  <2>3. Claimed'
    BY <1>3, TypeParts, SourceIsNoReader DEF Inv, Claimed, SourceEof
  <2> QED
    BY <1>3, <2>2, <2>3 DEF Inv, SourceEof
<1>4. ASSUME NEW r \in Readers, ReaderSlice(r) PROVE Inv'
  <2>1. TypeOK'
    BY <1>4, TypeParts, SourceIsNoReader DEF Inv, TypeOK, ReaderSlice, ReaderType
  <2>2. Claimed'
    BY <1>4, TypeParts, ReaderFields, SourceIsNoReader DEF Inv, Claimed, ReaderSlice
  <2> QED
    BY <1>4, <2>1, <2>2 DEF Inv, ReaderSlice
<1> QED
  BY <1>1, <1>2, <1>3, <1>4

LEMMA ResetKeeps ==
  ASSUME ResetAfterSource = {}, Inv, Reset PROVE Inv'
<1>1. /\ Buffered(WriterReset(writer), reader', 0, taken')
      /\ Tracked(WriterReset(writer), reader') /\ Settled(WriterReset(writer))
  BY TypeParts, ResetGives DEF Inv, Reset
<1>2. Buffered(writer', reader', written', taken') /\ Tracked(writer', reader') /\ Settled(writer')
  BY <1>1 DEF Reset
<1>3. TypeOK'
  BY <1>2, SizesAssumption DEF Inv, TypeOK, Reset, Buffered, WriterPlaced
<1>4. Claimed'
  <2>1. \A b \in Blocks : state'[b] = "Idle"
    BY DEF Reset
  <2> QED
    BY <2>1, SourceIsNoReader DEF Claimed
<1> QED
  BY <1>2, <1>3, <1>4 DEF Inv

(* CircularBufferWriter::advance: w is the writer after adjust(), which     *)
(* the readers and then updateMinInputIndex see.                           *)
LEMMA WriterAdvances ==
  ASSUME Inv, NEW k \in 1 .. DataSize, WriterAdvance(k)
  PROVE  \E w :
           /\ writer' = UpdateMinInputIndex(w, reader')
           /\ reader' = [r \in Readers |-> ReaderAdjust(r, reader[r], w)]
           /\ Buffered(w, reader, written + k, taken)
           /\ Buffered(w, reader', written + k, taken)
           /\ Settled(w) /\ w.available_size = WriterSpace(w)
           /\ w.wrap_flag = w.min_input_wrap_flag => ReadersAbove(w, reader') = {}
           /\ w.wrap_flag # w.min_input_wrap_flag =>
                /\ Overlap <= w.output_index
                /\ w.output_index <= w.min_input_index
                /\ \/ ReadersAbove(w, reader') # {}
                   \/ \E r \in Readers : reader'[r].input_index <= Overlap
           /\ \E u \in WriterType : w = WriterAdjust(u)
           /\ \/ /\ w.wrap_flag = writer.wrap_flag
                 /\ w.min_input_wrap_flag = writer.min_input_wrap_flag
                 /\ writer.output_index <= w.output_index
              \/ \A r \in Readers : ~SameLap(reader[r], w)
           /\ \A r \in Readers : reader[r].available_size <= reader'[r].available_size
<1> DEFINE d == [i \in Cells |-> IF i \in writer.output_index .. writer.output_index + k - 1
                                   THEN written + (i - writer.output_index)
                                   ELSE writer.data[i]]
           u == [writer EXCEPT !.data = d, !.output_index = writer.output_index + k]
           w == WriterAdjust(u)
           rs == [r \in Readers |-> ReaderAdjust(r, reader[r], w)]
<1>1. /\ writer \in WriterType /\ reader \in [Readers -> ReaderType]
      /\ written \in Nat /\ taken \in [Readers -> Nat] /\ k \in Nat /\ 0 < k
      /\ \A b \in Blocks : slice[b].start \in Nat /\ slice[b].size \in Nat
      /\ writer.output_index \in Nat /\ writer.output_index <= DataSize
      /\ writer.min_input_index \in Nat /\ writer.min_input_index <= DataSize
      /\ writer.available_size \in Nat
  BY TypeParts, WriterFields, Layout DEF Inv
<1>2. /\ Buffered(writer, reader, written, taken) /\ Tracked(writer, reader) /\ Settled(writer)
  BY DEF Inv
<1>3. /\ slice[Source].start = writer.output_index
      /\ k <= slice[Source].size /\ slice[Source].size <= writer.available_size
      /\ written + k <= StreamLength
  BY <1>1, SourceIsNoReader DEF WriterAdvance, Inv, Claimed
<1>4. /\ writer' = UpdateMinInputIndex(w, rs) /\ reader' = rs
      /\ written' = written + k /\ taken' = taken
      /\ state' = [state EXCEPT ![Source] = "Idle"]
      /\ slice' = [slice EXCEPT ![Source] = NoSlice]
      /\ UNCHANGED <<relaxed_mode, eof, resets>>
  BY <1>3 DEF WriterAdvance, Finish, Filled
<1>5. /\ writer.output_index + k <= DataSize
      /\ writer.wrap_flag = writer.min_input_wrap_flag =>
           \A r \in Readers : /\ SameLap(reader[r], writer)
                              /\ writer.min_input_index <= reader[r].input_index
      /\ writer.wrap_flag # writer.min_input_wrap_flag =>
           /\ Overlap <= writer.output_index
           /\ writer.output_index + k <= writer.min_input_index
           /\ \A r \in Readers : ~SameLap(reader[r], writer) =>
                                   writer.min_input_index <= reader[r].input_index
  <2>1. k <= WriterSpace(writer)
    BY <1>1, <1>2, <1>3, SourceIsNoReader, Layout DEF Settled, WriterSpace
  <2> QED
    BY <1>1, <1>2, <2>1, TrackedFacts, Layout DEF WriterSpace
<1>6. \A r \in Readers : ~SameLap(reader[r], writer) =>
                           writer.output_index + k <= reader[r].input_index
  <2> TAKE r \in Readers
  <2>1. reader[r].input_index \in Nat
    BY <1>1, ReaderFields
  <2> QED
    BY <1>1, <1>5, <2>1
<1>7. /\ d \in [Cells -> {NoData} \cup Nat]
      /\ \A i \in Cells : d[i] = IF i \in writer.output_index .. writer.output_index + k - 1
                                   THEN written + (i - writer.output_index)
                                   ELSE writer.data[i]
  <2>1. writer.data \in [Cells -> {NoData} \cup Nat]
    BY <1>1, WriterFields
  <2>2. ASSUME NEW i \in Cells
        PROVE  d[i] \in {NoData} \cup Nat
    <3>1. i \in Int /\ writer.data[i] \in {NoData} \cup Nat
      BY <2>1, Layout DEF Cells
    <3>2. i \in writer.output_index .. writer.output_index + k - 1 =>
            written + (i - writer.output_index) \in Nat
      BY <1>1, <3>1
    <3> QED
      BY <3>1, <3>2
  <2> QED
    BY <2>2
<1> HIDE DEF d
<1>8. Buffered(u, reader, written + k, taken)
  BY <1>1, <1>2, <1>5, <1>6, <1>7, FillKeeps
<1>9. /\ u.output_index = writer.output_index + k
      /\ u.wrap_flag = writer.wrap_flag
      /\ u.min_input_index = writer.min_input_index
      /\ u.min_input_wrap_flag = writer.min_input_wrap_flag
  BY <1>1 DEF WriterType
<1> HIDE DEF u
<1>10. written + k \in Nat /\ w = WriterAdjust(u)
  BY <1>1
<1>11. /\ Buffered(w, reader, written + k, taken)
       /\ w.min_input_index = u.min_input_index
       /\ w.min_input_wrap_flag = u.min_input_wrap_flag
       /\ w.available_size = WriterSpace(w)
       /\ w.wrap_flag # w.min_input_wrap_flag => w.output_index <= w.min_input_index
       /\ IF MustWrap(u) THEN w.wrap_flag = ~u.wrap_flag /\ w.output_index = Overlap
                         ELSE w.wrap_flag = u.wrap_flag /\ w.output_index = u.output_index
       /\ ~MustWrap(w)
  <2>1. \A r \in Readers : SameLap(reader[r], u) <=> SameLap(reader[r], writer)
    BY <1>9 DEF SameLap
  <2> QED
    BY <1>1, <1>5, <1>8, <1>9, <1>10, <2>1, WriterAdjustKeeps
<1> HIDE DEF w
<1>12. ASSUME NEW r \in Readers
       PROVE  /\ ReaderPlaced(r, rs[r], w, written + k, taken[r]) /\ Sized(rs[r], w)
              /\ reader[r].available_size <= rs[r].available_size
              /\ \/ SameLap(rs[r], w) <=> SameLap(reader[r], w)
                 \/ SameLap(rs[r], w) /\ rs[r].input_index <= Overlap
  <2>1. /\ WriterPlaced(w) /\ Sized(reader[r], w)
        /\ ReaderPlaced(r, reader[r], w, written + k, taken[r])
    BY <1>11 DEF Buffered
  <2>2. rs[r] = ReaderAdjust(r, reader[r], w) /\ taken[r] \in Nat
    BY <1>1
  <2> DEFINE x == reader[r]
             p == taken[r]
             y == ReaderAdjust(r, x, w)
  <2>3. /\ ReaderPlaced(r, y, w, written + k, p) /\ Sized(y, w)
        /\ x.available_size <= y.available_size
        /\ \/ SameLap(y, w) <=> SameLap(x, w)
           \/ SameLap(y, w) /\ y.input_index <= Overlap
    <3>1. /\ WriterPlaced(w) /\ Sized(x, w) /\ p \in Nat
          /\ ReaderPlaced(r, x, w, written + k, p)
      BY <2>1, <2>2
    <3> HIDE DEF x, p
    <3> QED
      BY <1>10, <3>1, ReaderAdjustKeeps
  <2> HIDE DEF rs
  <2> QED
    BY <2>2, <2>3, Zenon
<1>13. Buffered(w, rs, written + k, taken)
  <2>1. \A r \in Readers : rs[r] \in ReaderType
    BY <1>12 DEF ReaderPlaced
  <2>2. rs \in [Readers -> ReaderType]
    BY <2>1
  <2> HIDE DEF rs
  <2> QED
    BY <1>11, <1>12, <2>2 DEF Buffered
<1> HIDE DEF rs
<1>14. Settled(w)
  <2>1. w.available_size \in Nat
    BY <1>11, WriterFields DEF Buffered, WriterPlaced
  <2> QED
    BY <1>11, <2>1 DEF Settled
<1>15. w.wrap_flag = w.min_input_wrap_flag => ReadersAbove(w, rs) = {}
  <2> SUFFICES ASSUME w.wrap_flag = w.min_input_wrap_flag, NEW r \in Readers
               PROVE  SameLap(rs[r], w)
    BY DEF ReadersAbove, SameLap
  <2>1. ~MustWrap(u)
    BY <1>1, <1>9, <1>11, WriterFields DEF MustWrap
  <2>2. SameLap(reader[r], w)
    BY <1>5, <1>9, <1>11, <2>1 DEF SameLap
  <2> QED
    BY <1>12, <2>2
<1>16. w.wrap_flag # w.min_input_wrap_flag =>
         /\ Overlap <= w.output_index
         /\ w.output_index <= w.min_input_index
         /\ \/ ReadersAbove(w, rs) # {}
            \/ \E r \in Readers : rs[r].input_index <= Overlap
  <2> SUFFICES ASSUME w.wrap_flag # w.min_input_wrap_flag
               PROVE  /\ Overlap <= w.output_index
                      /\ \/ ReadersAbove(w, rs) # {}
                         \/ \E r \in Readers : rs[r].input_index <= Overlap
    BY <1>11
  <2>1. Overlap <= w.output_index
    <3>1. CASE MustWrap(u)
      BY <1>11, <3>1, Layout
    <3>2. CASE ~MustWrap(u)
      BY <1>1, <1>5, <1>9, <1>11, <3>2, Layout
    <3> QED
      BY <3>1, <3>2
  <2>2. PICK r \in Readers : ~SameLap(reader[r], w)
    <3>1. CASE MustWrap(u)
      <4>1. PICK r \in Readers : TRUE
        BY Layout
      <4>2. SameLap(reader[r], writer)
        BY <1>5, <1>9, <3>1 DEF MustWrap
      <4> QED
        BY <1>1, <1>9, <1>11, <3>1, <4>2, WriterFields DEF SameLap
    <3>2. CASE ~MustWrap(u)
      <4>1. ReadersAbove(writer, reader) # {}
        BY <1>2, <1>9, <1>11, <3>2 DEF Tracked
      <4> QED
        BY <1>9, <1>11, <3>2, <4>1 DEF ReadersAbove, SameLap
    <3> QED
      BY <3>1, <3>2
  <2>3. SameLap(rs[r], w) => rs[r].input_index <= Overlap
    BY <1>12, <2>2
  <2>4. ~SameLap(rs[r], w) => r \in ReadersAbove(w, rs)
    BY DEF ReadersAbove, SameLap
  <2> QED
    BY <2>1, <2>3, <2>4
<1>17. u \in WriterType
  BY <1>8 DEF Buffered, WriterPlaced
<1>18. \/ /\ w.wrap_flag = writer.wrap_flag
          /\ w.min_input_wrap_flag = writer.min_input_wrap_flag
          /\ writer.output_index <= w.output_index
       \/ \A r \in Readers : ~SameLap(reader[r], w)
  <2>1. CASE MustWrap(u)
    <3>1. writer.wrap_flag = writer.min_input_wrap_flag /\ w.wrap_flag = ~writer.wrap_flag
      BY <1>9, <1>11, <2>1 DEF MustWrap
    <3>2. writer.wrap_flag \in BOOLEAN
      BY <1>1, WriterFields
    <3> QED
      BY <1>5, <3>1, <3>2 DEF SameLap
  <2>2. CASE ~MustWrap(u)
    BY <1>1, <1>9, <1>11, <2>2
  <2> QED
    BY <2>1, <2>2
<1>19. rs = [r \in Readers |-> ReaderAdjust(r, reader[r], w)]
  BY DEF rs
<1> QED
  BY <1>4, <1>10, <1>11, <1>12, <1>13, <1>14, <1>15, <1>16, <1>17, <1>18, <1>19

LEMMA WriterAdvanceKeeps ==
  ASSUME Inv, NEW k \in 1 .. DataSize, WriterAdvance(k) PROVE Inv'
<1>1. PICK w :
        /\ writer' = UpdateMinInputIndex(w, reader')
        /\ Buffered(w, reader', written + k, taken)
        /\ Settled(w)
        /\ w.wrap_flag = w.min_input_wrap_flag => ReadersAbove(w, reader') = {}
        /\ w.wrap_flag # w.min_input_wrap_flag =>
             /\ Overlap <= w.output_index
             /\ w.output_index <= w.min_input_index
             /\ \/ ReadersAbove(w, reader') # {}
                \/ \E r \in Readers : reader'[r].input_index <= Overlap
        /\ \A r \in Readers : reader[r].available_size <= reader'[r].available_size
  BY WriterAdvances
<1>2. /\ written' = written + k /\ taken' = taken /\ written + k <= StreamLength
      /\ state' = [state EXCEPT ![Source] = "Idle"]
      /\ slice' = [slice EXCEPT ![Source] = NoSlice]
      /\ UNCHANGED <<relaxed_mode, eof, resets>>
  BY DEF WriterAdvance, Finish
<1>3. /\ written \in Nat /\ written + k \in Nat /\ taken \in [Readers -> Nat]
      /\ reader \in [Readers -> ReaderType]
      /\ \A b \in Blocks : slice[b].size \in Nat
  BY TypeParts, Layout DEF Inv
<1>4. Buffered(writer', reader', written', taken') /\ Tracked(writer', reader') /\ Settled(writer')
  <2> DEFINE rs == reader'
  <2> HIDE DEF rs
  <2>1. LET v == UpdateMinInputIndex(w, rs)
        IN  Buffered(v, rs, written + k, taken) /\ Tracked(v, rs) /\ Settled(v)
    BY <1>1, <1>3, UpdateKeeps DEF rs
  <2> QED
    BY <1>1, <1>2, <2>1 DEF rs
<1>5. TypeOK'
  <2>1. writer' \in WriterType /\ reader' \in [Readers -> ReaderType]
    BY <1>4 DEF Buffered, WriterPlaced
  <2>2. NoSlice \in [start : 0 .. DataSize, size : 0 .. DataSize]
    BY Layout DEF NoSlice
  <2>3. written' \in 0 .. StreamLength
    BY <1>2, <1>3, SizesAssumption
  <2> QED
    BY <1>2, <2>1, <2>2, <2>3 DEF Inv, TypeOK
<1>6. Claimed'
  <2>1. state'[Source] = "Idle" /\ \A r \in Readers : state'[r] = state[r] /\ slice'[r] = slice[r]
    BY <1>2, TypeParts, SourceIsNoReader DEF Inv
  <2>2. ASSUME NEW r \in Readers
        PROVE  /\ state[r] = "Scheduled" => MinCombinedInputSize(r) <= reader'[r].available_size
               /\ state[r] = "Running" => slice[r].size <= reader'[r].available_size
    <3>1. /\ state[r] = "Scheduled" => MinCombinedInputSize(r) <= reader[r].available_size
          /\ state[r] = "Running" => slice[r].size <= reader[r].available_size
      BY DEF Inv, Claimed
    <3>2. /\ reader[r].available_size \in Nat /\ slice[r].size \in Nat
          /\ MinCombinedInputSize(r) \in Nat
      BY <1>3, ReaderFields, SourceIsNoReader, Layout DEF MinCombinedInputSize
    <3>3. reader'[r].available_size \in Nat
      BY <1>4, ReaderFields DEF Buffered
    <3> QED
      BY <1>1, <3>1, <3>2, <3>3
  <2> QED
    BY <2>1, <2>2 DEF Claimed
<1> QED
  BY <1>4, <1>5, <1>6 DEF Inv

(* CircularBufferReader::advance: z is the reader before adjust().          *)
LEMMA ReaderAdvances ==
  ASSUME Inv, NEW r \in Readers, NEW k \in 1 .. DataSize, ReaderAdvance(r, k)
  PROVE  /\ writer' = UpdateMinInputIndex(writer, reader')
         /\ Buffered(writer, reader', written, taken') /\ taken' \in [Readers -> Nat]
         /\ \E z \in ReaderType :
              /\ reader' = [reader EXCEPT ![r] = ReaderAdjust(r, z, writer)]
              /\ Placed(r, z, writer)
              /\ z.input_index + HistorySize[r] <= ReadEnd(z, writer)
         /\ writer.wrap_flag = writer.min_input_wrap_flag => ReadersAbove(writer, reader') = {}
         /\ writer.wrap_flag # writer.min_input_wrap_flag =>
              /\ Overlap <= writer.output_index
              /\ writer.output_index <= writer.min_input_index
              /\ \/ ReadersAbove(writer, reader') # {}
                 \/ \E q \in Readers : reader'[q].input_index <= Overlap
         /\ \A q \in Readers : ~SameLap(reader'[q], writer) =>
                                writer.min_input_index <= reader'[q].input_index
<1> DEFINE x == reader[r]
           z == [x EXCEPT !.input_index = x.input_index + k]
           y == ReaderAdjust(r, z, writer)
           rs == [reader EXCEPT ![r] = y]
           t == [taken EXCEPT ![r] = taken[r] + k]
<1>1. /\ writer \in WriterType /\ reader \in [Readers -> ReaderType]
      /\ written \in Nat /\ taken \in [Readers -> Nat] /\ k \in Nat /\ 0 < k
      /\ \A b \in Blocks : slice[b].start \in Nat /\ slice[b].size \in Nat
      /\ writer.output_index \in Nat /\ writer.output_index <= DataSize
      /\ writer.min_input_index \in Nat /\ writer.min_input_index <= DataSize
      /\ writer.available_size \in Nat
      /\ writer.current_size \in Nat /\ writer.current_size <= DataSize
      /\ x \in ReaderType /\ x.input_index \in Nat /\ x.available_size \in Nat
      /\ HistorySize[r] \in Nat /\ Delay[r] \in Nat
  BY TypeParts, WriterFields, ReaderFields, Layout DEF Inv
<1>2. /\ Buffered(writer, reader, written, taken) /\ Tracked(writer, reader) /\ Settled(writer)
      /\ WriterPlaced(writer)
      /\ Placed(r, x, writer) /\ Sized(x, writer) /\ Kept(x, writer, written)
      /\ Located(r, x, writer, written, taken[r])
  BY DEF Inv, Buffered, ReaderPlaced
<1>3. k <= slice[r].size - HistorySize[r] /\ slice[r].size <= x.available_size
  BY <1>1, SourceIsNoReader DEF ReaderAdvance, Inv, Claimed
<1>4. /\ writer' = UpdateMinInputIndex(writer, rs) /\ reader' = rs
      /\ written' = written /\ taken' = t
      /\ state' = [state EXCEPT ![r] = "Idle"]
      /\ slice' = [slice EXCEPT ![r] = NoSlice]
      /\ UNCHANGED <<relaxed_mode, eof, resets>>
  BY DEF ReaderAdvance, Finish
<1>5. x.input_index + k + HistorySize[r] <= ReadEnd(x, writer) /\ ReadEnd(x, writer) <= DataSize
  <2>1. ReadEnd(x, writer) \in Nat /\ ReadEnd(x, writer) <= DataSize /\ slice[r].size \in Nat
    BY <1>1, SourceIsNoReader DEF ReadEnd
  <2> QED
    BY <1>1, <1>2, <1>3, <2>1 DEF Sized
<1>6. /\ z \in ReaderType /\ z.input_index = x.input_index + k
      /\ z.wrap_flag = x.wrap_flag
  <2>1. x.input_index + k \in 0 .. DataSize
    <3>1. ReadEnd(x, writer) \in Nat
      BY <1>1 DEF ReadEnd
    <3> QED
      BY <1>1, <1>5, <3>1, Layout
  <2> QED
    BY <1>1, <2>1 DEF ReaderType
<1>7. ReaderPlaced(r, z, writer, written, t[r])
  <2> HIDE DEF z, x
  <2>1. (SameLap(z, writer) <=> SameLap(x, writer)) /\ t[r] = taken[r] + k /\ taken[r] \in Nat
    BY <1>1, <1>6 DEF SameLap
  <2>2. Placed(r, z, writer)
    BY <1>1, <1>2, <1>5, <1>6, <2>1, Layout DEF Placed, ReadEnd, SameLap
  <2>3. Located(r, z, writer, written, t[r])
    <3> HIDE DEF t
    <3> QED
      BY <1>1, <1>2, <1>6, <2>1, Layout DEF Located, ThisLap, PreviousLap
  <2>4. Kept(z, writer, written)
    BY <1>1, <1>2, <1>6, <2>1 DEF Kept
  <2> QED
    BY <1>6, <2>2, <2>3, <2>4 DEF ReaderPlaced
<1>8. /\ ReaderPlaced(r, y, writer, written, t[r]) /\ Sized(y, writer)
      /\ \/ (SameLap(y, writer) <=> SameLap(z, writer)) /\ y.input_index = z.input_index
         \/ ~SameLap(z, writer) /\ SameLap(y, writer) /\ y.input_index <= Overlap
  <2> DEFINE p == t[r]
  <2>1. /\ WriterPlaced(writer) /\ written \in Nat /\ p \in Nat
        /\ ReaderPlaced(r, z, writer, written, p)
    BY <1>1, <1>2, <1>7
  <2> HIDE DEF p, t, z
  <2>2. /\ ReaderPlaced(r, y, writer, written, p) /\ Sized(y, writer)
        /\ \/ (SameLap(y, writer) <=> SameLap(z, writer)) /\ y.input_index = z.input_index
           \/ ~SameLap(z, writer) /\ SameLap(y, writer) /\ y.input_index <= Overlap
    BY <2>1, ReaderAdjustKeeps
  <2> QED
    BY <2>2 DEF p
<1>9. /\ rs \in [Readers -> ReaderType] /\ rs[r] = y
      /\ \A q \in Readers : q # r => rs[q] = reader[q] /\ t[q] = taken[q]
      /\ t \in [Readers -> Nat]
  <2>1. y \in ReaderType
    BY <1>8 DEF ReaderPlaced
  <2> HIDE DEF y
  <2> QED
    BY <1>1, <2>1
<1>10. SameLap(z, writer) <=> SameLap(x, writer)
  BY <1>6 DEF SameLap
<1> HIDE DEF rs, t, y, z
<1>11. Buffered(writer, rs, written, t)
  <2>1. \A q \in Readers : ReaderPlaced(q, rs[q], writer, written, t[q]) /\ Sized(rs[q], writer)
    BY <1>2, <1>8, <1>9 DEF Buffered
  <2> QED
    BY <1>2, <1>9, <2>1 DEF Buffered
<1>12. \A q \in Readers : /\ q \in ReadersAbove(writer, rs) <=> ~SameLap(rs[q], writer)
                          /\ q \in ReadersAbove(writer, reader) <=> ~SameLap(reader[q], writer)
  BY DEF ReadersAbove, SameLap
<1>13. writer.wrap_flag = writer.min_input_wrap_flag => ReadersAbove(writer, rs) = {}
  <2> SUFFICES ASSUME writer.wrap_flag = writer.min_input_wrap_flag, NEW q \in Readers
               PROVE  SameLap(rs[q], writer)
    BY DEF ReadersAbove, SameLap
  <2>1. SameLap(reader[q], writer) /\ SameLap(x, writer)
    BY <1>2, TrackedFacts
  <2> QED
    BY <1>8, <1>9, <1>10, <2>1
<1>14. writer.wrap_flag # writer.min_input_wrap_flag =>
         /\ Overlap <= writer.output_index
         /\ writer.output_index <= writer.min_input_index
         /\ \/ ReadersAbove(writer, rs) # {}
            \/ \E q \in Readers : rs[q].input_index <= Overlap
  <2> SUFFICES ASSUME writer.wrap_flag # writer.min_input_wrap_flag,
                      ReadersAbove(writer, rs) = {}
               PROVE  \E q \in Readers : rs[q].input_index <= Overlap
    BY <1>2, TrackedFacts
  <2>1. PICK q \in Readers : ~SameLap(reader[q], writer)
    BY <1>2, <1>12 DEF Tracked, ReadersAbove
  <2>2. SameLap(rs[q], writer)
    BY <1>12
  <2>3. q = r
    BY <1>9, <2>1, <2>2
  <2> QED
    BY <1>8, <1>9, <1>10, <2>1, <2>2, <2>3
<1>15. ASSUME NEW q \in Readers, ~SameLap(rs[q], writer)
       PROVE  writer.min_input_index <= rs[q].input_index
  <2>1. CASE q = r
    <3>1. ~SameLap(x, writer) /\ rs[q].input_index = x.input_index + k
      BY <1>6, <1>8, <1>9, <1>10, <1>15, <2>1
    <3>2. writer.min_input_index <= x.input_index
      BY <1>2, <3>1, TrackedFacts
    <3> QED
      BY <1>1, <3>1, <3>2
  <2>2. CASE q # r
    BY <1>2, <1>9, <1>15, <2>2, TrackedFacts
  <2> QED
    BY <2>1, <2>2
<1>16. z.input_index + HistorySize[r] <= ReadEnd(z, writer)
  BY <1>5, <1>6 DEF ReadEnd
<1>17. Placed(r, z, writer) /\ rs = [reader EXCEPT ![r] = ReaderAdjust(r, z, writer)]
  BY <1>7 DEF ReaderPlaced, rs, y
<1> QED
  BY <1>4, <1>6, <1>9, <1>11, <1>13, <1>14, <1>15, <1>16, <1>17

LEMMA ReaderAdvanceKeeps ==
  ASSUME Inv, NEW r \in Readers, NEW k \in 1 .. DataSize, ReaderAdvance(r, k) PROVE Inv'
<1> DEFINE rs == reader'
<1>1. /\ writer \in WriterType
      /\ written \in Nat /\ taken \in [Readers -> Nat]
      /\ \A b \in Blocks : slice[b].start \in Nat /\ slice[b].size \in Nat
      /\ writer.output_index \in Nat /\ writer.output_index <= DataSize
      /\ writer.min_input_index \in Nat /\ writer.min_input_index <= DataSize
      /\ writer.available_size \in Nat
  BY TypeParts, WriterFields, Layout DEF Inv
<1>2. Tracked(writer, reader) /\ Settled(writer)
  BY DEF Inv
<1>3. /\ written' = written
      /\ state' = [state EXCEPT ![r] = "Idle"]
      /\ slice' = [slice EXCEPT ![r] = NoSlice]
      /\ UNCHANGED <<relaxed_mode, eof, resets>>
  BY DEF ReaderAdvance, Finish
<1>4. PICK y : reader' = [reader EXCEPT ![r] = y]
  BY DEF ReaderAdvance
<1>5. \A q \in Readers : q # r => rs[q] = reader[q]
  BY <1>4, TypeParts DEF Inv
<1> HIDE DEF rs
<1>6. LET v == UpdateMinInputIndex(writer, rs)
       IN  /\ Buffered(v, rs, written, taken')
           /\ Tracked(v, rs)
           /\ Settled(v)
           /\ writer.output_index + MinOutputSize <= DataSize =>
                /\ v.output_index = writer.output_index
                /\ writer.available_size <= v.available_size
  <2>1. taken' \in [Readers -> Nat] /\ Buffered(writer, rs, written, taken')
    BY ReaderAdvances DEF rs
  <2> DEFINE t == taken'
  <2> HIDE DEF t
  <2>2. t \in [Readers -> Nat] /\ Buffered(writer, rs, written, t)
    BY <2>1 DEF t
  <2>3. /\ writer.wrap_flag = writer.min_input_wrap_flag => ReadersAbove(writer, rs) = {}
        /\ writer.wrap_flag # writer.min_input_wrap_flag =>
             /\ Overlap <= writer.output_index
             /\ writer.output_index <= writer.min_input_index
             /\ \/ ReadersAbove(writer, rs) # {}
                \/ \E q \in Readers : rs[q].input_index <= Overlap
        /\ \A q \in Readers : ~SameLap(rs[q], writer) =>
                               writer.min_input_index <= rs[q].input_index
    BY ReaderAdvances DEF rs
  <2>4. LET v == UpdateMinInputIndex(writer, rs)
        IN  /\ Buffered(v, rs, written, t)
            /\ Tracked(v, rs)
            /\ Settled(v)
            /\ writer.output_index + MinOutputSize <= DataSize =>
                 /\ v.output_index = writer.output_index
                 /\ writer.available_size <= v.available_size
    BY <1>1, <1>2, <2>2, <2>3, UpdateKeeps
  <2> QED
    BY <2>4 DEF t
<1>7. writer' = UpdateMinInputIndex(writer, rs) /\ reader' = rs
  BY ReaderAdvances DEF rs
<1>8. Buffered(writer', reader', written', taken') /\ Tracked(writer', reader') /\ Settled(writer')
  BY <1>7, <1>3, <1>6
<1>9. writer.output_index + MinOutputSize <= DataSize =>
         /\ writer'.output_index = writer.output_index
         /\ writer.available_size <= writer'.available_size
  BY <1>7, <1>6
<1>10. TypeOK'
  <2>1. writer' \in WriterType /\ reader' \in [Readers -> ReaderType]
    BY <1>8 DEF Buffered, WriterPlaced
  <2>2. NoSlice \in [start : 0 .. DataSize, size : 0 .. DataSize]
    BY Layout DEF NoSlice
  <2> QED
    BY <1>3, <2>1, <2>2, ReaderAdvances DEF Inv, TypeOK
<1>11. Claimed'
  <2>1. /\ state'[r] = "Idle" /\ state'[Source] = state[Source] /\ slice'[Source] = slice[Source]
        /\ \A q \in Readers : q # r => state'[q] = state[q] /\ slice'[q] = slice[q]
    BY <1>3, TypeParts, SourceIsNoReader DEF Inv
  <2>2. MinOutputSize <= writer.available_size =>
          /\ writer'.output_index = writer.output_index
          /\ writer.available_size <= writer'.available_size
    <3>1. writer.available_size <= WriterSpace(writer)
      BY <1>2 DEF Settled
    <3>2. WriterSpace(writer) <= DataSize - writer.output_index
      BY <1>1, Layout DEF WriterSpace
    <3>3. WriterSpace(writer) \in Int
      BY <1>1, Layout DEF WriterSpace
    <3> QED
      BY <1>1, <1>9, <3>1, <3>2, <3>3, Layout
  <2>3. writer'.available_size \in Nat
    BY <1>8, WriterFields DEF Buffered, WriterPlaced
  <2>4. /\ state[Source] = "Scheduled" => MinOutputSize <= writer'.available_size
        /\ state[Source] = "Running" =>
             /\ slice[Source].start = writer'.output_index
             /\ MinOutputSize <= slice[Source].size
             /\ slice[Source].size <= writer'.available_size
    <3>1. /\ state[Source] = "Scheduled" => MinOutputSize <= writer.available_size
          /\ state[Source] = "Running" =>
               /\ slice[Source].start = writer.output_index
               /\ MinOutputSize <= slice[Source].size
               /\ slice[Source].size <= writer.available_size
      BY DEF Inv, Claimed
    <3>2. slice[Source].size \in Nat
      BY <1>1, SourceIsNoReader
    <3> QED
      BY <1>1, <2>2, <2>3, <3>1, <3>2, Layout
  <2>5. ASSUME NEW q \in Readers, q # r
        PROVE  /\ state[q] = "Scheduled" => MinCombinedInputSize(q) <= rs[q].available_size
               /\ state[q] = "Running" => slice[q].size <= rs[q].available_size
    BY <1>5, <2>5 DEF Inv, Claimed
  <2> QED
    BY <1>7, <1>3, <2>1, <2>4, <2>5 DEF Claimed
<1> QED
  BY <1>8, <1>10, <1>11 DEF Inv

LEMMA NextKeepsInv ==
  ASSUME ResetAfterSource = {}, Inv, [Next]_vars PROVE Inv'
<1>1. CASE Next
  BY <1>1, ScheduleKeeps, SlicesKeep, ResetKeeps, WriterAdvanceKeeps, ReaderAdvanceKeeps
  DEF Next
<1>2. CASE UNCHANGED vars
  BY <1>2 DEF vars, Inv, TypeOK, Claimed
<1> QED
  BY <1>1, <1>2

(* The buffer keeps its elements where the indices say they are, as long   *)
(* as every reader is reset before the writer (block.cpp:99-113).          *)
THEOREM Memory ==
  ASSUME ResetAfterSource = {}
  PROVE  Spec => []Inv
<1>1. Inv /\ [Next]_vars => Inv'
  BY NextKeepsInv
<1> QED
  BY InitInv, <1>1, PTL DEF Spec

(***************************************************************************)
(* What follows from it.                                                   *)
(***************************************************************************)
LEMMA InvFacts ==
  ASSUME Inv
  PROVE  /\ writer \in WriterType /\ reader \in [Readers -> ReaderType]
         /\ writer.output_index \in Nat /\ writer.output_index <= DataSize
         /\ writer.current_size \in Nat /\ writer.current_size <= DataSize
         /\ DataSize - MinOutputSize < writer.current_size
         /\ writer.min_input_index \in Nat /\ writer.min_input_index <= writer.current_size
         /\ writer.available_size \in Nat
         /\ writer.output_index + writer.available_size <= DataSize
         /\ writer.wrap_flag # writer.min_input_wrap_flag =>
              /\ writer.output_index + writer.available_size <= writer.min_input_index
              /\ Overlap <= writer.output_index
         /\ \A r \in Readers :
              /\ reader[r].input_index \in Nat /\ reader[r].available_size \in Nat
              /\ Placed(r, reader[r], writer) /\ Sized(reader[r], writer)
              /\ Located(r, reader[r], writer, written, taken[r])
              /\ Kept(reader[r], writer, written)
              /\ writer.wrap_flag = writer.min_input_wrap_flag => SameLap(reader[r], writer)
              /\ ~SameLap(reader[r], writer) =>
                   writer.min_input_index <= reader[r].input_index
<1>1. /\ writer \in WriterType /\ reader \in [Readers -> ReaderType]
      /\ Buffered(writer, reader, written, taken) /\ Tracked(writer, reader) /\ Settled(writer)
  BY TypeParts DEF Inv
<1>2. /\ writer.output_index \in Nat /\ writer.output_index <= DataSize
      /\ writer.current_size \in Nat /\ writer.current_size <= DataSize
      /\ writer.min_input_index \in Nat /\ writer.min_input_index <= DataSize
      /\ writer.available_size \in Nat
      /\ DataSize - MinOutputSize < writer.current_size
  BY <1>1, WriterFields DEF Buffered, WriterPlaced
<1>3. \A r \in Readers :
        /\ reader[r].input_index \in Nat /\ reader[r].available_size \in Nat
        /\ Placed(r, reader[r], writer) /\ Sized(reader[r], writer)
        /\ Located(r, reader[r], writer, written, taken[r])
        /\ Kept(reader[r], writer, written)
        /\ writer.wrap_flag = writer.min_input_wrap_flag => SameLap(reader[r], writer)
        /\ ~SameLap(reader[r], writer) => writer.min_input_index <= reader[r].input_index
  <2> TAKE r \in Readers
  <2>1. reader[r].input_index \in Nat /\ reader[r].available_size \in Nat
    BY <1>1, ReaderFields
  <2>2. /\ Placed(r, reader[r], writer) /\ Sized(reader[r], writer)
        /\ Located(r, reader[r], writer, written, taken[r])
        /\ Kept(reader[r], writer, written)
    BY <1>1 DEF Buffered, ReaderPlaced
  <2>3. /\ writer.wrap_flag = writer.min_input_wrap_flag => SameLap(reader[r], writer)
        /\ ~SameLap(reader[r], writer) => writer.min_input_index <= reader[r].input_index
    BY <1>1, TrackedFacts
  <2> QED
    BY <2>1, <2>2, <2>3
<1>4. writer.min_input_index <= writer.current_size
  <2>1. CASE writer.wrap_flag = writer.min_input_wrap_flag
    <3>1. writer.min_input_index <= writer.output_index
      BY <1>1, <2>1, TrackedFacts
    <3>2. \/ writer.output_index + MinOutputSize <= DataSize
          \/ writer.min_input_index < Overlap
      BY <1>1, <1>2, <2>1, Layout DEF Settled, MustWrap
    <3> QED
      BY <1>2, <3>1, <3>2, Layout
  <2>2. CASE writer.wrap_flag # writer.min_input_wrap_flag
    BY <1>1, <2>2, TrackedFacts
  <2> QED
    BY <2>1, <2>2
<1>5. /\ writer.output_index + writer.available_size <= DataSize
      /\ writer.wrap_flag # writer.min_input_wrap_flag =>
           /\ writer.output_index + writer.available_size <= writer.min_input_index
           /\ Overlap <= writer.output_index
  <2>1. writer.available_size <= WriterSpace(writer)
    BY <1>1 DEF Settled
  <2>2. writer.wrap_flag # writer.min_input_wrap_flag => Overlap <= writer.output_index
    BY <1>1, TrackedFacts
  <2> QED
    BY <1>2, <2>1, <2>2, Layout DEF WriterSpace
<1> QED
  BY <1>1, <1>2, <1>3, <1>4, <1>5

(* Types: no index of the buffer ever leaves 0 .. DataSize, so that no     *)
(* subtraction of the unsigned sizes of circular_buffer.cpp wraps round.   *)
THEOREM BufferTypes ==
  ASSUME ResetAfterSource = {}
  PROVE  Spec => []TypeOK
<1>1. Inv => TypeOK
  BY DEF Inv
<1> QED
  BY <1>1, Memory, PTL

(* None of the CHECKs of CircularBufferWriter::verify ever fails.          *)
THEOREM NeverAborts ==
  ASSUME ResetAfterSource = {}
  PROVE  Spec => []VerifyHolds
<1>1. Inv => VerifyHolds
  <2> SUFFICES ASSUME Inv PROVE VerifyHolds
    OBVIOUS
  <2>1. ASSUME NEW r \in Readers
        PROVE  LET x == reader[r]
               IN  /\ \/ writer.wrap_flag = x.wrap_flag
                      \/ x.input_index >= writer.min_input_index
                   /\ x.input_index + HistorySize[r] <= DataSize
                   /\ \/ writer.wrap_flag = x.wrap_flag
                      \/ x.input_index + HistorySize[r] <= writer.current_size
                   /\ \/ writer.wrap_flag # writer.min_input_wrap_flag
                      \/ writer.output_index >= x.input_index
    <3> DEFINE x == reader[r]
    <3>1. /\ x.input_index \in Nat /\ Placed(r, x, writer)
          /\ writer.wrap_flag = writer.min_input_wrap_flag => SameLap(x, writer)
          /\ ~SameLap(x, writer) => writer.min_input_index <= x.input_index
      BY InvFacts
    <3>2. HistorySize[r] \in Nat
      BY Layout
    <3> HIDE DEF x
    <3>3. x.input_index + HistorySize[r] <= DataSize
      BY <3>1, <3>2, InvFacts, Layout DEF Placed
    <3>4. writer.output_index \in Nat /\ writer.min_input_index \in Nat
      BY InvFacts
    <3>5. SameLap(x, writer) => x.input_index <= writer.output_index
      BY <3>1 DEF Placed
    <3>6. ~SameLap(x, writer) => x.input_index + HistorySize[r] <= writer.current_size
      BY <3>1 DEF Placed
    <3> QED
      BY <3>1, <3>3, <3>4, <3>5, <3>6 DEF SameLap, x
  <2> QED
    BY <2>1, InvFacts DEF VerifyHolds
<1> QED
  BY <1>1, Memory, PTL

(* A block scheduled for its sizes finds slices large enough when it runs, *)
(* whatever the other blocks did since: the CHECKs of both slice()         *)
(* functions never fail.                                                   *)
THEOREM SlicesAreReady ==
  ASSUME ResetAfterSource = {}
  PROVE  Spec => []SliceReady
<1>1. Inv => SliceReady
  <2> SUFFICES ASSUME Inv PROVE SliceReady
    OBVIOUS
  <2>1. ASSUME state[Source] = "Scheduled"
        PROVE  /\ writer.available_size >= MinOutputSize
               /\ writer.output_index + writer.available_size <= DataSize
               /\ \/ writer.wrap_flag = writer.min_input_wrap_flag
                  \/ writer.output_index + writer.available_size <= writer.min_input_index
    <3>1. MinOutputSize <= writer.available_size
      BY <2>1 DEF Inv, Claimed
    <3> QED
      BY <3>1, InvFacts, Layout
  <2>2. ASSUME NEW r \in Readers, state[r] = "Scheduled"
        PROVE  /\ reader[r].available_size >= MinCombinedInputSize(r)
               /\ reader[r].input_index + reader[r].available_size <= DataSize
               /\ \/ writer.wrap_flag # reader[r].wrap_flag
                  \/ reader[r].input_index + reader[r].available_size <= writer.output_index
    <3>1. /\ MinCombinedInputSize(r) <= reader[r].available_size
          /\ MinCombinedInputSize(r) \in Nat
      BY <2>2, Layout DEF Inv, Claimed, MinCombinedInputSize
    <3>2. /\ Sized(reader[r], writer) /\ reader[r].input_index \in Nat
          /\ reader[r].available_size \in Nat
      BY InvFacts
    <3>3. /\ writer.output_index \in Nat /\ writer.output_index <= DataSize
          /\ writer.current_size \in Nat /\ writer.current_size <= DataSize
      BY InvFacts
    <3> QED
      BY <3>1, <3>2, <3>3, Layout DEF Sized, ReadEnd
  <2> QED
    BY <2>1, <2>2 DEF SliceReady
<1> QED
  BY <1>1, Memory, PTL

(* A block may advance by all of the slice it took, although the other     *)
(* side moved or wrapped meanwhile: the CHECKs of both advance() functions *)
(* never fail.                                                             *)
THEOREM AdvancesAreReady ==
  ASSUME ResetAfterSource = {}
  PROVE  Spec => []AdvanceReady
<1>1. Inv => AdvanceReady
  <2> SUFFICES ASSUME Inv PROVE AdvanceReady
    OBVIOUS
  <2>1. \A b \in Blocks : slice[b].size \in Nat
    BY TypeParts DEF Inv
  <2>2. ASSUME state[Source] = "Running"
        PROVE  /\ slice[Source].start = writer.output_index
               /\ writer.output_index + slice[Source].size <= DataSize
               /\ \/ writer.wrap_flag = writer.min_input_wrap_flag
                  \/ writer.output_index + slice[Source].size <= writer.min_input_index
    <3>1. /\ slice[Source].start = writer.output_index
          /\ slice[Source].size <= writer.available_size
      BY <2>2 DEF Inv, Claimed
    <3> QED
      BY <2>1, <3>1, InvFacts, SourceIsNoReader, Layout
  <2>3. ASSUME NEW r \in Readers, state[r] = "Running"
        PROVE  LET last == reader[r].input_index + slice[r].size
               IN  /\ last <= DataSize
                   /\ writer.wrap_flag = reader[r].wrap_flag => last <= writer.output_index
    <3>1. slice[r].size <= reader[r].available_size /\ slice[r].size \in Nat
      BY <2>1, <2>3, SourceIsNoReader DEF Inv, Claimed
    <3>2. /\ Sized(reader[r], writer) /\ reader[r].input_index \in Nat
          /\ reader[r].available_size \in Nat
      BY InvFacts
    <3>3. /\ writer.output_index \in Nat /\ writer.output_index <= DataSize
          /\ writer.current_size \in Nat /\ writer.current_size <= DataSize
      BY InvFacts
    <3> QED
      BY <3>1, <3>2, <3>3, Layout DEF Sized, ReadEnd
  <2> QED
    BY <2>2, <2>3 DEF AdvanceReady
<1> QED
  BY <1>1, Memory, PTL

(* First in, first out: every reader is shown exactly the next elements of *)
(* the stream and the history before them, across any number of laps and   *)
(* resets.                                                                 *)
THEOREM DeliveredInOrder ==
  ASSUME ResetAfterSource = {}
  PROVE  Spec => []Fifo
<1>1. Inv => Fifo
  <2> SUFFICES ASSUME Inv, NEW r \in Readers,
                      NEW i \in reader[r].input_index ..
                                  reader[r].input_index + reader[r].available_size - 1,
                      NextElement(r) - HistorySize[r] + (i - reader[r].input_index) >= 0
               PROVE  writer.data[i] =
                        NextElement(r) - HistorySize[r] + (i - reader[r].input_index)
    BY DEF Fifo
  <2> DEFINE x == reader[r]
             p == NextElement(r) - HistorySize[r] + (i - x.input_index)
  <2>1. /\ x.input_index \in Nat /\ x.available_size \in Nat
        /\ Sized(x, writer) /\ Located(r, x, writer, written, taken[r])
        /\ Kept(x, writer, written)
        /\ writer.output_index \in Nat /\ writer.current_size \in Nat
    BY InvFacts
  <2>2. /\ written \in Nat /\ taken[r] \in Nat /\ Delay[r] \in Nat /\ HistorySize[r] \in Nat
        /\ Overlap \in Nat
    BY TypeParts, Layout DEF Inv
  <2>3. i \in Int /\ x.input_index <= i /\ i < x.input_index + x.available_size
    BY <2>1
  <2>4. p = taken[r] + Delay[r] - HistorySize[r] + (i - x.input_index)
    BY <2>1, <2>2, <2>3 DEF NextElement
  <2>7. p >= 0
    OBVIOUS
  <2> HIDE DEF x, p
  <2>5. CASE SameLap(x, writer)
    <3>1. p = ThisLap(writer, written, i) /\ i \in 0 .. writer.output_index - 1
      BY <2>1, <2>2, <2>3, <2>4, <2>5 DEF Located, ThisLap, Sized, ReadEnd, SameLap
    <3>2. Stored(writer, written)
      BY DEF Inv, Buffered
    <3> QED
      BY <2>7, <3>1, <3>2 DEF Stored, p, x
  <2>6. CASE ~SameLap(x, writer)
    <3>1. /\ p = PreviousLap(writer, written, i)
          /\ i \in x.input_index .. writer.current_size - 1
      BY <2>1, <2>2, <2>3, <2>4, <2>6 DEF Located, PreviousLap, Sized, ReadEnd, SameLap
    <3> QED
      BY <2>1, <2>7, <2>6, <3>1 DEF Kept, p, x
  <2> QED
    BY <2>5, <2>6
<1> QED
  BY <1>1, Memory, PTL

(***************************************************************************)
(* The memory in use at the same time.                                     *)
(***************************************************************************)
Resting == \A b \in Blocks : state[b] # "Running" => slice[b] = NoSlice

LEMMA RestingKept == TypeOK /\ Resting /\ [Next]_vars => Resting'
<1> SUFFICES ASSUME TypeOK, Resting, [Next]_vars PROVE Resting'
  OBVIOUS
<1>1. /\ state \in [Blocks -> {"Idle", "Scheduled", "Running"}]
      /\ slice \in [Blocks -> [start : 0 .. DataSize, size : 0 .. DataSize]]
  BY TypeParts
<1>2. ASSUME NEW b \in Blocks, Schedule(b) PROVE Resting'
  BY <1>1, <1>2 DEF Resting, Schedule
<1>3. CASE EnterRelaxedMode
  BY <1>3 DEF Resting, EnterRelaxedMode
<1>4. CASE WriterSlice
  BY <1>1, <1>4, SourceIsNoReader DEF Resting, WriterSlice
<1>5. ASSUME NEW n \in 1 .. DataSize, WriterAdvance(n) PROVE Resting'
  <2>1. Finish(Source)
    BY <1>5 DEF WriterAdvance
  <2> QED
    BY <1>1, <2>1, SourceIsNoReader DEF Resting, Finish
<1>6. CASE SourceEof
  BY <1>1, <1>6, SourceIsNoReader DEF Resting, SourceEof, Finish
<1>7. ASSUME NEW r \in Readers, ReaderSlice(r) PROVE Resting'
  BY <1>1, <1>7, SourceIsNoReader DEF Resting, ReaderSlice
<1>8. ASSUME NEW r \in Readers, NEW n \in 1 .. DataSize, ReaderAdvance(r, n) PROVE Resting'
  <2>1. Finish(r)
    BY <1>8 DEF ReaderAdvance
  <2> QED
    BY <1>1, <2>1, SourceIsNoReader DEF Resting, Finish
<1>9. CASE Reset
  BY <1>9 DEF Resting, Reset
<1>10. CASE UNCHANGED vars
  BY <1>10 DEF Resting, vars
<1> QED
  BY <1>2, <1>3, <1>4, <1>5, <1>6, <1>7, <1>8, <1>9, <1>10 DEF Next

(* Unless the writer moved a reader to the copy at the start while its     *)
(* filter was running, the source never fills memory a filter is reading.  *)
THEOREM DisjointUnlessMoved ==
  ASSUME ResetAfterSource = {}
  PROVE  Spec => []SlicesDisjointUnlessMoved
<1>1. Init => Resting
  BY DEF Init, Resting
<1>2. Inv /\ Resting => SlicesDisjointUnlessMoved
  <2> SUFFICES ASSUME Inv, Resting, NEW r \in Readers,
                      slice[r].start = reader[r].input_index
               PROVE  Extent(slice[r]) \cap Extent(slice[Source]) = {}
    BY DEF SlicesDisjointUnlessMoved
  <2>1. \A b \in Blocks : slice[b].start \in Nat /\ slice[b].size \in Nat
    BY TypeParts DEF Inv
  <2>2. \A b \in Blocks : state[b] # "Running" => Extent(slice[b]) = {}
    BY DEF Resting, NoSlice, Extent
  <2>3. CASE state[r] = "Running" /\ state[Source] = "Running"
    <3>1. /\ slice[r].size <= reader[r].available_size
          /\ slice[Source].start = writer.output_index
          /\ slice[Source].size <= writer.available_size
      BY <2>3 DEF Inv, Claimed
    <3>2. /\ Sized(reader[r], writer) /\ reader[r].input_index \in Nat
          /\ reader[r].available_size \in Nat /\ writer.available_size \in Nat
          /\ writer.output_index \in Nat /\ writer.min_input_index \in Nat
          /\ slice[r].size \in Nat /\ slice[Source].size \in Nat
      BY <2>1, InvFacts, SourceIsNoReader
    <3>3. CASE SameLap(reader[r], writer)
      <4>1. reader[r].input_index + slice[r].size <= writer.output_index
        BY <3>1, <3>2, <3>3 DEF Sized, ReadEnd, SameLap
      <4> QED
        BY <3>1, <3>2, <4>1 DEF Extent
    <3>4. CASE ~SameLap(reader[r], writer)
      <4>1. /\ writer.output_index + writer.available_size <= writer.min_input_index
            /\ writer.min_input_index <= reader[r].input_index
        BY <3>4, InvFacts
      <4>2. writer.output_index + slice[Source].size <= reader[r].input_index
        BY <3>1, <3>2, <4>1
      <4> QED
        BY <3>1, <3>2, <4>2 DEF Extent
    <3> QED
      BY <3>3, <3>4
  <2> QED
    BY <2>2, <2>3, SourceIsNoReader
<1>3. Inv => TypeOK
  BY DEF Inv
<1> QED
  BY <1>1, <1>2, <1>3, RestingKept, Memory, PTL DEF Spec

(***************************************************************************)
(* The broadcast stream.                                                   *)
(***************************************************************************)
(* An advance of the writer appends to the stream, and the buffer holds    *)
(* what no reader has taken yet.                                           *)
LEMMA AppendStep ==
  ASSUME Inv, NEW k \in 1 .. DataSize, WriterAdvance(k) PROVE Stream!Next
<1>1. /\ state[Source] = "Running" /\ k <= slice[Source].size /\ slice[Source].size \in Nat
      /\ written + k <= StreamLength /\ written' = written + k /\ taken' = taken
      /\ written \in Nat /\ k \in Nat /\ 0 < k /\ StreamLength \in Nat
  BY TypeParts, SourceIsNoReader, SizesAssumption DEF WriterAdvance, Inv
<1>2. k <= writer.available_size
  <2>1. slice[Source].size <= writer.available_size /\ writer.available_size \in Nat
    BY <1>1, InvFacts DEF Inv, Claimed
  <2> QED
    BY <1>1, <2>1
<1>3. ASSUME NEW r \in Readers PROVE Stream!Lag(r) + k <= DataSize
  <2> DEFINE x == reader[r]
  <2>1. /\ x.input_index \in Nat /\ Placed(r, x, writer)
        /\ Located(r, x, writer, written, taken[r])
        /\ ~SameLap(x, writer) => writer.min_input_index <= x.input_index
        /\ writer.wrap_flag = writer.min_input_wrap_flag => SameLap(x, writer)
    BY InvFacts
  <2>2. /\ taken[r] \in Nat /\ Delay[r] \in Nat /\ HistorySize[r] \in Nat
        /\ Overlap \in Nat /\ DataSize \in Nat
    BY TypeParts, Layout DEF Inv
  <2>3. /\ writer.output_index \in Nat /\ writer.current_size \in Nat
        /\ writer.min_input_index \in Nat /\ writer.current_size <= DataSize
        /\ writer.available_size \in Nat
        /\ writer.output_index + writer.available_size <= DataSize
        /\ writer.wrap_flag # writer.min_input_wrap_flag =>
             writer.output_index + writer.available_size <= writer.min_input_index
    BY InvFacts
  <2>4. Stream!Lag(r) = written - (taken[r] + Delay[r]) + HistorySize[r]
    BY DEF Stream!Lag, Stream!NextElement
  <2> HIDE DEF x
  <2>5. CASE SameLap(x, writer)
    BY <1>1, <1>2, <2>1, <2>2, <2>3, <2>4, <2>5 DEF Located, ThisLap
  <2>6. CASE ~SameLap(x, writer)
    BY <1>1, <1>2, <2>1, <2>2, <2>3, <2>4, <2>6 DEF Located, PreviousLap
  <2> QED
    BY <2>5, <2>6
<1>4. Stream!Produce(k) /\ k \in 1 .. StreamLength
  BY <1>1, <1>3 DEF Stream!Produce
<1> QED
  BY <1>4 DEF Stream!Next

(* An advance of a reader takes elements that have been written.           *)
LEMMA TakeStep ==
  ASSUME Inv, NEW r \in Readers, NEW k \in 1 .. DataSize, ReaderAdvance(r, k) PROVE Stream!Next
<1> DEFINE x == reader[r]
<1>1. /\ state[r] = "Running" /\ k <= slice[r].size - HistorySize[r] /\ slice[r].size \in Nat
      /\ taken' = [taken EXCEPT ![r] = taken[r] + k] /\ written' = written
      /\ written \in Nat /\ written <= StreamLength /\ k \in Nat /\ 0 < k
      /\ StreamLength \in Nat /\ taken[r] \in Nat /\ Delay[r] \in Nat
      /\ HistorySize[r] \in Nat /\ Overlap \in Nat
  BY TypeParts, SourceIsNoReader, SizesAssumption, Layout DEF ReaderAdvance, Inv
<1>2. /\ x.input_index \in Nat /\ x.available_size \in Nat /\ Sized(x, writer)
      /\ Located(r, x, writer, written, taken[r]) /\ Placed(r, x, writer)
      /\ slice[r].size <= x.available_size
      /\ writer.output_index \in Nat /\ writer.current_size \in Nat
  BY <1>1, InvFacts DEF Inv, Claimed
<1> HIDE DEF x
<1>3. taken[r] + Delay[r] + k <= written
  <2>1. CASE SameLap(x, writer)
    BY <1>1, <1>2, <2>1 DEF Located, ThisLap, Sized, ReadEnd, SameLap
  <2>2. CASE ~SameLap(x, writer)
    BY <1>1, <1>2, <2>2 DEF Located, PreviousLap, Sized, ReadEnd, SameLap, Placed
  <2> QED
    BY <2>1, <2>2
<1>4. Stream!Consume(r, k)
  BY <1>1, <1>3 DEF Stream!Consume, Stream!NextElement
<1>5. k \in 1 .. StreamLength
  BY <1>1, <1>3
<1> QED
  BY <1>4, <1>5 DEF Stream!Next

(* The buffer implements Broadcast: seen from outside, whatever the laps,  *)
(* copies and resets, one stream is appended to and taken from in order.   *)
THEOREM ImplementsBroadcast ==
  ASSUME ResetAfterSource = {}
  PROVE  Spec => Implements
<1>1. Init => Stream!Init
  BY DEF Init, Stream!Init
<1>2. Inv /\ [Next]_vars => [Stream!Next]_(Stream!vars)
  <2> SUFFICES ASSUME Inv, [Next]_vars
               PROVE  Stream!Next \/ UNCHANGED <<written, taken>>
    BY DEF Stream!vars
  <2>1. ASSUME NEW b \in Blocks, Schedule(b) PROVE UNCHANGED <<written, taken>>
    BY <2>1 DEF Schedule
  <2>2. CASE EnterRelaxedMode \/ WriterSlice \/ SourceEof \/ \E r \in Readers : ReaderSlice(r)
    BY <2>2 DEF EnterRelaxedMode, WriterSlice, SourceEof, ReaderSlice
  <2>3. CASE Reset
    BY <2>3 DEF Reset, Stream!Next, Stream!Restart
  <2>4. CASE UNCHANGED vars
    BY <2>4 DEF vars
  <2> QED
    BY <2>1, <2>2, <2>3, <2>4, AppendStep, TakeStep DEF Next
<1> QED
  BY <1>1, <1>2, Memory, PTL DEF Spec, Implements, Stream!Spec
(***************************************************************************)
(* The sizes the scheduler reads.                                          *)
(*                                                                         *)
(* A reader of the writer's lap has its history behind the writer once the *)
(* writer has wrapped, so the last of several readers to change laps       *)
(* leaves the writer another minimal index if one of them has a history.   *)
(***************************************************************************)
Trailing(w, rs) ==
  w.wrap_flag # w.min_input_wrap_flag =>
    \A r \in Readers : SameLap(rs[r], w) => rs[r].input_index + HistorySize[r] <= w.output_index

WriterMeasured(w) == w.wrapping <=> DataSize - w.output_index < SuggestedOutputSize

(* A reader the writer has left on the previous lap is measured again when *)
(* the writer first advances on its own.                                   *)
ReaderMeasured(r, x, w) ==
  /\ x.available_size = ReadEnd(x, w) - x.input_index
  /\ ~SameLap(x, w) =>
       \/ w.output_index = Overlap
       \/ /\ Overlap < w.current_size - x.input_index
          /\ \/ x.wrapping
             \/ HistorySize[r] + SuggestedSize[r] <= w.current_size - x.input_index

Measured(w, rs) ==
  /\ WriterMeasured(w)
  /\ \A r \in Readers : ReaderMeasured(r, rs[r], w)

(* What Init and Reset leave: the readers have not been told anything yet. *)
Untouched(w, rs) ==
  /\ w.wrap_flag = w.min_input_wrap_flag
  /\ w.output_index = MaxHistorySize
  /\ ~w.wrapping
  /\ \A r \in Readers : rs[r].available_size = 0

Informed ==
  /\ OutputNotified
  /\ Trailing(writer, reader)
  /\ IF written = 0 THEN Untouched(writer, reader) ELSE Measured(writer, reader)

(* Room for a slice of that size on both sides of a reader that is left at *)
(* the end of a lap.                                                       *)
Room(out, in) ==
  \A r \in Readers : out + MinOutputSize + Overlap + HistorySize[r] + in[r] <= DataSize + 2

SomeHistory == \E r \in Readers : HistorySize[r] > 0
(***************************************************************************)
(* Every adjust() measures what is there.                                  *)
(***************************************************************************)
LEMMA WriterAdjustMeasures ==
  ASSUME NEW w \in WriterType
  PROVE  LET v == WriterAdjust(w)
         IN  /\ v.available_size = WriterSpace(v) /\ WriterMeasured(v)
             /\ v.min_input_index = w.min_input_index
             /\ v.min_input_wrap_flag = w.min_input_wrap_flag
             /\ IF MustWrap(w)
                  THEN /\ v.wrap_flag = ~w.wrap_flag
                       /\ v.output_index = Overlap /\ v.current_size = w.output_index
                  ELSE /\ v.wrap_flag = w.wrap_flag
                       /\ v.output_index = w.output_index /\ v.current_size = w.current_size
<1> DEFINE u == IF MustWrap(w) THEN WriterWrap(w) ELSE w
           v == WriterMeasure(u)
<1>1. /\ u \in WriterType
      /\ u.min_input_index = w.min_input_index
      /\ u.min_input_wrap_flag = w.min_input_wrap_flag
      /\ IF MustWrap(w)
           THEN /\ u.wrap_flag = ~w.wrap_flag
                /\ u.output_index = Overlap /\ u.current_size = w.output_index
           ELSE /\ u.wrap_flag = w.wrap_flag
                /\ u.output_index = w.output_index /\ u.current_size = w.current_size
  <2>1. CASE MustWrap(w)
    BY <2>1, WrapFields
  <2>2. CASE ~MustWrap(w)
    BY <2>2
  <2> QED
    BY <2>1, <2>2
<1>2. WriterAdjust(w) = v
  BY DEF WriterAdjust
<1> HIDE DEF u
<1>3. /\ v.available_size = WriterSpace(u)
      /\ v.wrapping = (DataSize - u.output_index < SuggestedOutputSize)
      /\ v.output_index = u.output_index /\ v.current_size = u.current_size
      /\ v.wrap_flag = u.wrap_flag /\ v.min_input_index = u.min_input_index
      /\ v.min_input_wrap_flag = u.min_input_wrap_flag
  BY <1>1 DEF WriterMeasure, WriterType
<1> HIDE DEF v
<1>4. WriterSpace(v) = WriterSpace(u)
  BY <1>3 DEF WriterSpace
<1> QED
  BY <1>1, <1>2, <1>3, <1>4 DEF WriterMeasured

LEMMA ReaderAdjustMeasures ==
  ASSUME NEW w \in WriterType, NEW r \in Readers, NEW x \in ReaderType, Placed(r, x, w)
  PROVE  LET y == ReaderAdjust(r, x, w)
         IN  /\ ReaderMeasured(r, y, w)
             /\ SameLap(x, w) => SameLap(y, w) /\ y.input_index = x.input_index
             /\ ~SameLap(x, w) /\ SameLap(y, w) => y.input_index + HistorySize[r] <= Overlap
<1> DEFINE y == ReaderAdjust(r, x, w)
           z == ReaderWrap(x, w)
           left == w.current_size - x.input_index
<1>1. /\ w.current_size \in Nat /\ w.output_index \in Nat /\ w.wrap_flag \in BOOLEAN
      /\ x.input_index \in Nat /\ x.wrap_flag \in BOOLEAN
      /\ HistorySize[r] \in Nat /\ SuggestedSize[r] \in Nat
      /\ Overlap \in Nat /\ DataSize \in Nat
  BY WriterFields, ReaderFields, Layout
<1>2. /\ SameLap(x, w) => SameLap(z, w) /\ z.input_index = x.input_index
      /\ ~SameLap(x, w) /\ SameLap(z, w) => z.input_index + HistorySize[r] <= Overlap
      /\ ~SameLap(z, w) => Overlap < w.current_size - z.input_index
      /\ z = [x EXCEPT !.input_index = z.input_index, !.wrap_flag = z.wrap_flag]
      /\ z.input_index \in Int
  <2>1. CASE ~SameLap(x, w) /\ left <= Overlap
    <3>1. z = [x EXCEPT !.input_index = Overlap - left, !.wrap_flag = ~x.wrap_flag]
      BY <2>1 DEF ReaderWrap, SameLap
    <3>2. z.input_index = Overlap - left /\ z.wrap_flag = ~x.wrap_flag
      BY <3>1 DEF ReaderType
    <3>3. HistorySize[r] <= left
      BY <1>1, <2>1 DEF Placed
    <3> QED
      BY <1>1, <2>1, <3>1, <3>2, <3>3 DEF SameLap
  <2>2. CASE ~(~SameLap(x, w) /\ left <= Overlap)
    <3>1. z = x
      BY <2>2 DEF ReaderWrap, SameLap
    <3>2. x = [x EXCEPT !.input_index = x.input_index, !.wrap_flag = x.wrap_flag]
      BY DEF ReaderType
    <3> QED
      BY <1>1, <2>2, <3>1, <3>2
  <2> QED
    BY <2>1, <2>2
<1>3. y = ReaderMeasure(r, z, w)
  BY DEF ReaderAdjust
<1> HIDE DEF z
<1>4. /\ y.input_index = z.input_index /\ y.wrap_flag = z.wrap_flag
      /\ y.available_size = ReadEnd(z, w) - z.input_index
      /\ y.wrapping = (LapEnd(z, w) - z.input_index < HistorySize[r] + SuggestedSize[r])
  BY <1>2, <1>3 DEF ReaderMeasure, ReaderType
<1> HIDE DEF y
<1>5. /\ SameLap(y, w) <=> SameLap(z, w)
      /\ ReadEnd(y, w) = ReadEnd(z, w)
  BY <1>4 DEF SameLap, ReadEnd
<1>6. ~SameLap(z, w) => LapEnd(z, w) = w.current_size
  BY DEF SameLap, LapEnd
<1>7. ReaderMeasured(r, y, w)
  <2>1. LapEnd(z, w) - z.input_index < HistorySize[r] + SuggestedSize[r] => y.wrapping
    BY <1>4, Zenon
  <2>2. ~SameLap(y, w) =>
          \/ y.wrapping
          \/ HistorySize[r] + SuggestedSize[r] <= w.current_size - y.input_index
    BY <1>1, <1>2, <1>4, <1>5, <1>6, <2>1
  <2>3. y.available_size = ReadEnd(y, w) - y.input_index
    BY <1>4, <1>5
  <2> QED
    BY <1>2, <1>4, <1>5, <2>2, <2>3 DEF ReaderMeasured
<1> QED
  BY <1>2, <1>4, <1>5, <1>7 DEF y

(***************************************************************************)
(* The test of circular_buffer.cpp:361 compares two numbers.  They can be  *)
(* the same on two laps only where both laps start (Overlap), with the     *)
(* writer there as well, and then no reader has a history.                 *)
(***************************************************************************)
LEMMA UpdateTells ==
  ASSUME SomeHistory,
         NEW w, NEW rs, NEW n \in Nat, NEW t \in [Readers -> Nat],
         Buffered(w, rs, n, t), Trailing(w, rs), WriterMeasured(w),
         w.available_size = WriterSpace(w),
         \A r \in Readers : ReaderMeasured(r, rs[r], w),
         w.wrap_flag = w.min_input_wrap_flag => ReadersAbove(w, rs) = {},
         w.wrap_flag # w.min_input_wrap_flag =>
           /\ Overlap <= w.output_index
           /\ w.output_index <= w.min_input_index
           /\ \/ ReadersAbove(w, rs) # {}
              \/ \E r \in Readers : rs[r].input_index <= Overlap
  PROVE  LET v == UpdateMinInputIndex(w, rs)
         IN  /\ v.available_size = WriterSpace(v)
             /\ Trailing(v, rs)
             /\ Measured(v, rs)
<1> DEFINE m == SlowestIndex(w, rs)
           f == IF ReadersAbove(w, rs) = {} THEN w.wrap_flag ELSE ~w.wrap_flag
           u == [w EXCEPT !.min_input_index = m, !.min_input_wrap_flag = f]
           v == UpdateMinInputIndex(w, rs)
<1>1. /\ w \in WriterType /\ rs \in [Readers -> ReaderType]
      /\ \A r \in Readers : Placed(r, rs[r], w)
  BY DEF Buffered, WriterPlaced, ReaderPlaced
<1>2. /\ w.output_index \in Nat /\ w.output_index <= DataSize
      /\ w.min_input_index \in Nat /\ w.min_input_index <= DataSize
      /\ w.wrap_flag \in BOOLEAN /\ w.min_input_wrap_flag \in BOOLEAN
  BY <1>1, WriterFields
<1>3. \A r \in Readers : /\ r \in ReadersAbove(w, rs) <=> ~SameLap(rs[r], w)
                         /\ rs[r].input_index \in 0 .. DataSize
                         /\ rs[r].wrap_flag \in BOOLEAN
                         /\ HistorySize[r] \in Nat
  BY <1>1, Layout DEF ReadersAbove, SameLap, ReaderType
<1>4. /\ \A r \in Bounding(w, rs) : m <= rs[r].input_index
      /\ \E r \in Bounding(w, rs) : m = rs[r].input_index
  BY <1>1, SlowestBounds
<1>5. Bounding(w, rs) \subseteq Readers
  BY DEF Bounding, ReadersAbove
<1>6. m \in 0 .. DataSize /\ f \in BOOLEAN
  BY <1>2, <1>3, <1>4, <1>5
<1> HIDE DEF m
<1>7. /\ u \in WriterType
      /\ u.output_index = w.output_index /\ u.current_size = w.current_size
      /\ u.wrap_flag = w.wrap_flag /\ u.wrapping = w.wrapping
      /\ u.available_size = w.available_size
      /\ u.min_input_index = m /\ u.min_input_wrap_flag = f
  BY <1>1, <1>6 DEF WriterType
<1>8. v = IF u.min_input_index # w.min_input_index THEN WriterAdjust(u) ELSE u
  BY DEF UpdateMinInputIndex, m
<1> HIDE DEF u, v
<1>9. v.available_size = WriterSpace(v) /\ WriterMeasured(v)
  <2>1. CASE m # w.min_input_index
    BY <1>7, <1>8, <2>1, WriterAdjustMeasures
  <2>2. CASE m = w.min_input_index
    <3>1. f = w.min_input_wrap_flag
      <4> SUFFICES ASSUME w.wrap_flag # w.min_input_wrap_flag, ReadersAbove(w, rs) = {}
                   PROVE  FALSE
        BY <1>2
      <4>1. PICK r \in Readers : rs[r].input_index <= Overlap
        OBVIOUS
      <4>2. \A q \in Readers : m <= rs[q].input_index
        BY <1>4 DEF Bounding
      <4>3. m = Overlap /\ w.output_index = Overlap
        BY <1>2, <1>3, <1>6, <2>2, <4>1, <4>2, Layout
      <4>4. PICK q \in Readers : HistorySize[q] > 0
        BY DEF SomeHistory
      <4>5. rs[q].input_index + HistorySize[q] <= w.output_index
        BY <1>3 DEF Trailing
      <4> QED
        BY <1>3, <4>2, <4>3, <4>4, <4>5, Layout
    <3>2. v = u
      BY <1>7, <1>8, <2>2
    <3> QED
      BY <1>7, <2>2, <3>1, <3>2 DEF WriterSpace, WriterMeasured
  <2> QED
    BY <2>1, <2>2
<1>10. \/ /\ v.wrap_flag = w.wrap_flag /\ v.min_input_wrap_flag = f
          /\ v.output_index = w.output_index /\ v.current_size = w.current_size
       \/ /\ v.wrap_flag = ~w.wrap_flag /\ \A r \in Readers : SameLap(rs[r], w)
          /\ v.output_index = Overlap /\ v.current_size = w.output_index
  <2>1. CASE v = u
    BY <1>7, <2>1
  <2>2. CASE v = WriterAdjust(u) /\ ~MustWrap(u)
    BY <1>7, <2>2, WriterAdjustMeasures
  <2>3. CASE v = WriterAdjust(u) /\ MustWrap(u)
    <3>1. ReadersAbove(w, rs) = {}
      BY <1>2, <1>7, <2>3 DEF MustWrap
    <3>2. \A r \in Readers : SameLap(rs[r], w)
      BY <1>3, <3>1
    <3> QED
      BY <1>7, <2>3, <3>2, WriterAdjustMeasures
  <2> QED
    BY <1>8, <2>1, <2>2, <2>3, Zenon
<1>11. CASE /\ v.wrap_flag = w.wrap_flag /\ v.min_input_wrap_flag = f
            /\ v.output_index = w.output_index /\ v.current_size = w.current_size
  <2>1. \A r \in Readers : /\ SameLap(rs[r], v) <=> SameLap(rs[r], w)
                           /\ ReadEnd(rs[r], v) = ReadEnd(rs[r], w)
    BY <1>11 DEF SameLap, ReadEnd
  <2>2. Trailing(v, rs)
    <3>1. v.wrap_flag # v.min_input_wrap_flag => w.wrap_flag # w.min_input_wrap_flag
      BY <1>11
    <3> QED
      BY <1>11, <2>1, <3>1 DEF Trailing
  <2>3. \A r \in Readers : ReaderMeasured(r, rs[r], v)
    BY <1>11, <2>1 DEF ReaderMeasured
  <2> QED
    BY <1>9, <2>2, <2>3 DEF Measured, v
<1>12. CASE /\ v.wrap_flag = ~w.wrap_flag /\ \A r \in Readers : SameLap(rs[r], w)
            /\ v.output_index = Overlap /\ v.current_size = w.output_index
  <2>1. \A r \in Readers : ~SameLap(rs[r], v) /\ ReadEnd(rs[r], v) = ReadEnd(rs[r], w)
    BY <1>2, <1>3, <1>12 DEF SameLap, ReadEnd
  <2>2. Trailing(v, rs)
    BY <2>1 DEF Trailing
  <2>3. \A r \in Readers : ReaderMeasured(r, rs[r], v)
    BY <1>12, <2>1 DEF ReaderMeasured
  <2> QED
    BY <1>9, <2>2, <2>3 DEF Measured, v
<1> QED
  BY <1>10, <1>11, <1>12
LEMMA ResetUntouched ==
  ASSUME NEW w \in WriterType, NEW rs, rs = [r \in Readers |-> ReaderReset(r, {})]
  PROVE  LET v == WriterReset(w)
         IN  /\ v.available_size = WriterSpace(v)
             /\ Trailing(v, rs) /\ Untouched(v, rs)
<1> DEFINE v == WriterReset(w)
<1>1. /\ v.wrap_flag = FALSE /\ v.min_input_wrap_flag = FALSE /\ v.wrapping = FALSE
      /\ v.output_index = MaxHistorySize
      /\ v.available_size = DataSize - MaxHistorySize
  BY DEF WriterReset, WriterType
<1> HIDE DEF v
<1>2. \A r \in Readers : rs[r].available_size = 0
  BY DEF ReaderReset
<1> QED
  BY <1>1, <1>2 DEF WriterSpace, Trailing, Untouched, v

LEMMA InitInformed == Init => Informed
<1> SUFFICES ASSUME Init PROVE Informed
  OBVIOUS
<1> DEFINE w == [output_index |-> 0, current_size |-> DataSize, wrap_flag |-> FALSE,
                 min_input_index |-> DataSize, min_input_wrap_flag |-> FALSE,
                 available_size |-> DataSize, wrapping |-> FALSE,
                 data |-> [i \in Cells |-> NoData]]
<1>1. w \in WriterType
  BY Layout DEF WriterType
<1>2. writer = WriterReset(w)
  BY DEF Init, NewWriter
<1> HIDE DEF w
<1> QED
  BY <1>1, <1>2, ResetUntouched DEF Init, Informed, OutputNotified

LEMMA WriterAdvanceInforms ==
  ASSUME SomeHistory, Inv, Informed, NEW k \in 1 .. DataSize, WriterAdvance(k)
  PROVE  Informed'
<1>1. PICK w :
        /\ writer' = UpdateMinInputIndex(w, reader')
        /\ reader' = [r \in Readers |-> ReaderAdjust(r, reader[r], w)]
        /\ Buffered(w, reader, written + k, taken)
        /\ Buffered(w, reader', written + k, taken)
        /\ w.available_size = WriterSpace(w)
        /\ w.wrap_flag = w.min_input_wrap_flag => ReadersAbove(w, reader') = {}
        /\ w.wrap_flag # w.min_input_wrap_flag =>
             /\ Overlap <= w.output_index
             /\ w.output_index <= w.min_input_index
             /\ \/ ReadersAbove(w, reader') # {}
                \/ \E r \in Readers : reader'[r].input_index <= Overlap
        /\ \E u \in WriterType : w = WriterAdjust(u)
        /\ \/ /\ w.wrap_flag = writer.wrap_flag
              /\ w.min_input_wrap_flag = writer.min_input_wrap_flag
              /\ writer.output_index <= w.output_index
           \/ \A r \in Readers : ~SameLap(reader[r], w)
  BY WriterAdvances
<1>2. written' = written + k /\ written \in Nat /\ taken \in [Readers -> Nat]
  BY TypeParts DEF WriterAdvance, Inv
<1>3. WriterMeasured(w)
  BY <1>1, WriterAdjustMeasures
<1> DEFINE rs == reader'
<1>4. \A r \in Readers :
        /\ ReaderMeasured(r, rs[r], w)
        /\ SameLap(reader[r], w) => rs[r].input_index = reader[r].input_index
        /\ ~SameLap(reader[r], w) /\ SameLap(rs[r], w) =>
             rs[r].input_index + HistorySize[r] <= Overlap
        /\ rs[r] \in ReaderType /\ reader[r] \in ReaderType /\ w \in WriterType
  <2> TAKE r \in Readers
  <2>1. /\ w \in WriterType /\ reader[r] \in ReaderType /\ Placed(r, reader[r], w)
        /\ rs[r] \in ReaderType
    BY <1>1 DEF Buffered, WriterPlaced, ReaderPlaced
  <2>2. rs[r] = ReaderAdjust(r, reader[r], w)
    BY <1>1
  <2> DEFINE x == reader[r]
  <2> HIDE DEF x, rs
  <2>3. /\ ReaderMeasured(r, ReaderAdjust(r, x, w), w)
        /\ SameLap(x, w) => ReaderAdjust(r, x, w).input_index = x.input_index
        /\ ~SameLap(x, w) /\ SameLap(ReaderAdjust(r, x, w), w) =>
             ReaderAdjust(r, x, w).input_index + HistorySize[r] <= Overlap
    BY <2>1, ReaderAdjustMeasures DEF x
  <2> QED
    BY <2>1, <2>2, <2>3 DEF x
<1> HIDE DEF rs
<1>5. Trailing(w, rs)
  <2> SUFFICES ASSUME w.wrap_flag # w.min_input_wrap_flag, NEW r \in Readers, SameLap(rs[r], w)
               PROVE  rs[r].input_index + HistorySize[r] <= w.output_index
    BY DEF Trailing
  <2>1. /\ writer.output_index \in Nat /\ w.output_index \in Nat
        /\ rs[r].input_index \in Nat /\ HistorySize[r] \in Nat /\ Overlap \in Nat
    BY <1>4, TypeParts, WriterFields, ReaderFields, Layout DEF Inv
  <2>2. CASE ~SameLap(reader[r], w)
    <3>1. Overlap <= w.output_index
      BY <1>1
    <3> QED
      BY <1>4, <2>1, <2>2, <3>1
  <2>3. CASE SameLap(reader[r], w)
    <3>1. /\ w.wrap_flag = writer.wrap_flag
          /\ w.min_input_wrap_flag = writer.min_input_wrap_flag
          /\ writer.output_index <= w.output_index
      BY <1>1, <2>3
    <3>2. reader[r].input_index + HistorySize[r] <= writer.output_index
      BY <2>3, <3>1 DEF Informed, Trailing, SameLap
    <3> QED
      BY <1>4, <2>1, <2>3, <3>1, <3>2
  <2> QED
    BY <2>2, <2>3
<1>6. LET v == UpdateMinInputIndex(w, rs)
      IN  v.available_size = WriterSpace(v) /\ Trailing(v, rs) /\ Measured(v, rs)
  <2>1. /\ Buffered(w, rs, written + k, taken) /\ written + k \in Nat
        /\ w.wrap_flag = w.min_input_wrap_flag => ReadersAbove(w, rs) = {}
        /\ w.wrap_flag # w.min_input_wrap_flag =>
             /\ Overlap <= w.output_index
             /\ w.output_index <= w.min_input_index
             /\ \/ ReadersAbove(w, rs) # {}
                \/ \E r \in Readers : rs[r].input_index <= Overlap
    BY <1>1, <1>2 DEF rs
  <2> QED
    BY <1>1, <1>2, <1>3, <1>4, <1>5, <2>1, UpdateTells
<1>7. writer' = UpdateMinInputIndex(w, rs) /\ reader' = rs /\ written' # 0
  BY <1>1, <1>2 DEF rs
<1> QED
  BY <1>6, <1>7 DEF Informed, OutputNotified

LEMMA ReaderAdvanceInforms ==
  ASSUME SomeHistory, Inv, Informed, NEW r \in Readers, NEW k \in 1 .. DataSize,
         ReaderAdvance(r, k)
  PROVE  Informed'
<1>1. PICK z \in ReaderType :
        /\ reader' = [reader EXCEPT ![r] = ReaderAdjust(r, z, writer)]
        /\ Placed(r, z, writer)
        /\ z.input_index + HistorySize[r] <= ReadEnd(z, writer)
  BY ReaderAdvances
<1>2. /\ writer' = UpdateMinInputIndex(writer, reader')
      /\ Buffered(writer, reader', written, taken') /\ taken' \in [Readers -> Nat]
      /\ writer.wrap_flag = writer.min_input_wrap_flag => ReadersAbove(writer, reader') = {}
      /\ writer.wrap_flag # writer.min_input_wrap_flag =>
           /\ Overlap <= writer.output_index
           /\ writer.output_index <= writer.min_input_index
           /\ \/ ReadersAbove(writer, reader') # {}
              \/ \E q \in Readers : reader'[q].input_index <= Overlap
  BY ReaderAdvances
<1>3. /\ writer \in WriterType /\ reader \in [Readers -> ReaderType] /\ written \in Nat
      /\ written' = written
  BY TypeParts DEF ReaderAdvance, Inv
<1>4. written # 0
  <2> SUFFICES ASSUME written = 0 PROVE FALSE
    OBVIOUS
  <2>1. reader[r].available_size = 0
    BY DEF Informed, Untouched
  <2>2. slice[r].size \in Nat /\ slice[r].size <= 0
    BY <2>1, TypeParts, SourceIsNoReader DEF ReaderAdvance, Inv, Claimed
  <2>3. HistorySize[r] \in Nat /\ k \in Nat /\ 0 < k /\ k <= slice[r].size - HistorySize[r]
    BY <2>2, Layout DEF ReaderAdvance
  <2> QED
    BY <2>2, <2>3
<1> DEFINE rs == reader'
           y == ReaderAdjust(r, z, writer)
<1>5. /\ ReaderMeasured(r, y, writer)
      /\ SameLap(z, writer) => SameLap(y, writer) /\ y.input_index = z.input_index
      /\ ~SameLap(z, writer) /\ SameLap(y, writer) => y.input_index + HistorySize[r] <= Overlap
  BY <1>1, <1>3, ReaderAdjustMeasures
<1>6. rs[r] = y /\ \A q \in Readers : q # r => rs[q] = reader[q]
  BY <1>1, <1>3
<1> HIDE DEF rs, y
<1>7. \A q \in Readers : ReaderMeasured(q, rs[q], writer)
  BY <1>4, <1>5, <1>6 DEF Informed, Measured
<1>8. Trailing(writer, rs)
  <2> SUFFICES ASSUME writer.wrap_flag # writer.min_input_wrap_flag,
                      NEW q \in Readers, SameLap(rs[q], writer)
               PROVE  rs[q].input_index + HistorySize[q] <= writer.output_index
    BY DEF Trailing
  <2>1. CASE q # r
    BY <1>6, <2>1 DEF Informed, Trailing
  <2>2. CASE q = r /\ SameLap(z, writer)
    BY <1>1, <1>5, <1>6, <2>2 DEF ReadEnd, SameLap
  <2>3. CASE q = r /\ ~SameLap(z, writer)
    <3>1. /\ rs[r] \in ReaderType /\ rs[r].input_index + HistorySize[r] <= Overlap
          /\ Overlap <= writer.output_index
      BY <1>2, <1>5, <1>6, <2>3 DEF Buffered, rs
    <3>2. /\ rs[r].input_index \in Nat /\ HistorySize[r] \in Nat
          /\ Overlap \in Nat /\ writer.output_index \in Nat
      BY <1>3, <3>1, ReaderFields, WriterFields, Layout
    <3> QED
      BY <2>3, <3>1, <3>2
  <2> QED
    BY <2>1, <2>2, <2>3
<1>9. LET v == UpdateMinInputIndex(writer, rs)
      IN  v.available_size = WriterSpace(v) /\ Trailing(v, rs) /\ Measured(v, rs)
  <2> DEFINE t == taken'
  <2> HIDE DEF t
  <2>1. /\ Buffered(writer, rs, written, t) /\ t \in [Readers -> Nat]
        /\ writer.wrap_flag = writer.min_input_wrap_flag => ReadersAbove(writer, rs) = {}
        /\ writer.wrap_flag # writer.min_input_wrap_flag =>
             /\ Overlap <= writer.output_index
             /\ writer.output_index <= writer.min_input_index
             /\ \/ ReadersAbove(writer, rs) # {}
                \/ \E q \in Readers : rs[q].input_index <= Overlap
    BY <1>2 DEF rs, t
  <2>2. writer.available_size = WriterSpace(writer) /\ WriterMeasured(writer)
    BY <1>4 DEF Informed, OutputNotified, Measured
  <2> QED
    BY <1>3, <1>7, <1>8, <2>1, <2>2, UpdateTells
<1>10. writer' = UpdateMinInputIndex(writer, rs) /\ reader' = rs /\ written' # 0
  BY <1>2, <1>3, <1>4 DEF rs
<1> QED
  BY <1>9, <1>10 DEF Informed, OutputNotified

LEMMA InformedStep ==
  ASSUME SomeHistory, ResetAfterSource = {}, Inv, Informed, [Next]_vars
  PROVE  Informed'
<1>1. CASE UNCHANGED <<writer, reader, written>>
  BY <1>1 DEF Informed, OutputNotified
<1>2. CASE Reset
  <2>1. writer \in WriterType
    BY TypeParts DEF Inv
  <2> DEFINE rs == reader'
  <2>2. rs = [r \in Readers |-> ReaderReset(r, {})]
    BY <1>2 DEF Reset
  <2> HIDE DEF rs
  <2>3. LET v == WriterReset(writer)
        IN  v.available_size = WriterSpace(v) /\ Trailing(v, rs) /\ Untouched(v, rs)
    BY <2>1, <2>2, ResetUntouched
  <2>4. writer' = WriterReset(writer) /\ reader' = rs /\ written' = 0
    BY <1>2 DEF Reset, rs
  <2> QED
    BY <2>3, <2>4 DEF Informed, OutputNotified
<1>3. ASSUME Next PROVE Informed'
  <2>1. ASSUME NEW b \in Blocks, Schedule(b) PROVE Informed'
    BY <1>1, <2>1 DEF Schedule
  <2>2. CASE EnterRelaxedMode \/ WriterSlice \/ SourceEof \/ \E r \in Readers : ReaderSlice(r)
    BY <1>1, <2>2 DEF EnterRelaxedMode, WriterSlice, SourceEof, ReaderSlice
  <2> QED
    BY <1>2, <1>3, <2>1, <2>2, WriterAdvanceInforms, ReaderAdvanceInforms DEF Next
<1> QED
  BY <1>1, <1>3 DEF vars

(* "Notify the output about the change, if there was any"                  *)
(* (circular_buffer.cpp:360) keeps its promise in every buffer one of      *)
(* whose readers has a history, and in general in no other.                *)
THEOREM WriterIsNotified ==
  ASSUME SomeHistory, ResetAfterSource = {}
  PROVE  Spec => []OutputNotified
<1>1. Informed /\ Inv /\ [Next]_vars => Informed'
  BY InformedStep
<1>2. Informed => OutputNotified
  BY DEF Informed
<1> QED
  BY InitInformed, Memory, <1>1, <1>2, PTL DEF Spec
(***************************************************************************)
(* Somebody can always go on.  Where the writer has no room for a slice    *)
(* and may not wrap, a reader below the overlap has nearly the whole lap   *)
(* to read; a reader that cannot read the rest of the lap has left the     *)
(* writer nearly the whole buffer.  Only the first reading after the       *)
(* writer wrapped may go by the old measure of what is left of the lap.    *)
(***************************************************************************)
LEMMA OverlapCovers ==
  \A r \in Readers : HistorySize[r] + RequiredSize[r] <= Overlap
<1> DEFINE Inputs == {MinCombinedInputSize(r) : r \in Readers}
<1>1. \A r \in Readers : MinCombinedInputSize(r) \in Nat
  BY Layout DEF MinCombinedInputSize
<1>2. IsFiniteSet(Inputs) /\ Inputs # {} /\ Inputs \in SUBSET Nat
  <2>1. [r \in Readers |-> MinCombinedInputSize(r)] \in Surjection(Readers, Inputs)
    BY DEF Surjection
  <2> QED
    BY <1>1, <2>1, FS_Surjection, SizesAssumption
<1>3. Max(Inputs) \in Nat /\ \A y \in Inputs : y <= Max(Inputs)
  <2> HIDE DEF Inputs
  <2> QED
    BY <1>2, MaxOfNaturals
<1>4. Overlap = RoundUp(Max(Inputs))
  BY DEF Overlap
<1>5. TAKE r \in Readers
<1>6. MinCombinedInputSize(r) <= Max(Inputs)
  BY <1>3
<1> HIDE DEF Inputs
<1>7. Max(Inputs) <= Overlap
  BY <1>3, <1>4, RoundUpBounds
<1> QED
  BY <1>1, <1>3, <1>6, <1>7, Layout DEF MinCombinedInputSize

OutputThresholdIn(relaxed) ==
  IF relaxed \/ writer.wrapping THEN MinOutputSize ELSE SuggestedOutputSize

InputThresholdIn(relaxed, r) ==
  HistorySize[r] + IF relaxed \/ reader[r].wrapping THEN RequiredSize[r] ELSE SuggestedSize[r]

LEMMA SomebodyCanGo ==
  ASSUME Inv, Informed,
         NEW relaxed \in BOOLEAN, NEW out, NEW in,
         out = IF relaxed THEN MinOutputSize ELSE SuggestedOutputSize,
         in = IF relaxed THEN RequiredSize ELSE SuggestedSize,
         Room(out, in)
  PROVE  \/ OutputThresholdIn(relaxed) <= writer.available_size
         \/ \E r \in Readers : InputThresholdIn(relaxed, r) <= reader[r].available_size
<1>1. /\ writer \in WriterType /\ reader \in [Readers -> ReaderType]
      /\ Tracked(writer, reader) /\ Settled(writer)
      /\ DataSize - MinOutputSize < writer.current_size
      /\ Buffered(writer, reader, written, taken)
  BY TypeParts DEF Inv, Buffered, WriterPlaced
<1>2. /\ writer.output_index \in Nat /\ writer.output_index <= DataSize
      /\ writer.current_size \in Nat /\ writer.min_input_index \in Nat
  BY <1>1, WriterFields
<1>3. /\ out \in Nat /\ MinOutputSize <= out /\ out <= SuggestedOutputSize
      /\ OutputThresholdIn(relaxed) = MinOutputSize \/ OutputThresholdIn(relaxed) = out
      /\ writer.wrapping => OutputThresholdIn(relaxed) = MinOutputSize
  BY Layout DEF OutputThresholdIn
<1>4. \A r \in Readers :
        /\ in[r] \in Nat /\ 0 < in[r] /\ HistorySize[r] \in Nat
        /\ InputThresholdIn(relaxed, r) \in Nat /\ InputThresholdIn(relaxed, r) <= HistorySize[r] + in[r]
        /\ InputThresholdIn(relaxed, r) <= HistorySize[r] + SuggestedSize[r]
        /\ reader[r].wrapping => InputThresholdIn(relaxed, r) = HistorySize[r] + RequiredSize[r]
        /\ out + MinOutputSize + Overlap + HistorySize[r] + in[r] <= DataSize + 2
        /\ reader[r].input_index \in Nat
  BY <1>1, ReaderFields, Layout DEF InputThresholdIn, Room
<1>5. CASE written = 0
  <2>1. writer.available_size = DataSize - MaxHistorySize
    BY <1>5 DEF Informed, Untouched, OutputNotified, WriterSpace
  <2>2. PICK r \in Readers : TRUE
    BY Layout
  <2> QED
    BY <1>3, <1>4, <2>1, <2>2, Layout
<1>6. CASE written # 0 /\ writer.wrap_flag = writer.min_input_wrap_flag
  <2>1. /\ writer.available_size = DataSize - writer.output_index
        /\ writer.wrapping <=> DataSize - writer.output_index < SuggestedOutputSize
        /\ \A r \in Readers : reader[r].available_size = ReadEnd(reader[r], writer)
                                                         - reader[r].input_index
    BY <1>6 DEF Informed, OutputNotified, WriterSpace, Measured, WriterMeasured, ReaderMeasured
  <2>2. CASE DataSize - writer.output_index >= MinOutputSize
    BY <1>2, <1>3, <2>1, <2>2, Layout
  <2>3. CASE DataSize < writer.output_index + MinOutputSize
    <3>1. writer.min_input_index < Overlap
      BY <1>1, <1>2, <1>6, <2>3, Layout DEF Settled, MustWrap
    <3>2. PICK r \in Readers : writer.min_input_index = reader[r].input_index
      BY <1>1, <1>6 DEF Tracked, Bounded, Bounding
    <3>3. SameLap(reader[r], writer)
      BY <1>1, <1>6, TrackedFacts
    <3>4. reader[r].available_size = writer.output_index - writer.min_input_index
      BY <2>1, <3>2, <3>3 DEF ReadEnd, SameLap
    <3>5. HistorySize[r] + in[r] <= reader[r].available_size
      BY <1>2, <1>3, <1>4, <2>3, <3>1, <3>4, Layout
    <3>6. InputThresholdIn(relaxed, r) <= reader[r].available_size
      BY <1>2, <1>4, <3>4, <3>5
    <3> QED
      BY <3>6
  <2> QED
    BY <1>2, <2>2, <2>3, Layout
<1>7. CASE written # 0 /\ writer.wrap_flag # writer.min_input_wrap_flag
  <2>1. PICK r \in ReadersAbove(writer, reader) : writer.min_input_index = reader[r].input_index
    BY <1>1, <1>7 DEF Tracked, Bounded, Bounding
  <2>2. r \in Readers /\ ~SameLap(reader[r], writer)
    BY DEF ReadersAbove, SameLap
  <2> DEFINE left == writer.current_size - writer.min_input_index
  <2>3. reader[r].available_size = left /\ left \in Int
    BY <1>2, <1>7, <2>1, <2>2 DEF Informed, Measured, ReaderMeasured, ReadEnd, SameLap
  <2>4. \/ writer.output_index = Overlap
        \/ /\ Overlap < left
           /\ reader[r].wrapping \/ HistorySize[r] + SuggestedSize[r] <= left
    BY <1>7, <2>1, <2>2 DEF Informed, Measured, ReaderMeasured
  <2>5. writer.available_size = writer.min_input_index - writer.output_index
    BY <1>7 DEF Informed, OutputNotified, WriterSpace
  <2>6. CASE HistorySize[r] + in[r] <= left
    <3>1. InputThresholdIn(relaxed, r) <= left
      BY <1>4, <2>2, <2>3, <2>6
    <3> QED
      BY <2>2, <2>3, <3>1
  <2>7. CASE left < HistorySize[r] + in[r] /\ writer.output_index = Overlap
    <3>1. out <= writer.available_size
      BY <1>1, <1>2, <1>3, <1>4, <2>2, <2>5, <2>7, Layout
    <3> QED
      BY <1>2, <1>3, <2>5, <3>1, Layout
  <2>8. CASE Overlap < left /\ (reader[r].wrapping \/ HistorySize[r] + SuggestedSize[r] <= left)
    <3>1. HistorySize[r] + RequiredSize[r] <= Overlap
      BY <2>2, OverlapCovers
    <3>2. InputThresholdIn(relaxed, r) <= left
      BY <1>4, <2>2, <2>3, <2>8, <3>1, Layout
    <3> QED
      BY <2>2, <2>3, <3>2
  <2>9. HistorySize[r] + in[r] \in Int
    BY <1>4, <2>2
  <2> QED
    BY <2>3, <2>4, <2>6, <2>7, <2>8, <2>9
<1> QED
  BY <1>5, <1>6, <1>7

LEMMA GoingIsProgress ==
  ASSUME Inv,
         \/ OutputThresholdIn(relaxed_mode) <= writer.available_size
         \/ \E r \in Readers : InputThresholdIn(relaxed_mode, r) <= reader[r].available_size
  PROVE  Progress
<1> USE DEF OutputThresholdIn, InputThresholdIn, OutputThreshold, InputThreshold
<1>1. CASE OutputThreshold <= writer.available_size
  <2>1. OutputThreshold \in Nat /\ writer.available_size \in Nat
    BY TypeParts, WriterFields, Layout DEF Inv, OutputThreshold
  <2> QED
    BY <1>1, <2>1, SourceIsNoReader DEF Progress, Schedulable
<1>2. ASSUME NEW r \in Readers, InputThreshold(r) <= reader[r].available_size
      PROVE  Progress
  <2>1. reader[r].available_size \in Nat /\ InputThreshold(r) \in Nat
    BY TypeParts, ReaderFields, Layout DEF Inv, InputThreshold
  <2> QED
    BY <1>2, <2>1, SourceIsNoReader DEF Progress, Schedulable
<1> QED
  BY <1>1, <1>2

(* Until the end of the stream the buffer never brings all its blocks to a *)
(* halt, when one of its readers has a history and it has room for a slice *)
(* of suggested size on both sides of a reader at the end of a lap.        *)
THEOREM NeverHalts ==
  ASSUME SomeHistory, ResetAfterSource = {}, Room(SuggestedOutputSize, SuggestedSize)
  PROVE  Spec => []Progress
<1>1. Room(MinOutputSize, RequiredSize)
  <2> SUFFICES ASSUME NEW r \in Readers
               PROVE  MinOutputSize + MinOutputSize + Overlap + HistorySize[r] + RequiredSize[r]
                        <= DataSize + 2
    BY DEF Room
  <2>1. SuggestedOutputSize + MinOutputSize + Overlap + HistorySize[r] + SuggestedSize[r]
          <= DataSize + 2
    BY DEF Room
  <2> QED
    BY <2>1, Layout
<1>2. Inv /\ Informed => Progress
  <2> SUFFICES ASSUME Inv, Informed PROVE Progress
    OBVIOUS
  <2> relaxed_mode \in BOOLEAN
    BY DEF Inv, TypeOK
  <2>1. CASE relaxed_mode
    BY <1>1, <2>1, SomebodyCanGo, GoingIsProgress
  <2>2. CASE ~relaxed_mode
    BY <2>2, SomebodyCanGo, GoingIsProgress
  <2> QED
    BY <2>1, <2>2
<1>3. Informed /\ Inv /\ [Next]_vars => Informed'
  BY InformedStep
<1> QED
  BY InitInformed, Memory, <1>2, <1>3, PTL DEF Spec

(* Room for the required sizes is enough for the relaxed mode: such a      *)
(* buffer may make its blocks wait for it, never for ever.  (It is more    *)
(* than the CHECK of addReader, LayoutAssumption, asks for when the        *)
(* smallest slice of the output has three elements or more.)               *)
THEOREM NeverHaltsForGood ==
  ASSUME SomeHistory, ResetAfterSource = {}, Room(MinOutputSize, RequiredSize)
  PROVE  Spec => []RelaxingHelps
<1>1. Inv /\ Informed => RelaxingHelps
  <2> SUFFICES ASSUME Inv, Informed PROVE RelaxingHelps
    OBVIOUS
  <2>1. \/ OutputThresholdIn(TRUE) <= writer.available_size
        \/ \E r \in Readers : InputThresholdIn(TRUE, r) <= reader[r].available_size
    BY SomebodyCanGo
  <2> QED
    BY <2>1 DEF OutputThresholdIn, InputThresholdIn, RelaxingHelps, MinCombinedInputSize
<1>2. Informed /\ Inv /\ [Next]_vars => Informed'
  BY InformedStep
<1> QED
  BY InitInformed, Memory, <1>1, <1>2, PTL DEF Spec
=============================================================================
