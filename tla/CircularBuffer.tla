--------------------------- MODULE CircularBuffer ---------------------------
(***************************************************************************)
(* The circular buffer between the output channel of one block and the     *)
(* input channels of the blocks connected to it                            *)
(* (src/hvylya/pipelines/async/circular_buffer.cpp), together with the way *)
(* Block::process and Pipeline::trySchedulingBlock use it.                 *)
(*                                                                         *)
(* Slices must be contiguous in memory, so neither side splits an access   *)
(* at the end of the buffer.  A writer too close to the end copies its     *)
(* last Overlap elements to the start and goes on after them; a reader     *)
(* with at most Overlap elements left before the point where the writer    *)
(* wrapped moves to their copy.  wrap_flag tells the two laps apart.       *)
(*                                                                         *)
(* Every action below runs under the mutex of the buffer.  Between taking  *)
(* a slice and advancing past it a block works on the buffer's memory      *)
(* without the mutex, while other blocks take slices, advance and wrap.    *)
(***************************************************************************)
EXTENDS Integers, FiniteSets, FiniteSetsExt

CONSTANTS
  Source,              \* the block that writes
  Readers,             \* the blocks that read
  DataSize,            \* data_size_: elements of the buffer, without padding
  Alignment,           \* elements per SIMD vector
  MinOutputSize,       \* requiredSize() of the output
  SuggestedOutputSize, \* suggestedSize() of the output
  HistorySize,         \* the same three, and the delay, of every input
  Delay,
  RequiredSize,
  SuggestedSize,
  StreamLength,        \* bound: elements the source has before end of file
  ResetAfterSource,    \* readers whose blocks Pipeline::reset visits after
                       \* the block of the writer
  MaxResets            \* bound: resets of the pipeline

VARIABLES
  writer,       \* CircularBufferWriter
  reader,       \* reader[r]: CircularBufferReader
  state,        \* state[b]: Block::state_
  slice,        \* slice[b]: the slice a running block works on
  relaxed_mode, \* Pipeline::relaxed_mode_
  eof,          \* OutputState::eof_ of the source
  written,      \* history: elements the source has written
  taken,        \* history: taken[r], elements r has consumed
  resets        \* resets so far

vars == <<writer, reader, state, slice, relaxed_mode, eof, written, taken, resets>>

Blocks == Readers \cup {Source}

(***************************************************************************)
(* Layout, as addReader and reset leave it once every reader is connected. *)
(***************************************************************************)
RoundUp(n) == ((n + Alignment - 1) \div Alignment) * Alignment

MinCombinedInputSize(r) == HistorySize[r] + RequiredSize[r]

Overlap == RoundUp(Max({MinCombinedInputSize(r) : r \in Readers}))

MaxHistorySize == RoundUp(Max({HistorySize[r] : r \in Readers}))

(* The sizes the filters declare: InputState and OutputState keep the      *)
(* suggested size at least the required one, FirFilter and FftFilter delay *)
(* by at most their history, and the rest are the CHECKs of the            *)
(* constructor of the writer, of addReader and of reset.                   *)
ASSUME SizesAssumption ==
  /\ IsFiniteSet(Readers) /\ Readers # {} /\ Source \notin Readers
  /\ DataSize \in Nat /\ Alignment \in Nat \ {0}
  /\ MinOutputSize \in Nat \ {0}
  /\ SuggestedOutputSize \in Nat /\ MinOutputSize <= SuggestedOutputSize
  /\ HistorySize \in [Readers -> Nat]
  /\ RequiredSize \in [Readers -> Nat \ {0}]
  /\ SuggestedSize \in [Readers -> Nat]
  /\ Delay \in [Readers -> Nat]
  /\ \A r \in Readers : /\ RequiredSize[r] <= SuggestedSize[r]
                        /\ Delay[r] <= HistorySize[r]
  /\ ResetAfterSource \subseteq Readers
  /\ StreamLength \in Nat /\ MaxResets \in Nat

ASSUME LayoutAssumption == 2 * Overlap + MinOutputSize <= DataSize

Cells == 0 .. DataSize - 1

NoData == -1     \* what a cell holds before the stream first reaches it

NoSlice == [start |-> 0, size |-> 0]
-----------------------------------------------------------------------------
(***************************************************************************)
(* CircularBufferWriter::adjust.  The writer wraps only when no reader is  *)
(* left on the previous lap and the copy destroys nothing they may read.   *)
(***************************************************************************)
(* Mutant: with room left for a slice.                                   *)
MustWrapEarly(w) ==
  /\ w.wrap_flag = w.min_input_wrap_flag
  /\ w.output_index + MinOutputSize >= DataSize
  /\ w.min_input_index >= Overlap

MustWrap(w) ==
  /\ w.wrap_flag = w.min_input_wrap_flag
  /\ w.output_index + MinOutputSize > DataSize
  /\ w.min_input_index >= Overlap

(* Mutant: without the copy.                                             *)
WriterWrapNoCopy(w) ==
  [w EXCEPT !.current_size = w.output_index,
            !.output_index = Overlap,
            !.wrap_flag = ~w.wrap_flag]

WriterWrap(w) ==
  [w EXCEPT !.current_size = w.output_index,
            !.data = [i \in Cells |-> IF i < Overlap
                                        THEN w.data[w.output_index - Overlap + i]
                                        ELSE w.data[i]],
            !.output_index = Overlap,
            !.wrap_flag = ~w.wrap_flag]

(* Mutant: ignoring the readers of the previous lap.                     *)
WriterSpaceToEnd(w) == DataSize - w.output_index

WriterSpace(w) ==
  IF w.wrap_flag = w.min_input_wrap_flag
    THEN DataSize - w.output_index
    ELSE w.min_input_index - w.output_index

WriterMeasure(w) ==
  [w EXCEPT !.available_size = WriterSpace(w),
            !.wrapping = DataSize - w.output_index < SuggestedOutputSize]

WriterAdjust(w) == WriterMeasure(IF MustWrap(w) THEN WriterWrap(w) ELSE w)

(***************************************************************************)
(* CircularBufferReader::adjust.                                           *)
(***************************************************************************)
(* Mutant: as soon as the writer has wrapped.                            *)
ReaderWrapAtOnce(x, w) ==
  IF x.wrap_flag # w.wrap_flag
    THEN [x EXCEPT !.input_index = Overlap - (w.current_size - x.input_index),
                   !.wrap_flag = ~x.wrap_flag]
    ELSE x

ReaderWrap(x, w) ==
  IF x.wrap_flag # w.wrap_flag /\ w.current_size - x.input_index <= Overlap
    THEN [x EXCEPT !.input_index = Overlap - (w.current_size - x.input_index),
                   !.wrap_flag = ~x.wrap_flag]
    ELSE x

(* Mutant: reading on behind the point where the writer wrapped.         *)
ReadEndOfData(x, w) == IF x.wrap_flag = w.wrap_flag THEN w.output_index ELSE DataSize

ReadEnd(x, w) == IF x.wrap_flag = w.wrap_flag THEN w.output_index ELSE w.current_size

LapEnd(x, w) == IF x.wrap_flag = w.wrap_flag THEN DataSize ELSE w.current_size

ReaderMeasure(r, x, w) ==
  [x EXCEPT !.available_size = ReadEnd(x, w) - x.input_index,
            !.wrapping = LapEnd(x, w) - x.input_index < HistorySize[r] + SuggestedSize[r]]

ReaderAdjust(r, x, w) == ReaderMeasure(r, ReaderWrap(x, w), w)

(***************************************************************************)
(* CircularBufferWriter::updateMinInputIndex.  Readers still on the        *)
(* previous lap (above the writer) bound it; if there are none, the        *)
(* slowest reader of this lap (below the writer) does.                     *)
(***************************************************************************)
ReadersAbove(w, rs) == {r \in Readers : rs[r].wrap_flag # w.wrap_flag}

(* Mutant: the comparison turned round.                                  *)
FastestIndex(w, rs) ==
  LET above == ReadersAbove(w, rs)
  IN  Max({rs[r].input_index : r \in IF above = {} THEN Readers ELSE above})

SlowestIndex(w, rs) ==
  LET above == ReadersAbove(w, rs)
  IN  Min({rs[r].input_index : r \in IF above = {} THEN Readers ELSE above})

(* Mutant: the writer is not told.                                       *)
UpdateMinInputIndexSilently(w, rs) ==
  [w EXCEPT !.min_input_index = SlowestIndex(w, rs),
            !.min_input_wrap_flag = IF ReadersAbove(w, rs) = {}
                                      THEN w.wrap_flag
                                      ELSE ~w.wrap_flag]

UpdateMinInputIndex(w, rs) ==
  LET updated == [w EXCEPT !.min_input_index = SlowestIndex(w, rs),
                           !.min_input_wrap_flag = IF ReadersAbove(w, rs) = {}
                                                     THEN w.wrap_flag
                                                     ELSE ~w.wrap_flag]
  IN  IF updated.min_input_index # w.min_input_index
        THEN WriterAdjust(updated)
        ELSE updated
-----------------------------------------------------------------------------
(***************************************************************************)
(* Initial state: what the last CircularBufferWriter::addReader leaves.    *)
(***************************************************************************)
StartIndex(r) == MaxHistorySize + Delay[r] - HistorySize[r]

WriterReset(w) ==
  [w EXCEPT !.current_size = DataSize,
            !.wrap_flag = FALSE,
            !.min_input_wrap_flag = FALSE,
            !.wrapping = FALSE,
            !.output_index = MaxHistorySize,
            !.min_input_index = Min({MaxHistorySize} \cup {StartIndex(r) : r \in Readers}),
            !.available_size = DataSize - MaxHistorySize]

NewWriter ==
  WriterReset([output_index |-> 0, current_size |-> DataSize, wrap_flag |-> FALSE,
               min_input_index |-> DataSize, min_input_wrap_flag |-> FALSE,
               available_size |-> DataSize, wrapping |-> FALSE,
               data |-> [i \in Cells |-> NoData]])

(* CircularBufferReader::reset and then the index CircularBufferWriter::reset *)
(* gives the reader, in the order in which Pipeline::reset visits the blocks.  *)
ReaderReset(r, late) ==
  [input_index |-> IF r \in late THEN 0 ELSE StartIndex(r),
   wrap_flag |-> FALSE, available_size |-> 0, wrapping |-> FALSE]

Init ==
  /\ writer = NewWriter
  /\ reader = [r \in Readers |-> ReaderReset(r, {})]
  /\ state = [b \in Blocks |-> "Idle"]
  /\ slice = [b \in Blocks |-> NoSlice]
  /\ relaxed_mode = FALSE
  /\ eof = FALSE
  /\ written = 0
  /\ taken = [r \in Readers |-> 0]
  /\ resets = 0
-----------------------------------------------------------------------------
(***************************************************************************)
(* Scheduling: the size tests of Pipeline::trySchedulingBlock.             *)
(***************************************************************************)
OutputThreshold ==
  IF relaxed_mode \/ writer.wrapping THEN MinOutputSize ELSE SuggestedOutputSize

InputThreshold(r) ==
  HistorySize[r] + IF relaxed_mode \/ reader[r].wrapping THEN RequiredSize[r]
                                                         ELSE SuggestedSize[r]

Schedulable(b) ==
  IF b = Source THEN ~eof /\ writer.available_size >= OutputThreshold
                ELSE reader[b].available_size >= InputThreshold(b)

Schedule(b) ==
  /\ state[b] = "Idle"
  /\ Schedulable(b)
  /\ state' = [state EXCEPT ![b] = "Scheduled"]
  /\ UNCHANGED <<writer, reader, slice, relaxed_mode, eof, written, taken, resets>>

(* The pipeline relaxes the sizes when no thread runs and none is queued.  *)
EnterRelaxedMode ==
  /\ ~relaxed_mode
  /\ \A b \in Blocks : state[b] = "Idle"
  /\ relaxed_mode' = TRUE
  /\ UNCHANGED <<writer, reader, state, slice, eof, written, taken, resets>>

(***************************************************************************)
(* Block::process: take a slice, let the filter work on it, advance.       *)
(***************************************************************************)
WriterSlice ==
  /\ state[Source] = "Scheduled"
  /\ state' = [state EXCEPT ![Source] = "Running"]
  /\ slice' = [slice EXCEPT ![Source] = [start |-> writer.output_index,
                                         size |-> writer.available_size]]
  /\ UNCHANGED <<writer, reader, relaxed_mode, eof, written, taken, resets>>

ReaderSlice(r) ==
  /\ state[r] = "Scheduled"
  /\ state' = [state EXCEPT ![r] = "Running"]
  /\ slice' = [slice EXCEPT ![r] = [start |-> reader[r].input_index,
                                    size |-> reader[r].available_size]]
  /\ UNCHANGED <<writer, reader, relaxed_mode, eof, written, taken, resets>>

Finish(b) ==
  /\ state' = [state EXCEPT ![b] = "Idle"]
  /\ slice' = [slice EXCEPT ![b] = NoSlice]

(* The filter fills the first n elements of its slice.                     *)
Filled(w, start, n) ==
  [w EXCEPT !.data = [i \in Cells |-> IF i \in start .. start + n - 1
                                        THEN written + (i - start)
                                        ELSE w.data[i]]]

(* CircularBufferWriter::advance.  (The adjusted writer is bound by \E and *)
(* not by LET so that TLC computes it once.)                               *)
WriterAdvance(n) ==
  LET filled == Filled(writer, slice[Source].start, n)
      moved  == [filled EXCEPT !.output_index = writer.output_index + n]
  IN  /\ state[Source] = "Running"
      /\ n \in 1 .. slice[Source].size
      /\ written + n <= StreamLength
      /\ Finish(Source)
      /\ written' = written + n
      /\ \E adjusted \in {WriterAdjust(moved)} :
           /\ reader' = [r \in Readers |-> ReaderAdjust(r, reader[r], adjusted)]
           /\ writer' = UpdateMinInputIndex(adjusted, reader')
      /\ UNCHANGED <<relaxed_mode, eof, taken, resets>>

(* The source has nothing left and says so instead of advancing.           *)
SourceEof ==
  /\ state[Source] = "Running"
  /\ written = StreamLength
  /\ eof' = TRUE
  /\ Finish(Source)
  /\ UNCHANGED <<writer, reader, relaxed_mode, written, taken, resets>>

(* CircularBufferReader::advance.                                          *)
ReaderAdvance(r, n) ==
  LET moved == [reader[r] EXCEPT !.input_index = reader[r].input_index + n]
  IN  /\ state[r] = "Running"
      /\ n \in 1 .. slice[r].size - HistorySize[r]
      /\ n % RequiredSize[r] = 0
      /\ Finish(r)
      /\ taken' = [taken EXCEPT ![r] = taken[r] + n]
      /\ reader' = [reader EXCEPT ![r] = ReaderAdjust(r, moved, writer)]
      /\ writer' = UpdateMinInputIndex(writer, reader')
      /\ UNCHANGED <<relaxed_mode, eof, written, resets>>

(* Pipeline::reset of a paused pipeline none of whose threads is inside a  *)
(* filter: every block resets its readers and then its writer.             *)
Reset ==
  /\ resets < MaxResets
  /\ \A b \in Blocks : state[b] # "Running"
  /\ writer' = WriterReset(writer)
  /\ reader' = [r \in Readers |-> ReaderReset(r, ResetAfterSource)]
  /\ state' = [b \in Blocks |-> "Idle"]
  /\ written' = 0
  /\ taken' = [r \in Readers |-> 0]
  /\ resets' = resets + 1
  /\ UNCHANGED <<slice, relaxed_mode, eof>>

Next ==
  \/ \E b \in Blocks : Schedule(b)
  \/ EnterRelaxedMode
  \/ WriterSlice
  \/ \E n \in 1 .. DataSize : WriterAdvance(n)
  \/ SourceEof
  \/ \E r \in Readers : ReaderSlice(r)
  \/ \E r \in Readers, n \in 1 .. DataSize : ReaderAdvance(r, n)
  \/ Reset

Spec == Init /\ [][Next]_vars

SourceStep ==
  \/ Schedule(Source)
  \/ WriterSlice
  \/ \E n \in 1 .. DataSize : WriterAdvance(n)
  \/ SourceEof

ReaderStep(r) ==
  \/ Schedule(r)
  \/ ReaderSlice(r)
  \/ \E n \in 1 .. DataSize : ReaderAdvance(r, n)

(* The worker threads keep scheduling and running every block that can     *)
(* run, and the last idle one relaxes the sizes.                           *)
Fairness ==
  /\ WF_vars(SourceStep)
  /\ \A r \in Readers : WF_vars(ReaderStep(r))
  /\ WF_vars(EnterRelaxedMode)

FairSpec == Spec /\ Fairness
-----------------------------------------------------------------------------
(***************************************************************************)
(* Properties.                                                             *)
(***************************************************************************)

(* Types: no index or size is ever negative, which an unsigned size_t of   *)
(* the code could not hold, and none exceeds the buffer.                   *)
WriterType ==
  [output_index : 0 .. DataSize, current_size : 0 .. DataSize, wrap_flag : BOOLEAN,
   min_input_index : 0 .. DataSize, min_input_wrap_flag : BOOLEAN,
   available_size : 0 .. DataSize, wrapping : BOOLEAN,
   data : [Cells -> {NoData} \cup Nat]]

ReaderType ==
  [input_index : 0 .. DataSize, wrap_flag : BOOLEAN,
   available_size : 0 .. DataSize, wrapping : BOOLEAN]

TypeOK ==
  /\ writer \in WriterType
  /\ reader \in [Readers -> ReaderType]
  /\ state \in [Blocks -> {"Idle", "Scheduled", "Running"}]
  /\ slice \in [Blocks -> [start : 0 .. DataSize, size : 0 .. DataSize]]
  /\ relaxed_mode \in BOOLEAN /\ eof \in BOOLEAN
  /\ written \in 0 .. StreamLength
  /\ taken \in [Readers -> Nat]
  /\ resets \in 0 .. MaxResets

(* The CHECKs of CircularBufferWriter::verify, which every slice and every *)
(* advance evaluates, never abort the program.                             *)
VerifyHolds ==
  /\ writer.output_index <= DataSize
  /\ writer.current_size <= DataSize
  /\ writer.min_input_index <= writer.current_size
  /\ \A r \in Readers :
       LET x == reader[r]
       IN  /\ \/ writer.wrap_flag = x.wrap_flag
              \/ x.input_index >= writer.min_input_index
           /\ x.input_index + HistorySize[r] <= DataSize
           /\ \/ writer.wrap_flag = x.wrap_flag
              \/ x.input_index + HistorySize[r] <= writer.current_size
           /\ \/ writer.wrap_flag # writer.min_input_wrap_flag
              \/ writer.output_index >= x.input_index

(* The sizes a block was scheduled for are tested without the mutex and    *)
(* used later by slice(): whatever the other blocks do in between, the     *)
(* CHECKs of CircularBufferReader::slice and CircularBufferWriter::slice   *)
(* hold when the block gets to run.                                        *)
SliceReady ==
  /\ state[Source] = "Scheduled" =>
       /\ writer.available_size >= MinOutputSize
       /\ writer.output_index + writer.available_size <= DataSize
       /\ \/ writer.wrap_flag = writer.min_input_wrap_flag
          \/ writer.output_index + writer.available_size <= writer.min_input_index
  /\ \A r \in Readers : state[r] = "Scheduled" =>
       /\ reader[r].available_size >= MinCombinedInputSize(r)
       /\ reader[r].input_index + reader[r].available_size <= DataSize
       /\ \/ writer.wrap_flag # reader[r].wrap_flag
          \/ reader[r].input_index + reader[r].available_size <= writer.output_index

(* A block that works on a slice may advance by all of it, even when the   *)
(* other side moved its index or wrapped meanwhile: the CHECKs of both     *)
(* advance() functions hold, and the writer's slice is where it advances.  *)
AdvanceReady ==
  /\ state[Source] = "Running" =>
       /\ slice[Source].start = writer.output_index
       /\ writer.output_index + slice[Source].size <= DataSize
       /\ \/ writer.wrap_flag = writer.min_input_wrap_flag
          \/ writer.output_index + slice[Source].size <= writer.min_input_index
  /\ \A r \in Readers : state[r] = "Running" =>
       LET last == reader[r].input_index + slice[r].size
       IN  /\ last <= DataSize
           /\ writer.wrap_flag = reader[r].wrap_flag => last <= writer.output_index

(* First in, first out: the elements between the index of a reader and the *)
(* point it may read to are the next ones of the stream, preceded by its   *)
(* history, whatever laps and copies lie between.  (Elements before the    *)
(* start of the stream are not specified.)                                 *)
NextElement(r) == taken[r] + Delay[r]

Fifo ==
  \A r \in Readers :
    LET x == reader[r]
    IN  \A i \in x.input_index .. x.input_index + x.available_size - 1 :
          LET position == NextElement(r) - HistorySize[r] + (i - x.input_index)
          IN  position >= 0 => writer.data[i] = position

(* The memory the source fills is disjoint from the memory a reader's      *)
(* filter is reading.                                                      *)
Extent(s) == s.start .. s.start + s.size - 1

SlicesDisjoint ==
  \A r \in Readers : Extent(slice[r]) \cap Extent(slice[Source]) = {}

(* ... and it is as long as the writer has not moved that reader to the    *)
(* copy at the start of the buffer while its filter was running.           *)
SlicesDisjointUnlessMoved ==
  \A r \in Readers :
    slice[r].start = reader[r].input_index =>
      Extent(slice[r]) \cap Extent(slice[Source]) = {}

(* "Notify the output about the change, if there was any": the size the    *)
(* scheduler sees for the output is what the indices and flags allow.      *)
OutputNotified == writer.available_size = WriterSpace(writer)

(* Until the end of the stream the buffer never brings all its blocks to a *)
(* halt: one of them is active or large enough to schedule.  In strict     *)
(* mode this is why relaxed_mode is for "the rest of the data" only.       *)
Progress ==
  ~eof => \E b \in Blocks : state[b] # "Idle" \/ Schedulable(b)

(* "Reschedule blocks in relaxed size mode to process the rest of the      *)
(* data" (pipeline.cpp:283): when all blocks are Idle before the end of    *)
(* the stream, one of them is large enough for that mode.                  *)
RelaxingHelps ==
  ~eof /\ (\A b \in Blocks : state[b] = "Idle") =>
    \/ MinOutputSize <= writer.available_size
    \/ \E r \in Readers : MinCombinedInputSize(r) <= reader[r].available_size

(* The stream is delivered: eventually all of it has been written and      *)
(* every reader has taken what makes whole steps.                          *)
Drained == eof /\ \A r \in Readers : written < NextElement(r) + RequiredSize[r]

EventuallyDrained == <>Drained

(* The buffer implements the broadcast stream.                             *)
Stream == INSTANCE Broadcast WITH Capacity <- DataSize

Implements == Stream!Spec
=============================================================================
