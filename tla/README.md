# Hvylya: TLA+ models, checks and proofs

Hvylya is a C++ framework for software-defined radio, with an FM receiver built
on it. A program describes a dataflow graph of filters; an asynchronous pipeline
turns every filter into a block, joins the blocks with circular buffers, and lets
a pool of worker threads run whatever block has enough input and enough room for
its output. This directory holds TLA+ models of the parts whose correctness
depends on interleavings and long histories, TLC configurations that check them
on small instances, and TLAPS proofs of what holds for every instance.

Paths below are relative to `src/src/` of the repository unless they start with
`src/`; `pipeline.cpp`, `block.cpp` and `circular_buffer.cpp` are in
`hvylya/pipelines/async/`.

## Contents

| Module | What it is |
| --- | --- |
| `CircularBuffer` | the memory between an output and its inputs: indices, laps, wrapping, copying, slices |
| `Broadcast` | what that memory promises: a stream that every reader gets in order, once |
| `CircularBufferProofs` | theorems about `CircularBuffer`, for every size, set of readers and length of stream, and its refinement of `Broadcast` |
| `Pipeline` | worker threads, queue, block states, idle wait, relaxed mode, end, pause/reset/resume/stop |
| `PipelineProofs` | theorems about `Pipeline`, for every graph, pool and buffer size: blocks and their owners, no lost wake-up; the counters of the pool, the decision that the pipeline has run dry, its end and its `CHECK`s |
| `SdrKernelSource` | buffers between the V4L2 driver and the source, `process`, `reset`, streaming |
| `SpectrumScanner` | the sink of the station search: sliding sums read by another thread without a mutex |
| `Tuning` | source, scanner, driver and pipeline composed with the two programs that retune: the station search and the live receiver |
| `TuningProofs` | theorems about `Tuning`, for every number and size of buffers: who holds a buffer, no `CHECK` fails; sums, readings and selection of the search |
| `Inductions` | least elements and induction over the naturals, as facts about sets |
| `Slices` | a block as its filter sees it: slices of any size, and the `CHECK`s on what was advanced |
| `Samplers`, `FftFilter`, `Devices`, `RdsBits`, `CmaEqualizer` | the filters that keep a state from slice to slice |
| `RunningSum` | the sliding sum that two of them use |
| `RdsCorrector` | the code that guards RDS blocks, and groups received with errors |
| `ReceiverGraph` | the receiver as its constructor connects it, found and linked by `Pipeline::add` |
| `Filters` | any one of these run by a block, and what must come out |
| `CorrectorProofs` | theorems about `RdsCorrector`, for all information bits and bursts of errors: what a block that is believed holds |
| `FiltersProofs` | theorems about `Filters`, for all rates, windows, blocks and sizes of slices: how a stream is cut does not show, and the receiver's graph is linked as it was connected |
| `RdsValue` | one received item: believed, pending, expired |
| `RdsFields` | what each RDS group says: group to sequence of `set` calls |
| `TmcMessages` | traffic messages: collection of groups, confirmation, flushing |
| `RdsMessages` | the messages decoder and its state, used by two threads, with time, errors and a sender |
| `RdsProofs` | theorems about `RdsMessages`, for every set of programmes, all validity times and any passage of time: the items |
| `TmcProofs` | more of them: the traffic messages |
| `MC...` | instances of the modules for TLC |

## Inventory

### The asynchronous pipeline (`hvylya/pipelines/async`): the core

**Circular buffer** (`circular_buffer.cpp`). *State*: the writer's `output_index_`,
`current_size_` (where the last lap ended), `wrap_flag_`, the slowest reader's
`min_input_index_` and `min_input_wrap_flag_`, and the memory; for each reader
`input_index_` and `wrap_flag_`; for both sides the atomics `available_size_` and
`wrapping_`, read by the scheduler without the mutex. *Operations*: `slice`,
`advance`, `reset`, `addReader`; `adjust` and `updateMinInputIndex` run inside
them and call the pipeline back. *Hard*: slices must be contiguous, so at the end
of the memory the writer copies an overlap to the front and readers move to the
copy later, each in its own time; filters use slices without the mutex. *Correct
when*: readers get the stream in order and complete, nothing in use is
overwritten, no `CHECK` of `verify`, `slice` or `advance` fails, and the sizes the
scheduler sees never bring all blocks to a halt.

**Block** (`block.cpp`). *State*: `state_` (Idle, Scheduling, Scheduled, Running)
and the readers and writers of its channels. *Operations*: `process` (slices,
filter, advances), `reset`. *Correct when*: one thread at a time runs it, with
slices as large as it was scheduled for.

**Pipeline** (`pipeline.cpp`). *State*: `state_`, `queue_`, the counters
`threads_running_`, `threads_waiting_`, `threads_waking_up_`, the flags
`relaxed_mode_`, `scheduling_`, `finished_`, `last_exception_`; per block the
atomic state. *Operations*: `runThread` in every worker, `trySchedulingBlock` from
every thread, `add`, `start`, `pause`, `reset`, `resume`, `stop`, `run` from the
program. *Interaction*: a worker runs a block; the block's `advance` calls back
into `trySchedulingBlock` for the neighbours; a schedulable block goes into the
queue; the worker comes back for the next. *Hard*: block states change by
compare-and-swap outside the mutex; sizes are read outside any mutex; idle and
paused workers share one condition variable and count wake-ups by hand; the end of
the data is a decision of the last worker to run dry; the program interferes at any
time. *Correct when*: a block has one owner; a block that could run is never
forgotten; the end is reached, and only when all data is delivered; a failed
filter stops everything; pause, stop and run come back.

### Filters with a protocol of their own (`hvylya/filters`, `hvylya/filters/fm`)

| Component | State and operations | What makes it correct |
| --- | --- | --- |
| SDR source (`sdr_kernel_source.cpp`) | kernel buffers queued, acquired, mapped; `process`, `reset`, start and stop of streaming | a buffer belongs to the driver or the program; no buffer lost; after a retuning almost nothing of the old frequency |
| ALSA sink (`alsa_sink.cpp`) | `delayed_`; `process`, `reset`, recovery from underruns | no sample lost or repeated across partial writes and underruns |
| File source and sink (`file_source.h`, `file_sink.h`) | stream position, end of file | all whole elements delivered once, end of file after the last |
| Spectrum scanner, station search (`spectrum_scanner.cpp`, `fm-receiver/stations.cpp`) | sliding history, `samples_`; a loop of tune, reset, resume, wait, pause; a queue of candidates | levels are sums of a window; the loop ends; each peak is one station |
| RDS bits decoder (`rds_bits_decoder.cpp`) | clock counters, magnitude sums | one symbol per clock, also when the best clock changes |
| RDS bits corrector (`rds_bits_corrector.cpp`) | pure: syndrome decoding | a block it believes after one short burst is the one that was sent |
| RDS groups decoder (`rds_groups_decoder.cpp`) | bit register, sync flag, failure count | groups share no bits, statistics agree with the bits |
| RDS values and state (`rds_state.h`, `rds_state.cpp`) | per value: sent, corrected, update time; expiry | a corrected value is believed when seen twice; nothing is shown after its time |
| RDS messages decoder, TMC (`rds_messages_decoder.cpp`) | pending messages, multi-group assembly per continuity index | a message is assembled from its own groups, and only announced on evidence |
| FM equalizer (`cma_equalizer.cpp`) | ring of outputs, list of enabled taps, counters for sums, gain and taps | each tap is applied to the output it belongs to; the list is of the enabled taps |
| Samplers and FIR/FFT filters (`sampler.cpp`, `resampler.h`, `fir_filter.h`, `fft_filter.cpp`) | phase, skip, block position | rate conversion drops and repeats nothing, however the stream is cut |
| Graph construction (`pipeline.cpp:27-110`, `connect.h`, `composite_filter_generic.h`) | links between filters | every linked filter becomes one block, every link one reader; what is joined is in step |

### Outside the models

Numerical signal processing (FIR, FFT, IIR, PLL, CMA, demodulation, interpolation,
filter design), SIMD vectors, generated constants, command-line utilities and build
files: they hold arithmetic rather than control, and TLC has no use for their
real-valued data. `PROJECT.json` lists each one.

## What is modelled, and how it corresponds to the code

### `CircularBuffer`

`writer` and `reader[r]` are records with the fields of `CircularBufferWriter` and
`CircularBufferReader`; `writer.data` is the memory, a cell holding the position in
the stream of the element stored there. The operators `WriterAdjust`, `ReaderAdjust`
and `UpdateMinInputIndex` are the functions `adjust` and `updateMinInputIndex`;
every action is one critical section of `mutex_`. A block goes through `Schedule`
(the size test of `trySchedulingBlock`), `WriterSlice` or `ReaderSlice` (the slice
the filter works on from now on), and `WriterAdvance` or `ReaderAdvance`. Anything
may happen between these three. A writer's filter fills any part of its slice; a
reader's filter consumes any multiple of its required size. The source announces
its end of file once the stream is written. `EnterRelaxedMode` is taken when no
block runs or is queued. `Reset` is `Pipeline::reset` with no filter running, as
the order in which `Pipeline::reset` visits blocks is the iteration order of a hash
set (`pipeline.cpp:72`), `ResetAfterSource` names the readers visited after the
writer. Padding is left out: it is not part of `data_size_`.

`Broadcast` has a stream of `written` elements and `taken[r]` per reader; a
producer may not run ahead of a reader by more than the memory holds, and a
consumer may not take what is not there. `Implements` is the refinement: the
history variables `written` and `taken` of `CircularBuffer` behave so.

### `Pipeline`

A step is a critical section of `tasks_queue_mutex_`, one atomic access to a block's
state, or the update of the buffers by one side of a block. `pc[t]` is where a thread
is, `todo[t]`, `claimed[t]`, `verdict[t]` its position inside `trySchedulingBlock`,
which is a procedure called from everywhere: `TryThen(t, bs, place)` makes thread
`t` try the blocks `bs` and go on at `place`.

| Code | Model |
| --- | --- |
| `trySchedulingBlock` | `Claim` (compare-and-swap succeeds), `Skip` (Running or Scheduled), spinning on Scheduling (no step), `Evaluate` (sizes), `Commit` (push or give up) |
| `runThread`, lines 269-317 | `Exit`, `EnterRelaxedMode` / `Relaxed`, `BeginFinish` / `Finish` |
| `runThread`, lines 319-371 | `Sleep`, `WakeInVain`, `WakeToExit`, `WakeToTake`, `Take`, `TakeAndNotify`, `WakeFromPause`, and `SpuriousWakeup` |
| `runThread`, lines 373-396, `Block::process` | `Start`, `Process` / `ProcessEof` / `Throw`, `Provide`, `Done` |
| `pause`, `reset`, `resume`, `stop`, `run`, `wait`, `finalize` | `Pause`, `Reset`, `Resume`, `Stop`, `Wait`, `Finalize` |

A `CHECK` is a name added to `failed`, after which nothing happens any more. The
abstractions, and why they are faithful:

* A buffer is a number of elements per edge. `CircularBuffer` is about how it is
  laid out; that a number is all the scheduler needs rests on its `OutputNotified`,
  which `WriterIsNotified` proves for buffers with a history and `notification` refutes
  for others. Whether a channel is about to wrap decides which threshold the size
  test uses, so `Evaluate` may use either.
* `Evaluate` looks at all sizes of a block at once, the code at one after the
  other. While a thread holds the block, the sizes it looks at only grow: no other
  thread runs the block. A test that succeeds channel by channel therefore
  succeeds at the moment of the last one, and a test that fails, fails at the
  moment of the channel it fails for.
* The advances of all inputs are one step (`Process`), and so are those of all
  outputs (`Provide`); every advance notifies, and so do the steps. A block consumes
  and provides the same amount on all its channels. Filters that may consume
  or provide nothing, or that change the rate, are not distinguished.
* The order in which a thread tries several blocks is open, which covers the hash
  order of `blocks_` and the order of channels.
* `start` is the initial state. Restarting a stopped pipeline with `resume` is not
  modelled yet.
* The program pauses, resets, resumes and stops at any time the `Script` of the
  instance allows. `"reset"` is a reset right after `pause()` as in
  `fm-receiver/main.cpp:120-126`; `"quiet reset"` one whose caller has waited for
  all workers to be at rest, which is what the code would need.

### `SdrKernelSource`, `SpectrumScanner`, `Tuning`

`Tuning` puts four parties next to each other: the driver, a worker in the source, a
worker in the scanner, and the thread of the program. A step is one ioctl, one copy,
one reading of the clock, or one assignment of the scanner that the other thread
may see.

| Code | Model |
| --- | --- |
| the driver | `Capture` (a sample goes into the first queued buffer; a full one is stamped) |
| `SdrKernelSource::process` | `EnterProcess`, `AcquireBuffer`, `Copy`, `ReleaseBuffer`, `LeaveProcess` |
| `SdrKernelSource::reset` | `EnterReset`, `AcquireBuffer`, `ReadClock`, `Compare`, `ReleaseBuffer` |
| `SpectrumScanner::process` | `EnterScan`, and for each whole block but the last `Count`, `Add`; `LeaveScan` |
| `findStations`, loop | `Tune`, `ScannerReset`, `SourceReset`, `Resume`, `Poll`, `Pause`, `Read` |
| `findStations`, end | `Stop`, `Joined`, `Select` (the queue of candidates), `Closed` |
| `runLivePipeline`, `updateFrequency` | `Start`, `Key`, `Pause`, `Tune`, `SourceReset`, `ResetDone`, `Resume`, `Stop`, `Closed` |

A sample is the frequency it was captured at, so that a property can say what is in
a sum or in a slice; time stamps are whether a buffer was filled before the time that
`reset()` has read. One bin of the spectrum stands for all. `pc` and `scanning` say
where the workers are; the scheduler of `Pipeline` is not repeated, only that blocks
are entered while the pipeline is Running. `process()` and `reset()` of the source
have one program counter: nothing in the code keeps them apart, and the run `reset`
shows that `pause()` does not. `Tuning` is about what happens when they are apart
(`Quiet`); the search and the live receiver are both modelled with that assumption.
`rest` bounds the slices that are smaller than suggested: the buffer hands such out
only at the end of a lap, so between two full slices they add up to less than one.

### `Slices`, `Filters` and the filters

`Slices` is `Block::process` around one filter: `Enter` takes slices of any size
that the filter's states allow, `Leave` makes the two `CHECK`s and advances. A sample
is its place in the stream, so what a filter has put out says which samples it used.
`Filters` chooses what is run (`kind`):

| `kind` | Code | Module |
| --- | --- | --- |
| `sampler`, `windows` | `Sampler` with windows of one and of more | `Samplers` |
| `resampler`, `fir` | `Resampler`, a decimating `FirFilter` | `Samplers` |
| `snr`, `demod` | `FmSnrEstimator`, `RdsDemodulator`, both with `RunningSum` | `Samplers` |
| `fft`, `decimator` | `FftFilter` without and with decimation | `FftFilter` |
| `alsa`, `file`, `loop` | `AlsaSink`, `FileSource` once and in a loop | `Devices` |
| `bits`, `groups` | `RdsBitsDecoder`, `RdsGroupsDecoder` | `RdsBits` |
| `air` | one group in step with the sender, through `extractInfo` and the corrector | `RdsBits`, `RdsCorrector` |
| `cma` | `FmCmaEqualizer` | `CmaEqualizer` |
| `graph` | no filter: `Pipeline::add` on the receiver | `ReceiverGraph` |

Loops over samples are steps where their state is carried over, and one
step where it is not. Convolutions, powers and magnitudes are data: a
choice the code makes from them is left open. The file ends within the reads; the
sound device takes any part of what it is given and may fail at any call.

`RunningSum` keeps for a sum the set of the values it is of; the code subtracts the
value that leaves and, after `max_iterations_`, adds everything up anew. `snr` and
`demod` say with each output what their sums were of, or how old the phase was.

`RdsCorrector` computes with words as sets of bit places: `Remainder` is the loop of
both `calculateParity` and `calculateSyndrome`, `DecodeBlock` is `decodeRdsBlock`,
`Extracted` the four calls of `extractInfo`. `Air` sends a group, adds one burst of
errors anywhere in it, and extracts it. The divisions and the rotation are functions of the
number of bits gone by (`Division`, `Rotation`), as the proofs need them. In `groups`, where whole streams matter, the
corrector may answer anything.

`CmaEqualizer` has the ring `outputs_` with its two copies, the compacted list of
enabled taps with the shifts that `updateTaps` makes in it while it walks over the
taps (`UpdateTap` is the body of the loop, `After` the lists after each tap), and the counters
`left_until_...` with the intervals that grow and shrink. Which taps
come out large, and whether anything has changed much, is open. An adjusted tap is known
by the tap whose value it has; after a new gain all but the first are of no tap until
they are set again.

`ReceiverGraph` writes the `connect` calls of `FmReceiverImpl` and `runLivePipeline` as sets
of links. `FindFilter` is a step of the recursion in `addLinkedFilters`, `LinkBlock` the
links of one block in `add`. `StreamOf` follows the links that were made back to the
source and says how far apart the samples are and which filters delay them. Not in
the links: the variants behind `#ifdef`, types, and the phase of the samplers' windows.

### `RdsValue`, `RdsFields`, `TmcMessages`, `RdsMessages`

`RdsState` is a function from paths to `RdsValue` records (`RdsFields` says how the
members and containers are named). `TypeFields` turns a group into the `set` calls the
decoder makes for it, in their order; `AssignAll` performs them, and `Wiped` is the
`changing()` signal that invalidates a text when its A/B flag changes. `Clear` is
`RdsState::clear`, taken before every group, on the copy that `state()` returns, and
for everything by `reset()`. `TmcMessages` has the maps of first, second and next groups
per continuity index; where the code walks a hash map or takes the first maximum in
one, the operator returns every outcome. The mutex of the decoder makes `Process`,
`State` and `Reset` single steps; `Tick` is the clock.

The clock does not wait for the mutex. `process()` reads it before it clears old items
(`rds_messages_decoder.cpp:1162`), and each `set` that believes a value reads it again
(`rds_state.h:101`). So the items of a group do not have one time: `Process` clears with `now`, the
clock may be `later` when the group is done, and `Readings` says what each call of `set` has
read. `Pauses` says after how many calls the clock may move, `MaxPause` how far; it moves at
one place of a group, since groups are decoded in microseconds and the clock counts seconds.
`torn` remembers the identifications of channels after which, in their last group, the clock has moved on.
`Outcomes` says what may come of a group: all its `set` calls, or the failure of the `CHECK` in a search
or a look-up of an item that is `Missing`, with what was set before it. A search stops at the
channel it is for, which may stand before a missing one, so both are possible then.
`failed` has the item whose `CHECK` has failed; after that the program has aborted and no
group is processed.

The sender picks a programme, a
set of groups with the errors they arrive with, and sends any of them at any time: that
is loss, repetition and reordering. `DumpReads` is which values `dump()` asks for.

## What is checked

Passing runs check deadlock except those of `CircularBuffer`: a pipeline that
has delivered its stream has no step left there, and `Progress` and
`EventuallyDrained` say that this is the only way to stop; those of `Tuning`, whose
programs end; and those of `Filters`, where a stream ends and a filter may throw.

| Run | Instance | Shows |
| --- | --- | --- |
| `delivery` | 10 cells, stream of 14, one writer, a reader with history 2 and delay 1, a reader that consumes pairs, one reset; 142,628 states | types without underflow (`TypeOK`), the `CHECK`s of `verify`, `slice` and `advance` (`VerifyHolds`, `SliceReady`, `AdvanceReady`), `Fifo`, `SlicesDisjointUnlessMoved`, `Progress`, `EventuallyDrained`, refinement of `Broadcast` (`Implements`) |
| `file` | a source with 4 elements feeding a filter and a sink that may throw, two workers; 345,733 states | types, `OneOwner`, no `CHECK` of the pipeline fails, `NoMissedBlock`, `RunningCounted`, `FinishedMeansDrained`, `RelaxedOnlyWhenDry`, and `run()` comes back (`Ends`) |
| `live` | an endless source and a sink, two workers, two pauses with resets, a stop; 87,931 states | no `CHECK` fails, `SomebodyAwake`, `WaitersCounted`, `EveryBlockRuns`, `PauseQuiesces`, `StopReturns` |
| `messages` | twenty-one programmes of two to six receptions, which use every group type the decoder knows, times up to 3, a clock that may move on inside a group; 371,261 states | types, `NoCheckFailsUnlessTorn` (the `CHECK`s of `lastValue()` and of looking up an application), `ReportedFresh`, `TextOfOneFlag`, `AnnouncedWhole`, `AnnouncedOnEvidence`, `BelievedOnEvidence` |
| `tuning` | two buffers of two samples, a window of three, two retunings, three channels; 1,295,891 states | types, `NoCheckFails` (source and pipeline calls), `OneHolder`, `OldSamplesFew`, `LevelIsWindow`, `ReadingWhole`, `EveryPeakOnce`, `SearchEnds` |
| `slices` | fifteen kinds of filter, streams of 16 samples, every size of slice up to 8; three RDS groups, each at every place hit by each of 36 bursts; the whole receiver; 2,981,010 states | `AsWhole`: the same comes out however the stream is cut (`CutsDoNotShow`), files in order, symbols and groups apart, blocks as sent (`ReceivedAsSent`), taps applied to their outputs (`Equalized`), joined streams in step (`GraphLinked`); `Accepted`: declared sizes are kept, no `CHECK` fails |

Six runs show where the code departs from what its documentation, comments or
own `CHECK`s say; each checks the one property that fails:

| Run | What happens |
| --- | --- |
| `race` | While a reader's filter works on its slice, the writer's `advance` moves that reader to the copy at the front (`circular_buffer.cpp:83-87`), so the reader no longer bounds the writer, which then gets the memory under the filter. The filter may read overwritten elements. `SlicesDisjointUnlessMoved` shows that this is the only way; it takes a stalled reader, a full lap of the writer, and buffers are 64 suggested sizes long. |
| `notification` | `updateMinInputIndex` re-measures the writer's space only if the minimal index changed. If the last reader comes to the next lap at the index the minimum had in the old one, the writer's `available_size_` stays what it was. A reader without history that was stalled for a whole lap and then consumes all of it does this: the writer waits at the overlap with size 0, the reader has nothing to read, and the stream stops with data left, in relaxed mode too (`RelaxingHelps`). `WriterIsNotified` proves that a history in one reader excludes it. |
| `reset` | `pause()` does not wait for the workers. A reset right after it makes a block Idle that a worker has already taken, and the worker's `CHECK` at `pipeline.cpp:373` aborts the program. |
| `stop` | A pipeline that has reached the end of its file is Stopped; `stop()` then fails its own `CHECK` at `pipeline.cpp:208`. `runLoadPipeline` does just this when the user quits after the end of the recording. |
| `dump` | `dump()` prints the traffic programme flag when the programme type is valid (`rds_state.cpp:281-283`). Both come in one block, but if blocks are only Corrected and the flag keeps changing, the type is confirmed and the flag is not; after its time it has no value, and `value()` aborts. |
| `torn` | Every `RdsValue::set` reads the clock (`rds_state.h:101`). If a second ends inside `decodeTmcTuningInformation` (`rds_messages_decoder.cpp:736-746`), the identification of a traffic channel is one second older than its details. It expires first; `clear()` then forgets it but keeps the channel, whose details are valid (`rds_state.cpp:98-110`), and the search of the next group (`rds_messages_decoder.cpp:673`) fails the `CHECK` in `lastValue()` (`rds_state.h:129`). `NoCheckFailsUnlessTorn` shows that this is the only way. |

Noticed while modelling, without a run of its own:

* `Pipeline::reset` visits blocks in the order of a hash set (`pipeline.cpp:72-79`, 162), and
  the resets of a reader and its writer do not commute. A reader that is reset after its
  writer goes to index 0 (`circular_buffer.cpp:66`) instead of the start index the writer has
  given it (216), and reads elements from before the stream. With `ResetAfterSource = {r1}`,
  `DataSize = 7`, `MinOutputSize = 1` and `StreamLength = 10` in `MCCircularBuffer_delivery.cfg`, TLC
  finds `Fifo` violated; `README.md:19` of the repository's `src/` promises that the framework takes
  care of the data flows.
* The decimating `FftFilter` sizes its input by rounding the skip up
  (`fft_filter.cpp:105`). Where the decimation rate does not divide the block, it
  may write one output more than its slice holds, and the `CHECK` at 128 aborts.
  `Accepted` bounds the excess by that one sample. `FmReceiver`'s audio decimators
  have such a block; whether a slice gets that small is up to the buffers.
* `dab_freq` is missing in `RdsState::clear`, and is shown for ever (`ReportedFresh`
  excludes it).
* `RdsBitsDecoder::reset` leaves the magnitude sums, `RdsGroupsDecoder::reset` the
  fourth block; neither can show, as the first choice of a clock and the first group
  come after a full turn.
* The station search does not reset the pipeline: what is in the buffer between the
  source and the scanner at a retuning is scanned as the new frequency. `OldSamplesFew`
  is therefore about the source, and `LevelIsWindow` does not claim one frequency.
* Where both versions of the third RDS block come out equally well,
  `extractInfo` takes version B (`rds_groups_decoder.cpp:163`). If both are Corrected and
  the second block, Valid, says A, the third one is dropped: a block with a single wrong
  bit may be lost although it could be corrected. With the second block lost, nothing
  contradicts a wrong version, and a burst of five bits can make the third block Valid
  with other data; `ReceivedAsSent` excludes that case. `process` counts the second block
  before the third one overrules it.
* `FmCmaEqualizer` masks its index with `taps_count - 1`, but its constructor asks only for a
  multiple of the vector length; the receiver has 32 taps. It has no `reset()`.
* After an underrun `AlsaSink` does not wait for its delay again.

### Bounds, and why they are enough

*Buffer.* `DataSize` 10 is `2 * Overlap + MinOutputSize` plus two: the smallest
layouts are where the distance between the laps is tightest. A stream of 14 makes
the writer wrap twice, so that every reader crosses a copy made from memory that
itself holds a copy. Two readers are needed for one to be on the old lap while the
other is on the new one; one has history and delay, the other a step of two. One
reset happens at any quiet moment, with dirty memory. `Progress` needs a reader with a
history, and memory of at least suggested output + minimal output + history + suggested
input + `Overlap` - 2 elements (`Room`), here 9; the code allocates 64 suggested outputs
(`block.cpp:30`). `notification` has 12 cells and one reader without history.

*Pipeline.* Two workers suffice for every pair of critical sections to interleave
and for one to be the last while the other is at any place. Capacity 3 with suggested
size 2 makes blocks stall on input and on output and leaves a tail that needs the
relaxed mode. A fork gives a writer two readers that both notify it. The properties
of `live` were also checked with three blocks and one pause. `MinExtraQueueLoad` is
0 so that a short queue already wakes another worker. Spurious wake-ups are unbounded.
`MaxPauses` bounds the calls of `pause()`.

*Tuning.* Two buffers are the least with which the driver fills one while the source
holds the other, and two samples the least for a buffer to hold samples of two
frequencies. Two retunings make a `reset()` find buffers of two earlier frequencies
and the scanner a used history. The window of three is longer than a slice; blocks
of one sample make slices of one block, which the scanner throws away, and of two.
Three channels, ratios up to 2: the least with a middle one and with ties.

*Slices.* Rates, windows, blocks and shifts are pairwise unequal and none divides the
block of the FFT filters (4, rate 3), so every phase occurs; a stream of 16 is several
periods of each, and slices up to 8 are two blocks. The file of 11 leaves a tail for most
sizes of slices. A group has four bits instead of 104, and 4 failed blocks instead of
32 lose the synchronisation: only the counts matter. Four taps are the least in which a
list of enabled ones can shift from the middle; slices of the equalizer are of one or two
samples, since its state is in its counters, which run through all their intervals.
`air` has all bursts of up to five bits, which the corrector may correct, and some of
up to ten, which the code detects; places are all 104 of a group, so bursts cross
block borders. Sums are of 7 values and are made anew at every fifth.

*Messages.* Each programme holds the groups whose interplay matters (both values of a
flag and the texts they belong to; a frequency and its channel; three traffic messages on
one continuity index; a message that is sent again under another one), with statuses that make some receptions Valid, some Corrected and
some lost. Validity times are 0, 1 and 2 in the order of the code's. `MaxTime` 3 lets every
item expire, be received again and be compared with something older; `MaxCount` bounds the
counters of repeated traffic groups, of which the code tells only 0, 1 and at least 2.
The clock moves inside a group by one second at most (`MaxPause`), after the fourth call of
`set` (`Pauses`): three are for the common fields, and the fourth is the first of what is
particular to the type, be it the A/B flag of a text or the identification of a channel. In the
proofs both bounds are arbitrary.

### Fairness

`CircularBuffer`: every block that can be scheduled and run eventually takes a
step, and the relaxed mode is entered when nothing else happens. The workers of
the pipeline do this: `NoMissedBlock` and `EveryBlockRuns` are why they may be
trusted to. `Pipeline`: weak fairness of each worker, of the controller inside
`trySchedulingBlock`, and of `wait()`/`finalize()`: the operating system runs
every thread that can go on, and a mutex is eventually granted. Nothing is assumed
about spurious wake-ups, about exceptions, or about when or whether the program
pauses, resumes or stops. A thread that spins on a block in Scheduling has no step
of its own; the thread that holds the block is the one that must go on. `Tuning`: weak fairness of the driver, of the
worker in the source, of the worker in the scanner, and of the program except for
keys; `NoMissedBlock` and `EveryBlockRuns` of `Pipeline` stand behind the workers'.
`RdsMessages` and `Filters` claim no liveness.

## What is proved

`PipelineProofs` proves, for every finite graph, every number of workers, every
capacity and supply, and every script that does not contain the unsafe `"reset"`:

| Theorem | Statement |
| --- | --- |
| `Exclusion` | `Spec => []OneOwner`: a block that is not Idle has exactly one owner (a place in the queue, a worker that runs it, or a thread that tries to schedule it), and an Idle block has none |
| `NoLostWakeup` | `Spec => []NoMissedBlock`: an Idle block that could run is on the list of some thread that has yet to try it |
| `BlocksRunAsScheduled` | the `CHECK`s at `pipeline.cpp:373` and `block.cpp:173-186` never fail: a worker finds its block Scheduled and its slices large enough |

The assumption is what the run `reset` is about: with that reset in the script a
block gets a second owner, and the `CHECK` at 373 fails.

The inductive invariant has four parts. `Types` gives the ranges and says which
places have pending work. `Ownership` is the pairwise form of `OneOwner`: the queue
has no duplicates and holds Scheduled blocks, a worker at Start holds a Scheduled
block that is no longer queued, one inside a filter a Running block, a claim a
block in Scheduling, no two of them the same, and every non-Idle block is held. It
is needed because `OneOwner` alone does not say *which* state goes with which
owner. `Awaited` strengthens `NoMissedBlock` by the blocks some thread has judged
unable to run but not yet released: if such a block has become able to run
meanwhile, somebody else has it on a list and is waiting for the release. Without this
conjunct `Commit` would not preserve the invariant; it is the argument behind the
comment at `pipeline.cpp:407-410`. `Sizes` says that what a block was scheduled for
remains: a positive verdict, a Scheduled block and a worker about to run a filter
all fit, and what a filter has consumed for, its outputs have room for. It rests on
`Ownership`: only the owner of a block takes from its inputs or adds to its
outputs.

Each part has a lemma for the initial states and one for the step, with one proof
step per action, and small lemmas on sequences (`AppendContents`, `TailContents`) and
sizes (`SmallerFits`, `RoomUpstream`, `WorkDownstream`).

The second part of `PipelineProofs` is about the pool of workers:

| Theorem | Statement |
| --- | --- |
| `RunningIsCounted` | `Spec => [](NoCheckFails => RunningCounted)`: `threads_running_` is the number of workers that run |
| `WaitersAreCounted` | `Spec => []WaitersCounted`: no wake-up is given to more workers than are in the idle wait |
| `NotAllAsleep` | `Spec => [](NoCheckFails => SomebodyAwake)` |
| `RelaxedWhenDry` | `Spec => RelaxedOnlyWhenDry`: the relaxed mode is entered when all blocks are Idle and none can go on |
| `OwnChecksHold` | no `CHECK` of the pipeline on itself fails (233, 305, 373, `block.cpp:173-186`); only those on what the program asks for may |
| `RunNeverAborts` | with an empty script, `Spec => []NoCheckFails` |
| `PipelineTypes` | `Spec => []TypeOK` |
| `FinishedMeansDrainedHolds` | with `Acyclic` and `ResetTogether`, `Spec => []FinishedMeansDrained`: a pipeline that finishes by itself has delivered all data of all sources |

The first three hold for every script; the others assume that it does not contain
`"reset"`. `NoCheckFails` is a premise where the model lets a step go on that the
failed `CHECK` in it has aborted.

`Counted` says that `threads_running_` is the number of workers at the places where they
run, and perhaps of some that an exception has ended; these never count themselves out,
but then the pipeline has stopped. `WaitersKnown` adds to `WaitersCounted` that a stopped
pipeline counts nobody as waiting: otherwise a worker could leave the idle wait without a
wake-up. `Awake` says that outside a stopped pipeline not all workers are in the idle
wait: the one that would be last finds `Last` true, unless a worker retries blocks with
relaxed sizes, which `Relaxation` says of `scheduling_`.

`LastMeansDry` is the centre. A worker that finds `Last` true is alone at work
(`Counted`), the program does not try blocks (`MainTries`: it does so only while all
workers are at rest), nor does anybody else (`Relaxation`), so no block is held, and by
`Ownership` every block is Idle; by `Awaited` one that could run would be on somebody's
list, and there is none. This is `RelaxedOnlyWhenDry`. With relaxed sizes it is the
beginning of `Dry`, which `Ending` says holds from then on, also when a worker that was
paused comes back and finishes too.

`FinishedMeansDrained` is about data. `Conserved` says that there are numbers of what every
block has consumed and provided that explain every buffer (provided on one side minus
consumed on the other), every supply, and the worker between the two. In a `Dry` graph
both numbers are the same for every block. Among the blocks that are least far there is,
by `Acyclic`, one that no other of them feeds. Its inputs then hold something and its
outputs have room, so only the end of its supply can keep it from running: it is a source,
and the least far have got all of the supply. Nobody is further, since a block that nobody
further feeds cannot be further than its input, nor a source further than its supply. So
all buffers are empty. Forks and joins need no condition.
`ResetTogether` allows `"quiet reset"` in the script with one source only: with several,
a reset discards what is under way and the ends of the sources no longer meet.

`CircularBufferProofs` proves, for every writer size, every set of readers with any
required sizes and histories, in either mode, and every length of stream:

| Theorem | Statement |
| --- | --- |
| `DeliveredInOrder` | `Spec => []Fifo`: the slice of every reader holds the elements that follow those it has taken, in order, and before them its history |
| `ImplementsBroadcast` | `Spec => Implements`: initial states and steps are those of `Broadcast`, or stutters |
| `NeverAborts` | `Spec => []VerifyHolds`: no `CHECK` of `verify` fails |
| `SlicesAreReady`, `AdvancesAreReady` | `Spec => []SliceReady`, `Spec => []AdvanceReady`: what a block was scheduled for is there when it asks for its slices and when it advances, whatever the other side has done meanwhile |
| `DisjointUnlessMoved` | `Spec => []SlicesDisjointUnlessMoved`: memory being written is not memory being read, except as the run `race` shows |
| `BufferTypes` | `Spec => []TypeOK` |
| `WriterIsNotified` | with `SomeHistory`, `Spec => []OutputNotified`: the size the scheduler reads for the output is the space there is |
| `NeverHalts` | with `SomeHistory` and `Room(SuggestedOutputSize, SuggestedSize)`, `Spec => []Progress`: before the end of the stream some block is active or can be scheduled, in either mode |
| `NeverHaltsForGood` | with `SomeHistory` and `Room(MinOutputSize, RequiredSize)`, `Spec => []RelaxingHelps`: blocks that are all Idle before the end can go on with relaxed sizes |

The assumption of all is `ResetAfterSource = {}`: `reset()` visits readers before their
writer. `Fifo` is false otherwise (see what was noticed while
modelling).

The inductive invariant `Inv` orders indices by lap. `Placed`: a reader of the writer's
lap is at or behind the writer's index, with its history in front of it or in the
overlap; a reader of the previous lap is at or ahead of it, between the overlap and
`current_size_`. `Buffered` says what is stored where: a cell holds the position of the
stream that its distance from the writer's index says (`Stored`, `Kept`), a reader's index
stands for what it has taken (`Located`), and `available_size_` promises no more than lies
before the end of what it may read (`Sized`). `Tracked` says that `min_input_index_` is
the least index of the readers that bound the writer, and its flag whether any is of the
previous lap. `Settled` says that the writer's `available_size_` is within its room and
that a lap that must end has ended; it is an invariant of its own because
`updateMinInputIndex` does not tell the pipeline when only the flag changes, which is
what the run `notification` is about. `Claimed` says that sizes only grow between the
test of the scheduler and the use of the slice.

`Layout` derives from `Max` and `RoundUp` that the memory holds two overlaps and a full
step of every reader. Each function has a lemma (`WrapKeeps`, `FillKeeps`, `WriterAdjustKeeps`,
`ReaderAdjustKeeps`, `UpdateKeeps`, `ResetGives`), each action one that strings these
together, and `NextKeepsInv` joins them. `SlicesDisjointUnlessMoved` needs `Resting` in addition:
where a slice lies between taking and advancing it. The refinement uses `AppendStep` and
`TakeStep`, that the room of the writer is what `Broadcast` allows it.

The last three theorems need the sizes the scheduler reads to be exact, not only safe. A
second invariant, `Informed`, says so: `Measured` for the readers and for `wrapping_`,
except that a reader left on the old lap by a wrap inside its own `advance` keeps the
measure of the lap as it was until the writer advances; `Untouched` for what a reset
leaves; `OutputNotified` for the writer. `UpdateTells` is the lemma that matters. Two
minimal indices of different laps are the same number only at `Overlap`, with the writer
there as well; `Trailing`, that readers of the new lap have their history behind the
writer, then puts a reader with a history below that index. Hence `SomeHistory`
(`\E r : HistorySize[r] > 0`), without which the claim is false (`notification`). In the
receiver buffers read by FIR filters meet it, buffers that are read by sinks alone do not.

`Room(out, in)` asks for `out + MinOutputSize + Overlap + history + in - 2` elements. A
writer that can neither write nor wrap has a reader below the overlap, which then has
nearly the whole lap to read; a reader that cannot read the rest of its lap leaves the
writer nearly all of the memory. TLC finds halts in buffers that are one or two elements smaller.
For the relaxed sizes `Room` is at most what the `CHECK` in `addReader`
(`circular_buffer.cpp:233`) demands if slices of the output have one or two elements, and
up to the smallest slice minus two more otherwise: a buffer that passes the `CHECK` may
still halt. With 64 suggested outputs this matters for outputs whose readers
look back over nearly half the buffer.

`TuningProofs` proves, for any number and size of buffers, slices and windows, and any
number of retunings:

| Theorem | Statement |
| --- | --- |
| `OneHolderHolds` | `Spec => []OneHolder`: while streaming, every kernel buffer is queued, filled, or acquired, and only one of these |
| `NoCheckFailsHolds` | `Spec => []NoCheckFails`: the `CHECK`s of `startStreaming`, `stopStreaming`, `acquireBuffer` and `releaseBuffer` hold, and `pause()` and `stop()` are called in a state that allows them |

The inductive invariant `IInv` adds to the two properties: `Types`; `Holding`, which
says at which places of `process()` and `reset()` a buffer is acquired; `Stage`, which
says what state the pipeline is in and that `reset()` is only under way while the program
waits for it; and `Flowing`, why the search has started streaming by the time it stops it:
a window cannot fill without samples. `NextKeeps` has a lemma per action, `Inductive`
joins them.

Its second part is about what the station search reads and selects, for any window, slices,
number of channels and ratios:

| Theorem | Statement |
| --- | --- |
| `LevelIsWindowHolds` | `Spec => []LevelIsWindow`: the scanner's sum is at every step that of the last values of its history, as many as it counts, although the program resets it while a slice is under way |
| `ReadingWholeHolds` | `Spec => []ReadingWhole`: the levels the search reads, without waiting for the scanner, are a full window or one value short of it |
| `OldSamplesFewHolds` | `Spec => []OldSamplesFew`: after `reset()` the source delivers samples of an earlier frequency only from the buffer that was being filled |
| `EveryPeakOnceHolds` | `Spec => []EveryPeakOnce`: no two stations are neighbours, and from every candidate one climbs to a station |
| `TypeOKHolds` | `Spec => []TypeOK` |

The assumptions are that the sizes are positive, that channels and ratios are naturals, and
that there is at least one retuning. `SearchInv` has six parts. `Captured` says what the
buffers of the source hold. `Course` says that the frequency is only changed as often as
it may be, and that the window stays full from the moment the search has seen it full
until it has read the levels. `Room` bounds the slice being made, `Scanned` says how far the
loop over the blocks of a slice has come. `LevelIsWindow` is inductive with these.
`Freshness` is about the kernel buffers: while `reset()` runs (`Sieve`) the buffer that
was being filled at the retuning is still being filled, waits in the driver's queue, or is
the one just acquired, and all that follow it are fresh; from then on (`Delivered`) what
has been delivered of the old frequency and what is left of it in the buffer at hand are
together less than a buffer; `Still` says what is so without a stream. It needs `IInv`,
for who holds a buffer. The selection takes the loudest candidate and drops
its neighbours, again and again; that the outcome does not depend on the order of equal ones is
an induction over the number of candidates left, in `Inductions`.

`RdsProofs` proves about the RDS items, for every set of programmes, all validity times,
and any time between any two calls:

| Theorem | Statement |
| --- | --- |
| `BelievedOnEvidenceHolds` | `Spec => BelievedOnEvidence`: an item starts to show a value only on a Valid reception, or when two receptions in a row carried it in the same bits |
| `ReportedFreshHolds` | `Spec => []ReportedFresh`: what `state()` returns was received with that value, no longer ago than its kind may be shown |
| `TextOfOneFlagHolds` | `Spec => []TextOfOneFlag`: a text is not shown with the A/B flag of another one |
| `NoCheckFailsUnlessTornHolds` | `Spec => []NoCheckFailsUnlessTorn`: `lastValue()` is only called on values that have one, unless the value is the identification of a channel that the clock has torn; and an application that is looked up has been believed |
| `TypeOKHolds` | `Spec => []TypeOK` |
| `RdsInvHolds` | `Spec => []RdsInv` |

`RdsInv` relates every item to what has been heard of it. `Sound` has five parts:
`Items` (the form of paths and values; times lie in the past), `Backed` (what is shown has
been heard when it was last believed, or later: from this `ReportedFresh` follows),
`Waiting` (what waits to be confirmed is what was heard last, without which a
second reception would not be two in a row), `Flagged` (`TextOfOneFlag` of the items at hand),
and `Tuned` (a TMC channel of which anything is known has its identification, which is not
older than its details, unless the channel is torn: this is why a search among the others
finds a last value). A channel ceases to be torn when a group sets it within one second; `Untorn` says that
its identification then has the last reading of that group, so nothing else of the channel is
younger. `Aired`
says that an application that is believed was announced on the air; `Collecting` and
`Settings` are types. A group is a sequence of `set` calls, and each keeps `Sound`
(`OneWrite`): it may wipe texts, or change a flag before the text that comes in the same
group. That the whole sequence does is an induction over its length. The readings of a
group do not go back (`ReadingsAdvance`), which is all the proofs know of the clock. The assumptions are
that the mark of an unset value is not itself a value, and that programmes are sets of
groups of 16-bit words.

`TmcProofs` goes on to the traffic messages:

| Theorem | Statement |
| --- | --- |
| `AnnouncedWholeHolds` | `Spec => []AnnouncedWhole`: a message of several groups is put together from groups of one message that was sent, or cut short or padded |
| `AnnouncedOnEvidenceHolds` | `Spec => []AnnouncedOnEvidence`: no message is announced whose first group was heard only once and only Corrected |
| `TmcInvHolds` | `Spec => []TmcInv` |

`TmcInv` adds to `RdsInv`: `Uses` (which message was last sent at an index, and when),
`Collects` and `AllFine` (what the last step has announced is right). `Collects` has `Shape`,
for every continuity index `IndexFrom` (the parts kept there are of the message the
index was last used for, and not younger than that use), and `Evident`. A sender may use an index
again only after the parts have expired (`SenderMay`), and `clear()`, which comes
before every group, leaves nothing expired (`NothingOld`); so parts of two messages never meet at an
index (`IndexUsed`). `Evident` is about repetition: a first group that has been counted twice was
heard twice or Valid (`FirstsEvident`), one that waits to be confirmed was heard
(`PendingEvident`), and one that is kept at two indices, or kept and also waiting, was
heard twice (`TwiceEvident`). The last is what makes the flushing of expired parts right: a
part dropped at one index moves to those that wait, and the same words may still be at another
index. Clearing, keeping a part, assembling and flushing have a lemma each
(`Dropping`, `Adding`, `Assembling`, `Flushing`). `SentAssumption` says that the parts on the air are
parts of the messages sent, be they sent as 8A groups or under an announced
application (`PartsAreSent`). The time since the last use of an index counts from the end of the decoding
of its last group, so that a receiver that reads the clock late does not keep parts of the old
message beside the new one. `RemainingAssumption` says that a part after the second
announces two more at most: `remaining_groups` has two bits and is used as an
index without a test (`rds_messages_decoder.cpp:646`).

The proofs changed the model where it said something else than the code or than was meant:
group 15B sets one item twice, from two blocks, so that the second
may confirm the first; two receptions of a traffic group are the same one also when
their continuity indices differ, as the code compares messages without them; and
the same bits of a country may stand for another one when the programme
identification changes, so that `BelievedOnEvidence` excludes it.

These modules have recursive functions (`AssignAll`, `Assigned`, the selection) instead of
recursive operators. The library's induction theorems cannot be used; `Inductions`
says instead that a set of naturals that has 0 and the successors of its members has
them all, and predicates are given as sets.

`FiltersProofs` proves, for any rates, windows, blocks, dividers, sizes of slices and
sequences of calls and resets:

| Theorem | Statement |
| --- | --- |
| `CutsDoNotShowHolds` | `Spec => []CutsDoNotShow`: output `k` of a filter is that of the whole stream, wherever slices end, and no sample is given up that the next output is made for |
| `AcceptedHolds` | `Spec => []Accepted` if `Rate <= OutputBlock`: the filters keep to their declared states, and only the decimating FFT filter writes past its slice, by one sample at most |
| `FileInOrderHolds` | `Spec => []FileInOrder`: a file is delivered in order, and completely or up to a rest that does not fill a slice |
| `SymbolsApartHolds` | `Spec => []SymbolsApart`: RDS symbols are between half a period and two and a half apart |
| `GroupsApartHolds` | `Spec => []GroupsApart`: groups are of consecutive bits, share none, and all others are counted |
| `ReceivedAsSentHolds` | `Spec => []ReceivedAsSent`: a received group holds what was sent wherever its statuses say so |
| `EqualizedHolds` | `Spec => []Equalized`: the equalizer's list is of the enabled taps, in order and adjusted, and lies over the latest outputs |
| `GraphLinkedHolds` | `Spec => []GraphLinked`: all filters of the receiver are found, each input has its one writer, and joined streams are in step |
| `AsWholeHolds` | `Spec => []AsWhole`: all of these |
| `InvHolds` | `Spec => []Inv` |

`Inv` is `Counts`, which holds for all filters, and an invariant for each: what the filter
keeps between two slices says how far its outputs are ahead of, or behind, its inputs.
A decimating filter has `Place + skip = Len(made) * Rate`, the resampler
`Place * Interpolation + kernel = Len(made) * Rate`, where `Place` is the number of samples
gone by. The sampler of windows is in window `w`, or so far before the next one
(`WindowAt`). `Summed` says of a running sum in which cell each of its last values is.
`Transformed` says which blocks of an output slice have been convolved, which is why going
from the last block to the first is right: what a block spoils below its place is written
later. For `Accepted` there is also a bound. What a call of the decimating FFT filter takes
is less than `Limit`; that is one output more than there is room for, unless the rate
divides the block (`ThinnedGoesOn`). `Clocked` bounds the age of the last RDS symbol by
where the clock is: before the best clock, the age without the clock is one and a half
periods at most; past it, the age when the best clock comes again is half a period at most.
`Grouped` says where in the stream the accumulated bits are.
`Followed` is why linking finds both ends of each connection: a filter that has been left
has no neighbour that has not been found. The equalizer and the graph are further below.

`Rate <= OutputBlock` is needed: with a larger rate a block may have no output at all, and
a call that puts out nothing fails the `CHECK` in `Block::process`. The filters of the
receiver decimate by 4 and 5, in blocks of hundreds of samples. The assumptions of the
modules are that sizes are positive and that the resampler does not have more outputs than
inputs.

*The equalizer.* `updateTaps` changes the list it walks over. `Ranked` says what the list is
when the walk is at a tap: up to the slot that comes next it has the enabled taps gone by,
adjusted for the new gain; from there on the enabled ones that are to come, not yet adjusted.
`Take` and `Drop` keep this, and at the end it is all of the list. `Ringed` says where the
latest outputs are under a cursor that goes down, in both copies of the ring; `Decayed`
bounds the samples in the sums by the intervals.

*The code of RDS blocks.* `CorrectorProofs` proves about one group:

| Theorem | Statement |
| --- | --- |
| `GroupAsSent` | for all information bits, places and bursts: a block that is said to be Valid after a burst within ten bits, or Corrected after one within five, holds what was sent, unless it is the third one and the second is not believed |

Words are polynomials modulo 2. `DivisionSum`: the remainder is additive, so the syndrome of
a received block is that of its errors alone. `StepTurns`: multiplying a word by `x` is one
`Step` of its remainder, and no two remainders step to the same one (`Turning`). So a burst
within ten bits, which is its own remainder when it is moved down, has a syndrome that is not
empty (`ShortBurst`), and is not taken for none; and two different bursts within five bits
have different syndromes (`TwoBursts`), so the one that is trapped is the one that was there. The
second needs that a word of the five highest places never turns into one of the five lowest
(`HighTurns`). The factor `Poly` is the remainder of `x^-16` (`PolyTurns`), which only moves
the start. The offsets of the two versions of the third
block differ by what a burst at its bits 20, 23 and 24 leaves (`VersionsTurn`): such a burst makes
a Valid block of the other version, which only the second block can tell. A burst that has hit
the second block above its five lowest bits reaches no further than bit 22 of the third
(`HitNext`), and cannot do that (`Confused`, `OtherVersion`). Nothing is claimed about longer bursts, which may leave no
syndrome. In `FiltersProofs`, `Arrived` says of every group put out which group and burst it is of.

*The graph.* `AllLinks` says input by input what is connected: `FirstOf` and `SecondOf` are the
filters that the inputs of a filter read from. That no input has two writers
(`OneWriter`), that the inputs are those the filters have (`InputsAre`) and that every output is
read (`OutputsAre`) follows from this table. `Wired` is the invariant: `writerOf` and
`readersOf` are of the connections of the filters linked so far. When nothing is left to
follow, `Followed` says that what has been found has no neighbours outside, and every filter
comes from the source by way of first inputs (`Reached`), so all are found. `SpacingIn` and
`LagsIn` say what stream each filter puts out; `StreamsAre`, that the recursion along the links
computes them; `StreamsInStep`, that they agree wherever two are joined.

Every safety invariant and action property of the passing runs is proved. Only
model-checked are the liveness properties (`EventuallyDrained`, `Ends`, `EveryBlockRuns`,
`PauseQuiesces`, `StopReturns`, `SearchEnds`): they need fairness, about which the provers
know nothing. What the provers take for granted about sizes is in the assumptions named above;
the instances of the runs satisfy them.

## Not modelled, and why

* *Restart.* `resume()` of a Stopped pipeline that has run before: no program does it.
* *Several sources in one graph*, and `add()` called twice: no program does either.
* *Numerical code*: filter design (`pm_optimizer`, `pm_filters_designer`, `levinson`,
  `lagrange_interpolator`, `iir_filters_designer`, `fir_bands_designer`), PLL, Costas
  loop, FM demodulation, the values of the equalizer, IIR filters, SIMD vectors and
  approximations. What
  could be wrong there is accuracy and convergence on real numbers.
* *Generated constants* (`fm_constants.cpp`, 4337 lines) and the command-line tools
  that generate them.
* *Compile-time adapters* of types (`filter_generic.h`, `mapper_filter.h`, `type_list.h`).
* *Memory alignment*: `FftFilter::process` asks for aligned input (`fft_filter.cpp:61`). Slices start at any
  index in the models, and padding and addresses are not part of them.
* `stop()` that races with a worker which is just finishing the pipeline or has caught an
  exception: `file` has no `stop()`, and in `live` the source is endless and no filter throws. That
  `stop()` fails after the end is shown by the run `stop`.
* ioctl and memory-map failures of the SDR source; options and terminal of the program.

These parts are most of the lines of the repository; the models cover the parts that
keep a state which outlives a call, or that share one.

## Plan

1. `Pipeline`: a second `start()` of a stopped pipeline, and `reset()` of one that has drained.
2. Several sources in one graph, in `Pipeline` and `ReceiverGraph`.
