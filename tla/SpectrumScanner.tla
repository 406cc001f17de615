--------------------------- MODULE SpectrumScanner ---------------------------
(***************************************************************************)
(* SpectrumScanner of filters: a sink that keeps, for every bin of the     *)
(* spectrum, the sum of the last averaging_window_ values.  A worker adds  *)
(* values while another thread asks whether the window is full and reads   *)
(* the sums, without a mutex.                                              *)
(*                                                                         *)
(* One bin stands for all: they are updated and read one by one.  The      *)
(* value a block of samples contributes is represented by the oldest       *)
(* frequency in it, and a sum by how many values of each frequency it has. *)
(***************************************************************************)
EXTENDS SdrKernelSource

CONSTANTS FftSize,   \* fft_size_
          Window,    \* averaging_window_
          Capacity,  \* samples that fit between the source and the scanner
          Changes    \* bound: how often the frequency is changed

ASSUME ScannerAssumption == /\ FftSize \in Nat \ {0} /\ Window \in Nat \ {0}
                            /\ Capacity \in Nat \ {0} /\ Changes \in Nat \ {0}

VARIABLES
  queue,      \* the samples between the source and the scanner
  samples,    \* samples_
  level,      \* levels_ of one bin: frequency -> values in the sum
  history,    \* history_ of that bin
  index,      \* current_index_
  scanning,   \* where process() is
  block,      \* input_index / fft_size_
  blocks,     \* input_data_size / fft_size_
  rest        \* samples that slices at the end of the lap may still have

scannerVars == <<samples, level, history, index, scanning, block, blocks, rest>>

Frequencies == 0..Changes
NoLevel == [f \in Frequencies |-> 0]

ScannerInit ==
  /\ queue = <<>>
  /\ samples = 0
  /\ level = NoLevel
  /\ history = [i \in 0..(Window - 1) |-> 0]
  /\ index = 0
  /\ scanning = "out" /\ block = 0 /\ blocks = 0 /\ rest = Suggested - 1

\* reset: the history and the index keep what they have.
ResetScanner ==
  /\ samples' = 0
  /\ level' = NoLevel
  /\ UNCHANGED <<history, index, scanning, block, blocks, rest>>

(* Mutant: a window is full when one value is missing.                     *)
ReadyEarly == samples + 1 >= Window

(* Mutant: a window is full when there is more than a window.              *)
ReadyLate == samples > Window

Ready == samples = Window

-----------------------------------------------------------------------------
\* process, for an input slice of the given size.  The loop over the whole
\* blocks ends before the last one; all of them are consumed.  Slices are smaller
\* than suggested only at the end of a lap through the buffer's memory.
EnterScan(size) ==
  /\ scanning = "out" /\ size >= FftSize
  /\ size >= Suggested \/ size <= rest
  /\ rest' = IF size >= Suggested THEN Suggested - 1 ELSE rest - size
  /\ blocks' = size \div FftSize
  /\ block' = 0
  /\ scanning' = IF size \div FftSize > 1 THEN "count" ELSE "advance"
  /\ UNCHANGED <<samples, level, history, index>>

Oldest(k) ==
  LET part == {queue[i] : i \in (k * FftSize + 1)..((k + 1) * FftSize)}
  IN CHOOSE f \in part : \A g \in part : f <= g

\* A full window loses its oldest value; a new one is counted before it is added.
Count ==
  /\ scanning = "count"
  /\ IF samples = Window
     THEN level' = [level EXCEPT ![history[index]] = @ - 1] /\ UNCHANGED samples
     ELSE samples' = samples + 1 /\ UNCHANGED level
  /\ scanning' = "add"
  /\ UNCHANGED <<history, index, block, blocks, rest>>

(* Mutant: the place in the history stays at the end.                      *)
FollowingStuck == IF index + 1 < Window THEN index + 1 ELSE index

(* Mutant: the place in the history runs past the end.                     *)
FollowingPast == (index + 1) % (Window + 1)

Following == (index + 1) % Window

Add ==
  /\ scanning = "add"
  /\ history' = [history EXCEPT ![index] = Oldest(block)]
  /\ level' = [level EXCEPT ![Oldest(block)] = @ + 1]
  /\ index' = Following
  /\ block' = block + 1
  /\ scanning' = IF block + 2 < blocks THEN "count" ELSE "advance"
  /\ UNCHANGED <<samples, blocks, rest>>

LeaveScan ==
  /\ scanning = "advance"
  /\ queue' = SubSeq(queue, blocks * FftSize + 1, Len(queue))
  /\ scanning' = "out"
  /\ UNCHANGED <<samples, level, history, index, block, blocks, rest>>
-----------------------------------------------------------------------------
\* The sum of the last n values of the history.
Sum(n) ==
  [f \in Frequencies |->
     Cardinality({k \in 1..n : history[(index - k) % Window] = f})]

\* The sum is that of the values since reset(), at most a window of them: reset()
\* leaves the old history and the place in it, and counts anew.
LevelIsWindow ==
  level = Sum(IF scanning = "add" THEN samples - 1 ELSE samples)
=============================================================================
