--------------------------- MODULE SdrKernelSource ---------------------------
(***************************************************************************)
(* SdrKernelSource of filters: a source that takes buffers filled by a     *)
(* V4L2 driver, copies their samples to its output, and gives them back.   *)
(* After a change of frequency, reset() throws the buffers away that were  *)
(* filled before it.                                                       *)
(*                                                                         *)
(* process() is run by a worker of the pipeline and reset() by the thread  *)
(* of the program; they share one program counter, as they must not be     *)
(* active together (the code leaves this to its caller).  A sample is      *)
(* represented by the frequency it was captured at, and a frequency by the *)
(* number of changes so far.                                               *)
(***************************************************************************)
EXTENDS Integers, Sequences, FiniteSets

CONSTANTS BuffersCount, \* buffers the driver has granted
          BufferSize,   \* samples the driver puts into a buffer
          Suggested     \* suggestedSize() of the output

ASSUME SizesAssumption == /\ BuffersCount \in Nat \ {0}
                          /\ BufferSize \in Nat \ {0}
                          /\ Suggested \in Nat \ {0}

VARIABLES
  tuned,      \* driver: the frequency
  incoming,   \* driver: queued buffers, the first one is being filled
  filling,    \* driver: samples in that one
  outgoing,   \* driver: filled buffers [buffer, samples, before]
  streaming,  \* streaming_
  acquired,   \* acquired_buffer_
  current,    \* buffers_[current_buffer_index_], as it came from the driver
  consumed,   \* consumed_bytes_, in samples
  pc,         \* where process() or reset() is
  want,       \* output_size
  made,       \* output_data[0 .. output_index)
  old,        \* history: samples made since reset() and captured before
              \* the frequency was last changed
  checked     \* no CHECK has failed

driverVars == <<tuned, incoming, filling, outgoing>>
sourceVars == <<streaming, acquired, current, consumed, pc, want, made, old, checked>>

Buffers == 0..(BuffersCount - 1)

\* A filled buffer and whether its time stamp is from before the time that
\* reset() has read; no later reset() compares it with an earlier one.
Filled == [buffer : Buffers, samples : Seq(Nat), before : BOOLEAN]

InSource == {"acquire", "copy", "release", "done",
             "reset first", "reset read", "reset compare", "reset discard", "reset next"}

SourceInit ==
  /\ tuned = 0
  /\ incoming = <<>> /\ filling = <<>> /\ outgoing = <<>>
  /\ streaming = FALSE /\ acquired = FALSE
  /\ current \in [buffer : Buffers, samples : {<<>>}, before : {TRUE}]
  /\ consumed = 0
  /\ pc = "out" /\ want = 0 /\ made = <<>> /\ old = 0
  /\ checked = TRUE

-----------------------------------------------------------------------------
\* The driver captures a sample; a full buffer is stamped with the time and
\* can be taken.  Without a queued buffer the sample is lost.
Capture ==
  /\ streaming /\ incoming # <<>>
  /\ IF Len(filling) + 1 < BufferSize
     THEN filling' = Append(filling, tuned) /\ UNCHANGED <<incoming, outgoing>>
     ELSE /\ filling' = <<>>
          /\ incoming' = Tail(incoming)
          /\ outgoing' = Append(outgoing, [buffer |-> Head(incoming),
                                           samples |-> Append(filling, tuned), before |-> FALSE])
  /\ UNCHANGED <<tuned, sourceVars>>

SetCenterFrequency ==
  /\ tuned' = tuned + 1
  /\ UNCHANGED <<incoming, filling, outgoing, sourceVars>>

\* mapBuffers and VIDIOC_STREAMON.
StartStreaming ==
  /\ checked' = (checked /\ ~streaming)
  /\ incoming' = [i \in 1..BuffersCount |-> i - 1]
  /\ streaming' = TRUE

\* acquireBuffer: VIDIOC_DQBUF waits for a filled buffer.
AcquireBuffer ==
  /\ pc \in {"acquire", "reset first", "reset next"}
  /\ outgoing # <<>>
  /\ current' = Head(outgoing)
  /\ outgoing' = Tail(outgoing)
  /\ consumed' = 0
  /\ acquired' = TRUE
  /\ checked' = (checked /\ (pc = "acquire" => ~acquired))
  /\ pc' = CASE pc = "acquire" -> "copy"
             [] pc = "reset first" -> "reset read"
             [] OTHER -> "reset compare"
  /\ UNCHANGED <<tuned, incoming, filling, streaming, want, made, old>>

(* Mutant: releaseBuffer leaves the flag to its caller.                     *)
StillAcquired == pc = "release"

AcquiredAfterRelease == FALSE

\* releaseBuffer: VIDIOC_QBUF; process() goes on with another one or returns.
ReleaseBuffer ==
  /\ pc \in {"release", "reset discard"}
  /\ checked' = (checked /\ (pc = "release" => acquired))
  /\ incoming' = Append(incoming, current.buffer)
  /\ acquired' = AcquiredAfterRelease
  /\ pc' = IF pc = "reset discard" THEN "reset next"
           ELSE IF Len(made) < want THEN "acquire" ELSE "done"
  /\ UNCHANGED <<tuned, filling, outgoing, streaming, current, consumed, want, made, old>>

-----------------------------------------------------------------------------
\* process, for an output slice of the given size.
EnterProcess(room) ==
  /\ pc = "out"
  /\ want' = IF room < Suggested THEN room ELSE Suggested
  /\ made' = <<>>
  /\ IF streaming THEN UNCHANGED <<incoming, streaming, checked>> ELSE StartStreaming
  /\ pc' = IF acquired THEN "copy" ELSE "acquire"
  /\ UNCHANGED <<tuned, filling, outgoing, acquired, current, consumed, old>>

Copy ==
  /\ pc = "copy"
  /\ LET left == Len(current.samples) - consumed
         n == IF left < want - Len(made) THEN left ELSE want - Len(made)
         copied == SubSeq(current.samples, consumed + 1, consumed + n)
     IN /\ made' = made \o copied
        /\ consumed' = consumed + n
        /\ old' = old + Cardinality({i \in DOMAIN copied : copied[i] < tuned})
        /\ pc' = IF n = left THEN "release" ELSE "done"
  /\ UNCHANGED <<driverVars, streaming, acquired, current, want, checked>>

LeaveProcess ==
  /\ pc = "done"
  /\ pc' = "out"
  /\ made' = <<>>
  /\ UNCHANGED <<driverVars, streaming, acquired, current, consumed, want, old, checked>>

-----------------------------------------------------------------------------
\* reset: up to the first buffer whose stamp is not before now.
(* Mutant: reset starts with a buffer of its own.                          *)
ResetTakesOne == IF streaming THEN "reset first" ELSE "out"

ResetStart ==
  IF ~streaming THEN "out" ELSE IF acquired THEN "reset read" ELSE "reset first"

EnterReset ==
  /\ pc = "out"
  /\ pc' = ResetStart
  /\ UNCHANGED <<driverVars, streaming, acquired, current, consumed, want, made, old, checked>>

(* Mutant: of the filled buffers only the acquired one is found too old.   *)
StampedNow(b) == b

Stamped(b) == [b EXCEPT !.before = TRUE]

ReadClock ==
  /\ pc = "reset read"
  /\ current' = [current EXCEPT !.before = TRUE]
  /\ outgoing' = [i \in DOMAIN outgoing |-> Stamped(outgoing[i])]
  /\ old' = 0
  /\ pc' = "reset compare"
  /\ UNCHANGED <<tuned, incoming, filling, streaming, acquired, consumed, want, made, checked>>

Compare ==
  /\ pc = "reset compare"
  /\ pc' = IF current.before THEN "reset discard" ELSE "out"
  /\ UNCHANGED <<driverVars, streaming, acquired, current, consumed, want, made, old, checked>>

\* The destructor: stopStreaming, and the driver takes all buffers back.
Close ==
  /\ checked' = (checked /\ streaming)
  /\ streaming' = FALSE /\ acquired' = FALSE
  /\ incoming' = <<>> /\ filling' = <<>> /\ outgoing' = <<>>
  /\ UNCHANGED <<tuned, current, consumed, pc, want, made, old>>

-----------------------------------------------------------------------------
\* Every buffer is in one place: with the driver, to be filled or to be taken,
\* or with the source, in whatever order process() and reset() take and give
\* back buffers and wherever they leave off.
OneHolder ==
  streaming =>
    /\ Len(incoming) + Len(outgoing) + (IF acquired THEN 1 ELSE 0) = BuffersCount
    /\ {incoming[i] : i \in DOMAIN incoming} \cup {outgoing[i].buffer : i \in DOMAIN outgoing}
         \cup (IF acquired THEN {current.buffer} ELSE {}) = Buffers
=============================================================================
