------------------------------- MODULE Devices -------------------------------
(***************************************************************************)
(* AlsaSink and FileSource: the ends of a pipeline.  What the sink has put *)
(* out is what the sound device has been given; what the source has put    *)
(* out are places in the file.                                             *)
(***************************************************************************)
EXTENDS Slices

CONSTANTS Delay,      \* samples_delay_
          FileSize    \* elements in the file

ASSUME DevicesAssumption == Delay \in Nat /\ FileSize \in Nat \ {0}

VARIABLES delayed,     \* delayed_
          remaining,   \* remaining_frames
          place,       \* where the file is read next
          failed,      \* !file_
          eof          \* eof() of the source's output

deviceVars == <<delayed, remaining, place, failed, eof>>

DevicesInit == delayed = FALSE /\ remaining = 0 /\ place = 0 /\ failed = FALSE /\ eof = FALSE

\* The source has no reset of its own.
DevicesReset == delayed' = FALSE /\ UNCHANGED <<remaining, place, failed, eof>>

-----------------------------------------------------------------------------
\* AlsaSink: nothing is taken before there is enough for the delay.
AlsaWait ==
  /\ pc = "loop" /\ ~delayed /\ given < Delay
  /\ Return
  /\ UNCHANGED <<checked, deviceVars>>

\* snd_pcm_prepare, and the room in the device; it may also refuse.
AlsaStart ==
  /\ pc = "loop" /\ (delayed \/ given >= Delay)
  /\ delayed' = TRUE
  /\ remaining' \in 0..given
  /\ pc' = "write"
  /\ UNCHANGED <<kind, taken, made, given, room, input_index, output_index, checked,
                 place, failed, eof>>

\* snd_pcm_writen takes some of the frames; none when an underrun has happened.
AlsaWrite ==
  /\ pc = "write" /\ remaining > 0
  /\ \E n \in 0..remaining :
       /\ Emit([k \in 1..n |-> taken + input_index + k - 1], n)
       /\ remaining' = remaining - n
  /\ UNCHANGED <<pc, checked, delayed, place, failed, eof>>

AlsaWritten ==
  /\ pc = "write" /\ remaining = 0
  /\ Return
  /\ UNCHANGED <<checked, deviceVars>>

\* Another error is thrown out of process(), and the pipeline stops.
AlsaThrows ==
  /\ pc \in {"loop", "write"}
  /\ pc' = "thrown"
  /\ UNCHANGED <<kind, taken, made, given, room, input_index, output_index, checked, deviceVars>>

-----------------------------------------------------------------------------
\* FileSource: what read() gets from here; the stream fails when it is short.
Got(from) == IF FileSize - from < room THEN FileSize - from ELSE room

\* A short read of a file in a loop is thrown away.
ReadFile(loop) ==
  /\ pc = "loop"
  /\ LET short == failed \/ Got(place) < room
         again == loop /\ short
         n == IF again THEN Got(0) ELSE IF failed THEN 0 ELSE Got(place)
         from == IF again THEN 0 ELSE place
     IN /\ Emit([k \in 1..n |-> from + k - 1], 0)
        /\ place' = from + n
        /\ failed' = (n < room)
        /\ eof' = (n = 0)
  /\ pc' = "leave"
  /\ UNCHANGED <<checked, delayed, remaining>>
=============================================================================
