------------------------------ MODULE Broadcast ------------------------------
(***************************************************************************)
(* What a circular buffer of the pipeline promises to the blocks it joins: *)
(* one producer appends elements to a stream, every consumer takes the     *)
(* elements of the stream in order, each element once, and the producer is *)
(* never further ahead of a consumer than the buffer can hold.             *)
(*                                                                         *)
(* A consumer may be asked to start a few elements into the stream (delay) *)
(* and to look back at the elements before the next one (history).         *)
(***************************************************************************)
EXTENDS Integers

CONSTANTS
  Readers,       \* the consumers of the stream
  HistorySize,   \* HistorySize[r]: elements r keeps looking back at
  Delay,         \* Delay[r]: elements of the stream r skips at the start
  Capacity,      \* elements the buffer holds
  StreamLength   \* length of the stream, the bound of the model

VARIABLES
  written,       \* elements the producer has appended
  taken          \* taken[r]: elements consumer r has taken

vars == <<written, taken>>

(* Position in the stream of the next element that r takes.                *)
NextElement(r) == taken[r] + Delay[r]

(* Elements that must stay in the buffer for r.                            *)
Lag(r) == written - NextElement(r) + HistorySize[r]

Init ==
  /\ written = 0
  /\ taken = [r \in Readers |-> 0]

Produce(n) ==
  /\ written + n <= StreamLength
  /\ \A r \in Readers : Lag(r) + n <= Capacity
  /\ written' = written + n
  /\ UNCHANGED taken

Consume(r, n) ==
  /\ NextElement(r) + n <= written
  /\ taken' = [taken EXCEPT ![r] = @ + n]
  /\ UNCHANGED written

Restart ==
  /\ written' = 0
  /\ taken' = [r \in Readers |-> 0]

Next ==
  \/ \E n \in 1 .. StreamLength : Produce(n)
  \/ \E r \in Readers, n \in 1 .. StreamLength : Consume(r, n)
  \/ Restart

Spec == Init /\ [][Next]_vars
=============================================================================
