------------------------------- MODULE Slices --------------------------------
(***************************************************************************)
(* A block runs a filter on slices of its channels: Block::process of the  *)
(* pipeline, as a filter sees it.  The slices are as the other blocks have *)
(* left them: of any size that the filter's states ask for.                *)
(*                                                                         *)
(* A sample is represented by its place in the stream since reset().       *)
(* Inputs of several channels are taken in step, so one stands for them;   *)
(* input_data.size() is counted without the history.                       *)
(***************************************************************************)
EXTENDS Integers, Sequences

CONSTANTS Total,    \* bound: samples given to a filter between two resets
          MaxRoom   \* bound: room in an output slice

ASSUME SlicesAssumption == Total \in Nat /\ MaxRoom \in Nat

VARIABLES
  kind,          \* the filter
  taken,         \* samples that the block has advanced the input by
  made,          \* what the filter has put out since reset()
  given,         \* input_data.size()
  room,          \* output_data.size()
  input_index,   \* samples of the slice that are done
  output_index,  \* outputs of this call
  pc,            \* where process() is
  checked        \* no CHECK has failed

sliceVars == <<kind, taken, made, given, room, input_index, output_index, pc, checked>>

\* io_states.h: what a slice has to have, and what an advance must come to.
States(required, roomRequired, provided, idle) ==
  [required |-> required, room |-> roomRequired, provided |-> provided, idle |-> idle]

SlicesInit ==
  /\ taken = 0 /\ made = <<>>
  /\ given = 0 /\ room = 0 /\ input_index = 0 /\ output_index = 0
  /\ pc = "idle" /\ checked = TRUE

Least(a, b) == IF a < b THEN a ELSE b
Greatest(a, b) == IF a > b THEN a ELSE b

RoundDown(n, unit) == (n \div unit) * unit

-----------------------------------------------------------------------------
\* The slices are taken and process() is called; a source requires no input.
Enter(states) ==
  /\ pc = "idle"
  /\ given' \in states.required..(IF states.required = 0 THEN 0 ELSE Total - taken)
  /\ room' \in states.room..MaxRoom
  /\ input_index' = 0 /\ output_index' = 0
  /\ pc' = "loop"
  /\ UNCHANGED <<kind, taken, made, checked>>

\* process() has put out these samples after having taken n.
Emit(outs, n) ==
  /\ made' = made \o outs
  /\ output_index' = output_index + Len(outs)
  /\ input_index' = input_index + n
  /\ UNCHANGED <<kind, taken, given, room>>

Return ==
  /\ pc' = "leave"
  /\ UNCHANGED <<kind, taken, made, given, room, input_index, output_index>>

\* The CHECKs of Block::process, and the advances.
Leave(states, eof) ==
  /\ pc = "leave"
  /\ checked' = /\ checked
                /\ states.idle \/ (input_index > 0 /\ input_index % states.required = 0)
                /\ output_index >= states.provided \/ eof
  /\ taken' = taken + input_index
  /\ pc' = "idle"
  /\ given' = 0 /\ room' = 0 /\ input_index' = 0 /\ output_index' = 0
  /\ UNCHANGED <<kind, made>>

\* Pipeline::reset, when no worker is in the block.
ResetSlices ==
  /\ pc = "idle"
  /\ taken' = 0 /\ made' = <<>>
  /\ UNCHANGED <<kind, given, room, input_index, output_index, pc, checked>>
=============================================================================
