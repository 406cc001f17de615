------------------------------- MODULE Tuning --------------------------------
(***************************************************************************)
(* The receiver program changes the frequency while the pipeline works:    *)
(* findStations (fm-receiver/stations.cpp) tunes through the band, waits   *)
(* for the scanner at each frequency and picks the stations at the end;    *)
(* runLivePipeline (fm-receiver/main.cpp) does it when a key is pressed.   *)
(* The thread of the program runs next to the workers in the source and in *)
(* the sink.                                                               *)
(*                                                                         *)
(* pause() does not wait for the workers.  The resets are taken to find    *)
(* them out of the filters, as in module Pipeline; nothing else is.        *)
(***************************************************************************)
EXTENDS SpectrumScanner

CONSTANTS Channels,   \* the frequencies at which the levels are compared: 1..Channels
          Strongest   \* bound: the ratios above the threshold are 1..Strongest

ASSUME ChannelsAssumption == Channels \in Nat /\ Strongest \in Nat

VARIABLES
  program,     \* "search" or "live"
  main,        \* where the thread of the program is
  state,       \* state_ of the pipeline
  candidates,  \* channel -> its ratio, 0 if it is below the threshold
  stations     \* the channels found

mainVars == <<program, main, state, candidates, stations>>
vars == <<driverVars, sourceVars, queue, scannerVars, mainVars>>

NoCandidates == [c \in 1..Channels |-> 0]

-----------------------------------------------------------------------------
(* The selection: the strongest candidate that is left is a station unless *)
(* a neighbour is as strong; it and its neighbours are candidates no more. *)

Neighbours(c) == {c - 1, c + 1} \cap 1..Channels

Beats(cs, c) == \A n \in Neighbours(c) : cs[n] < cs[c]

(* Mutant: the neighbours go with every candidate.                         *)
ErasedWithAll(cs, c) ==
  [d \in 1..Channels |-> IF d \in {c} \cup Neighbours(c) THEN 0 ELSE cs[d]]

Erased(cs, c) ==
  [d \in 1..Channels |-> IF d = c \/ (Beats(cs, c) /\ d \in Neighbours(c)) THEN 0 ELSE cs[d]]

Top(cs) == {c \in 1..Channels : cs[c] > 0 /\ \A d \in 1..Channels : cs[d] <= cs[c]}

\* All that can be selected, as equal candidates leave the queue in any order.
Selections[cs \in [1..Channels -> 0..Strongest]] ==
  IF Top(cs) = {} THEN {{}}
  ELSE UNION {{(IF Beats(cs, c) THEN {c} ELSE {}) \cup s : s \in Selections[Erased(cs, c)]} :
              c \in Top(cs)}

-----------------------------------------------------------------------------
Init ==
  /\ SourceInit
  /\ ScannerInit
  /\ program \in {"search", "live"}
  /\ main = IF program = "search" THEN "tune" ELSE "start"
  /\ state = "Stopped"
  /\ candidates = NoCandidates /\ stations = {}

Quiet == pc = "out" /\ scanning = "out"

Goto(place) == main' = place /\ UNCHANGED <<program, state, candidates, stations>>

\* runLivePipeline, before it waits for keys.
Start ==
  /\ main = "start"
  /\ StartStreaming
  /\ main' = "keys" /\ state' = "Running"
  /\ UNCHANGED <<tuned, filling, outgoing, acquired, current, consumed, pc, want, made, old,
                 queue, scannerVars, program, candidates, stations>>

Key ==
  /\ main = "keys"
  /\ \/ tuned < Changes /\ Goto("pause")
     \/ Goto("stop")
  /\ UNCHANGED <<driverVars, sourceVars, queue, scannerVars>>

Tune ==
  /\ main = "tune"
  /\ SetCenterFrequency
  /\ Goto(IF program = "search" THEN "reset scanner" ELSE "reset source")
  /\ UNCHANGED <<queue, scannerVars>>

ScannerReset ==
  /\ main = "reset scanner" /\ Quiet
  /\ ResetScanner
  /\ Goto("reset source")
  /\ UNCHANGED <<driverVars, sourceVars, queue>>

SourceReset ==
  /\ main = "reset source" /\ Quiet
  /\ EnterReset
  /\ Goto("resetting")
  /\ UNCHANGED <<queue, scannerVars>>

\* The end of source.reset(); Pipeline::reset goes on with the buffers.
ResetDone ==
  /\ main = "resetting" /\ Quiet
  /\ queue' = IF program = "live" THEN <<>> ELSE queue
  /\ Goto("resume")
  /\ UNCHANGED <<driverVars, sourceVars, scannerVars>>

Resume ==
  /\ main = "resume" /\ state \in {"Stopped", "Paused"}
  /\ main' = IF program = "search" THEN "poll" ELSE "keys"
  /\ state' = "Running"
  /\ UNCHANGED <<driverVars, sourceVars, queue, scannerVars, program, candidates, stations>>

Poll ==
  /\ main = "poll" /\ Ready
  /\ Goto("pause")
  /\ UNCHANGED <<driverVars, sourceVars, queue, scannerVars>>

\* Fatal unless the pipeline is running.
Pause ==
  /\ main = "pause"
  /\ checked' = (checked /\ state = "Running")
  /\ state' = "Paused"
  /\ main' = IF program = "search" THEN "read" ELSE "tune"
  /\ UNCHANGED <<driverVars, streaming, acquired, current, consumed, pc, want, made, old,
                 queue, scannerVars, program, candidates, stations>>

Read ==
  /\ main = "read"
  /\ Goto(IF tuned < Changes THEN "tune" ELSE "stop")
  /\ UNCHANGED <<driverVars, sourceVars, queue, scannerVars>>

\* Fatal unless the pipeline is running or paused; then it waits for the workers.
Stop ==
  /\ main = "stop"
  /\ checked' = (checked /\ state \in {"Running", "Paused"})
  /\ state' = "Stopped"
  /\ main' = "join"
  /\ UNCHANGED <<driverVars, streaming, acquired, current, consumed, pc, want, made, old,
                 queue, scannerVars, program, candidates, stations>>

Joined ==
  /\ main = "join" /\ Quiet
  /\ Goto(IF program = "search" THEN "select" ELSE "close")
  /\ UNCHANGED <<driverVars, sourceVars, queue, scannerVars>>

Select ==
  /\ main = "select"
  /\ candidates' \in [1..Channels -> 0..Strongest]
  /\ stations' \in Selections[candidates']
  /\ main' = "close"
  /\ UNCHANGED <<driverVars, sourceVars, queue, scannerVars, program, state>>

Closed ==
  /\ main = "close"
  /\ Close
  /\ Goto("end")
  /\ UNCHANGED <<queue, scannerVars>>

-----------------------------------------------------------------------------
\* The workers.  A slice is as large as suggested, except at the end of a lap
\* through the buffer's memory: there the source gets less room, and the sink
\* less data, until it has left the rest of the lap behind.
SourceWorks ==
  \/ /\ state = "Running"
     /\ \E room \in 1..(Capacity - Len(queue)) : EnterProcess(room)
     /\ UNCHANGED <<queue, scannerVars, mainVars>>
  \/ /\ \/ AcquireBuffer \/ ReleaseBuffer \/ Copy \/ ReadClock \/ Compare
     /\ UNCHANGED <<queue, scannerVars, mainVars>>
  \/ /\ LeaveProcess
     /\ queue' = queue \o made
     /\ UNCHANGED <<scannerVars, mainVars>>

ScannerEnters ==
  /\ state = "Running" /\ program = "search"
  /\ \E size \in {Len(queue)} \cup 1..rest : size <= Len(queue) /\ EnterScan(size)
  /\ UNCHANGED <<driverVars, sourceVars, queue, mainVars>>

ScannerWorks ==
  /\ \/ (Count \/ Add) /\ UNCHANGED queue
     \/ LeaveScan
  /\ UNCHANGED <<driverVars, sourceVars, mainVars>>

\* The receiver, which takes whatever there is.
Listen ==
  /\ state = "Running" /\ program = "live"
  /\ \E n \in 1..Len(queue) : queue' = SubSeq(queue, n + 1, Len(queue))
  /\ UNCHANGED <<driverVars, sourceVars, scannerVars, mainVars>>

Driver == Capture /\ UNCHANGED <<queue, scannerVars, mainVars>>

Program ==
  \/ Start \/ Tune \/ ScannerReset \/ SourceReset \/ ResetDone \/ Resume
  \/ Poll \/ Pause \/ Read \/ Stop \/ Joined \/ Select \/ Closed

Next ==
  \/ Driver
  \/ SourceWorks
  \/ ScannerEnters \/ ScannerWorks \/ Listen
  \/ Key
  \/ Program

\* The driver captures; threads that can run do, the program's too but for the
\* keys, which nobody has to press.
Fairness ==
  /\ WF_vars(Driver)
  /\ WF_vars(SourceWorks)
  /\ WF_vars(ScannerEnters \/ ScannerWorks)
  /\ WF_vars(Program)

Spec == Init /\ [][Next]_vars /\ Fairness

-----------------------------------------------------------------------------
Places == {"start", "keys", "tune", "reset scanner", "reset source", "resetting", "resume",
           "poll", "pause", "read", "stop", "join", "select", "close", "end"}

\* The places of the threads and what the driver and the source hold; what has
\* been taken from a buffer is not more than was in it.
TypeOK ==
  /\ program \in {"search", "live"} /\ main \in Places
  /\ state \in {"Stopped", "Running", "Paused"}
  /\ pc \in InSource \cup {"out"} /\ scanning \in {"out", "count", "add", "advance"}
  /\ tuned \in Frequencies
  /\ incoming \in Seq(Buffers) /\ outgoing \in Seq(Filled) /\ current \in Filled
  /\ filling \in Seq(Frequencies) /\ Len(filling) < BufferSize
  /\ streaming \in BOOLEAN /\ acquired \in BOOLEAN /\ checked \in BOOLEAN
  /\ consumed \in 0..Len(current.samples)
  /\ queue \in Seq(Frequencies) /\ made \in Seq(Frequencies)
  /\ Len(queue) + (IF pc = "out" THEN 0 ELSE Len(made)) <= Capacity
  /\ rest \in 0..(Suggested - 1)
  /\ samples \in 0..Window /\ index \in 0..(Window - 1)
  /\ history \in [0..(Window - 1) -> Frequencies]

\* No CHECK fails and no call of the pipeline is fatal: of the source, which two
\* threads use, and of pause(), resume() and stop().
NoCheckFails == checked

\* Once reset() has returned, the source delivers samples of the frequency
\* before only from the buffer that was being filled when it was changed.
OldSamplesFew ==
  main \notin {"reset scanner", "reset source", "resetting"} => old < BufferSize

\* The levels that the search reads, without waiting for the scanner to come to
\* rest, are a full window or one value short of it.
ReadingWhole ==
  main = "read" => \E n \in {Window - 1, Window} : level = Sum(n)

\* Stations are apart, and from every candidate one gets to a station without
\* getting weaker, however equal ones leave the queue.
Climbs(c, s) ==
  \A d \in (IF c < s THEN c..(s - 1) ELSE (s + 1)..c) :
    candidates[d] > 0 /\ candidates[d] <= candidates[IF c < s THEN d + 1 ELSE d - 1]

EveryPeakOnce ==
  main \in {"close", "end"} =>
    /\ \A s \in stations : Neighbours(s) \cap stations = {}
    /\ \A c \in 1..Channels : candidates[c] > 0 => \E s \in stations : Climbs(c, s)

\* The search comes to its end, although the scanner throws the last block of
\* every slice away, and slices may consist of one block.
SearchEnds == program = "search" => <>(main = "end")
=============================================================================
