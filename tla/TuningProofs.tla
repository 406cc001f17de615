---------------------------- MODULE TuningProofs -----------------------------
(***************************************************************************)
(* The source keeps count of its buffers, and no CHECK fails; the search   *)
(* reads whole windows of samples captured at the frequency it has tuned   *)
(* to, and finds every peak once: for any number and size of buffers,      *)
(* slices and windows, any number of changes of the frequency and any      *)
(* ratios.                                                                 *)
(***************************************************************************)
EXTENDS Tuning, Inductions

Numbers(s) == {s[i] : i \in DOMAIN s}
BuffersOf(s) == {s[i].buffer : i \in DOMAIN s}

Resets == {"reset first", "reset read", "reset compare", "reset discard", "reset next"}

-----------------------------------------------------------------------------
(* What the driver and the source hold, by where process or reset is.      *)
Types ==
  /\ tuned \in Nat
  /\ incoming \in Seq(Buffers)
  /\ filling \in Seq(Nat)
  /\ outgoing \in Seq(Filled)
  /\ current \in Filled
  /\ streaming \in BOOLEAN /\ acquired \in BOOLEAN
  /\ pc \in InSource \cup {"out"}

Holding ==
  /\ pc \in {"copy", "release", "reset read", "reset compare", "reset discard"} => acquired
  /\ pc \in {"acquire", "reset first", "reset next"} => ~acquired
  /\ pc # "out" => streaming
  /\ ~streaming => ~acquired /\ outgoing = <<>>

(* How far the program is, and what the pipeline and the source do then.   *)
Stage ==
  /\ main \in Places
  /\ program \in {"search", "live"}
  /\ pc \in Resets => main = "resetting"
  /\ main \in {"select", "close", "end"} => pc = "out"
  /\ main \in {"start", "join", "select", "close", "end"} => state = "Stopped"
  /\ main \in {"keys", "poll", "pause"} => state = "Running"
  /\ main \in {"tune", "reset scanner", "reset source", "resetting", "resume"}
       => state \in {"Stopped", "Paused"}
  /\ main = "read" => state = "Paused"
  /\ main = "stop" => state \in {"Running", "Paused"}

(* Whether there is a stream: the window cannot fill without one.          *)
Flowing ==
  /\ main = "start" => program = "live" /\ ~streaming
  /\ main = "keys" => program = "live"
  /\ program = "live" => main \in {"start", "end"} \/ streaming
  /\ ~streaming /\ main # "end" => samples = 0 /\ scanning = "out" /\ queue = <<>>
  /\ main \in {"pause", "read", "stop", "join", "select", "close"} => streaming

IInv == Types /\ Holding /\ Stage /\ Flowing /\ OneHolder /\ NoCheckFails

-----------------------------------------------------------------------------
LEMMA Appending ==
  ASSUME NEW S, NEW s \in Seq(S), NEW e \in S
  PROVE  /\ Append(s, e) \in Seq(S)
         /\ Len(Append(s, e)) = Len(s) + 1
         /\ Numbers(Append(s, e)) = Numbers(s) \cup {e}
         /\ BuffersOf(Append(s, e)) = BuffersOf(s) \cup {e.buffer}
<1> DEFINE t == Append(s, e)
<1>1. /\ t \in Seq(S) /\ Len(t) = Len(s) + 1
      /\ DOMAIN t = 1..(Len(s) + 1) /\ DOMAIN s = 1..Len(s)
      /\ t[Len(s) + 1] = e /\ \A i \in 1..Len(s) : t[i] = s[i]
  OBVIOUS
<1>2. Numbers(t) = Numbers(s) \cup {e}
  BY <1>1 DEF Numbers
<1>3. BuffersOf(t) = BuffersOf(s) \cup {e.buffer}
  BY <1>1 DEF BuffersOf
<1> QED BY <1>1, <1>2, <1>3

LEMMA Taking ==
  ASSUME NEW S, NEW s \in Seq(S), s # <<>>
  PROVE  /\ Head(s) \in S /\ Tail(s) \in Seq(S)
         /\ Len(Tail(s)) = Len(s) - 1 /\ Len(s) > 0
         /\ Numbers(s) = Numbers(Tail(s)) \cup {Head(s)}
         /\ BuffersOf(s) = BuffersOf(Tail(s)) \cup {Head(s).buffer}
<1> DEFINE t == Tail(s)
<1>1. /\ Head(s) \in S /\ t \in Seq(S) /\ Len(t) = Len(s) - 1 /\ Len(s) \in Nat \ {0}
      /\ DOMAIN t = 1..(Len(s) - 1) /\ DOMAIN s = 1..Len(s)
      /\ s[1] = Head(s) /\ \A i \in 1..(Len(s) - 1) : t[i] = s[i + 1]
  OBVIOUS
<1>2. \A i \in 1..Len(s) : i = 1 \/ (i - 1 \in 1..(Len(s) - 1) /\ s[i] = t[i - 1])
  BY <1>1
<1>3. \A i \in 1..(Len(s) - 1) : i + 1 \in 1..Len(s) /\ t[i] = s[i + 1]
  BY <1>1
<1>4. 1 \in DOMAIN s
  BY <1>1
<1>5. Numbers(s) = Numbers(t) \cup {Head(s)}
  <2>1. ASSUME NEW x \in Numbers(s) PROVE x \in Numbers(t) \cup {Head(s)}
    <3>1. PICK i \in 1..Len(s) : x = s[i]
      BY <1>1 DEF Numbers
    <3> QED BY <1>1, <1>2, <3>1 DEF Numbers
  <2>2. ASSUME NEW x \in Numbers(t) PROVE x \in Numbers(s)
    BY <1>1, <1>3 DEF Numbers
  <2>3. Head(s) \in Numbers(s)
    BY <1>1, <1>4 DEF Numbers
  <2> QED BY <2>1, <2>2, <2>3
<1>6. BuffersOf(s) = BuffersOf(t) \cup {Head(s).buffer}
  <2>1. ASSUME NEW x \in BuffersOf(s) PROVE x \in BuffersOf(t) \cup {Head(s).buffer}
    <3>1. PICK i \in 1..Len(s) : x = s[i].buffer
      BY <1>1 DEF BuffersOf
    <3> QED BY <1>1, <1>2, <3>1 DEF BuffersOf
  <2>2. ASSUME NEW x \in BuffersOf(t) PROVE x \in BuffersOf(s)
    BY <1>1, <1>3 DEF BuffersOf
  <2>3. Head(s).buffer \in BuffersOf(s)
    BY <1>1, <1>4 DEF BuffersOf
  <2> QED BY <2>1, <2>2, <2>3
<1> QED BY <1>1, <1>5, <1>6

LEMMA Initially == Init => IInv
<1> SUFFICES ASSUME Init PROVE IInv
  OBVIOUS
<1> USE DEF Init, SourceInit, ScannerInit
<1>1. Types
  <2>1. current \in Filled
    <3>1. PICK b \in Buffers : current = [buffer |-> b, samples |-> <<>>, before |-> TRUE]
      <4>1. current \in [buffer : Buffers, samples : {<<>>}, before : {TRUE}]
        OBVIOUS
      <4> QED BY <4>1
    <3>2. <<>> \in Seq(Nat)
      OBVIOUS
    <3> QED BY <3>1, <3>2 DEF Filled
  <2>2. incoming \in Seq(Buffers) /\ filling \in Seq(Nat)
    OBVIOUS
  <2>3. outgoing \in Seq(Filled)
    OBVIOUS
  <2>4. tuned \in Nat /\ streaming \in BOOLEAN /\ acquired \in BOOLEAN /\ pc \in InSource \cup {"out"}
    OBVIOUS
  <2> QED BY <2>1, <2>2, <2>3, <2>4 DEF Types
<1>2. Holding
  BY DEF Holding
<1>3. Stage
  BY DEF Stage, Places, Resets
<1>4. Flowing
  BY DEF Flowing
<1>5. OneHolder /\ NoCheckFails
  BY DEF OneHolder, NoCheckFails
<1> QED BY <1>1, <1>2, <1>3, <1>4, <1>5 DEF IInv

-----------------------------------------------------------------------------
(* Steps that leave some of the parts alone.                               *)
LEMMA BuffersRest ==
  OneHolder /\ UNCHANGED <<incoming, outgoing, streaming, acquired, current>> => OneHolder'
BY DEF OneHolder

LEMMA SourceRests ==
  IInv /\ UNCHANGED <<driverVars, sourceVars>> => Types' /\ Holding' /\ OneHolder' /\ NoCheckFails'
<1> SUFFICES ASSUME IInv, UNCHANGED <<driverVars, sourceVars>>
             PROVE  Types' /\ Holding' /\ OneHolder' /\ NoCheckFails'
  OBVIOUS
<1> USE DEF IInv, driverVars, sourceVars
<1>1. Types'
  BY DEF Types
<1>2. Holding'
  BY DEF Holding
<1>3. OneHolder'
  BY BuffersRest
<1>4. NoCheckFails'
  BY DEF NoCheckFails
<1> QED BY <1>1, <1>2, <1>3, <1>4

(* Where the thread of the program does not move, and the pipeline's state *)
(* stays as it is, only the source can disturb the rest.                   *)
LEMMA ProgramRests ==
  ASSUME Stage, UNCHANGED mainVars, pc' \in Resets => pc \in Resets,
         pc' = "out" \/ pc # "out" \/ state = "Running"
  PROVE  Stage'
BY DEF Stage, mainVars

LEMMA StreamRests ==
  ASSUME Flowing, UNCHANGED <<queue, scannerVars, mainVars>>,
         streaming' = streaming \/ (main # "start" /\ streaming')
  PROVE  Flowing'
BY DEF Flowing, scannerVars, mainVars

-----------------------------------------------------------------------------
(* The driver.                                                             *)
LEMMA DriverKeeps == IInv /\ Driver => IInv'
<1> SUFFICES ASSUME IInv, Driver PROVE IInv'
  OBVIOUS
<1>1. /\ Types /\ Holding /\ Stage /\ Flowing /\ OneHolder /\ NoCheckFails
      /\ tuned \in Nat /\ incoming \in Seq(Buffers) /\ filling \in Seq(Nat)
      /\ outgoing \in Seq(Filled)
  BY DEF IInv, Types
<1>2. /\ UNCHANGED <<sourceVars, tuned, queue, scannerVars, mainVars>>
      /\ streaming /\ incoming # <<>>
  BY DEF Driver, Capture
<1>3. UNCHANGED <<streaming, acquired, current, pc, checked, samples, scanning, program, main, state>>
  BY <1>2 DEF sourceVars, scannerVars, mainVars
<1>4. Stage' /\ NoCheckFails' /\ Holding' /\ Flowing'
  <2>1. Stage'
    BY <1>1, <1>3 DEF Stage
  <2>2. NoCheckFails' /\ Holding'
    BY <1>1, <1>2, <1>3 DEF Holding, NoCheckFails
  <2>3. Flowing'
    BY <1>1, <1>2, <1>3 DEF Flowing
  <2> QED BY <2>1, <2>2, <2>3
<1>5. CASE UNCHANGED <<incoming, outgoing>> /\ filling' = Append(filling, tuned)
  <2>1. filling' \in Seq(Nat)
    BY <1>1, <1>5, Appending
  <2>2. Types'
    BY <1>1, <1>2, <1>3, <1>5, <2>1 DEF Types
  <2>3. OneHolder'
    BY <1>1, <1>3, <1>5, BuffersRest
  <2> QED BY <1>4, <2>2, <2>3 DEF IInv
<1>6. CASE ~(Len(filling) + 1 < BufferSize)
  <2> DEFINE b == [buffer |-> Head(incoming), samples |-> Append(filling, tuned), before |-> FALSE]
  <2>1. /\ Head(incoming) \in Buffers /\ Tail(incoming) \in Seq(Buffers)
        /\ Len(Tail(incoming)) = Len(incoming) - 1 /\ Len(incoming) > 0
        /\ Numbers(incoming) = Numbers(Tail(incoming)) \cup {Head(incoming)}
    BY Taking, <1>1, <1>2
  <2>2. b \in Filled
    <3>1. Append(filling, tuned) \in Seq(Nat)
      BY <1>1, Appending
    <3> QED BY <2>1, <3>1 DEF Filled
  <2>3. incoming' = Tail(incoming) /\ outgoing' = Append(outgoing, b) /\ filling' = <<>>
    BY <1>6 DEF Driver, Capture
  <2>4. b.buffer = Head(incoming)
    OBVIOUS
  <2> HIDE DEF b
  <2>5. /\ outgoing' \in Seq(Filled)
        /\ Len(outgoing') = Len(outgoing) + 1
        /\ BuffersOf(outgoing') = BuffersOf(outgoing) \cup {b.buffer}
    BY <1>1, <2>2, <2>3, Appending
  <2>6. Types'
    <3>1. filling' \in Seq(Nat)
      BY <2>3
    <3> QED BY <1>1, <1>2, <1>3, <2>1, <2>3, <2>5, <3>1 DEF Types
  <2>7. OneHolder'
    <3>1. Numbers(incoming') \cup BuffersOf(outgoing') = Numbers(incoming) \cup BuffersOf(outgoing)
      BY <2>1, <2>3, <2>4, <2>5
    <3>2. Len(incoming') + Len(outgoing') = Len(incoming) + Len(outgoing)
      <4>1. Len(incoming) \in Nat /\ Len(outgoing) \in Nat
        BY <1>1
      <4> QED BY <4>1, <2>1, <2>3, <2>5
    <3> QED BY <1>1, <1>2, <1>3, <3>1, <3>2 DEF OneHolder, Numbers, BuffersOf
  <2> QED BY <1>4, <2>6, <2>7 DEF IInv
<1>7. Len(filling) + 1 < BufferSize =>
        UNCHANGED <<incoming, outgoing>> /\ filling' = Append(filling, tuned)
  BY DEF Driver, Capture
<1> QED BY <1>5, <1>6, <1>7

-----------------------------------------------------------------------------
(* A worker in the source, or the thread of the program in its reset.      *)
LEMMA AcquireBufferKeeps ==
  IInv /\ AcquireBuffer /\ UNCHANGED <<queue, scannerVars, mainVars>> => IInv'
<1> SUFFICES ASSUME IInv, AcquireBuffer, UNCHANGED <<queue, scannerVars, mainVars>> PROVE IInv'
  OBVIOUS
<1>1. /\ Types /\ Holding /\ Stage /\ Flowing /\ OneHolder /\ NoCheckFails
      /\ incoming \in Seq(Buffers) /\ outgoing \in Seq(Filled)
  BY DEF IInv, Types
<1>2. /\ pc \in {"acquire", "reset first", "reset next"} /\ outgoing # <<>>
      /\ current' = Head(outgoing) /\ outgoing' = Tail(outgoing) /\ acquired' = TRUE
      /\ checked' = (checked /\ (pc = "acquire" => ~acquired))
      /\ UNCHANGED <<tuned, incoming, filling, streaming>>
  BY DEF AcquireBuffer
<1>3. \/ pc = "acquire" /\ pc' = "copy"
      \/ pc = "reset first" /\ pc' = "reset read"
      \/ pc = "reset next" /\ pc' = "reset compare"
  BY DEF AcquireBuffer
<1>4. streaming /\ ~acquired
  BY <1>1, <1>2 DEF Holding
<1>5. /\ Head(outgoing) \in Filled /\ Tail(outgoing) \in Seq(Filled)
      /\ Len(Tail(outgoing)) = Len(outgoing) - 1 /\ Len(outgoing) > 0
      /\ BuffersOf(outgoing) = BuffersOf(Tail(outgoing)) \cup {Head(outgoing).buffer}
  BY <1>1, <1>2, Taking
<1>6. Types'
  <2>1. pc' \in InSource \cup {"out"}
    BY <1>3 DEF InSource
  <2> QED BY <1>1, <1>2, <1>5, <2>1 DEF Types
<1>7. OneHolder'
  <2>1. Len(incoming') + Len(outgoing') + 1 = BuffersCount
    <3>1. Len(incoming) \in Nat /\ Len(outgoing) \in Nat
      BY <1>1
    <3>2. Len(incoming) + Len(outgoing) = BuffersCount
      BY <1>1, <1>4, <3>1, SizesAssumption DEF OneHolder
    <3>3. Len(incoming') = Len(incoming) /\ Len(outgoing') = Len(outgoing) - 1
      BY <1>2, <1>5
    <3> QED BY <3>1, <3>2, <3>3
  <2>2. Numbers(incoming') \cup BuffersOf(outgoing') \cup {current'.buffer} = Buffers
    <3>1. Numbers(incoming) \cup BuffersOf(outgoing) = Buffers
      BY <1>1, <1>4 DEF OneHolder, Numbers, BuffersOf
    <3> QED BY <1>2, <1>5, <3>1
  <2>3. BuffersCount' = BuffersCount /\ Buffers' = Buffers
    BY DEF Buffers
  <2> QED BY <1>2, <2>1, <2>2, <2>3 DEF OneHolder, Numbers, BuffersOf
<1>8. Holding' /\ NoCheckFails'
  BY <1>1, <1>2, <1>3, <1>4 DEF Holding, NoCheckFails
<1>9. Stage'
  BY <1>1, <1>2, <1>3, ProgramRests DEF Resets
<1>10. Flowing'
  BY <1>1, <1>2, StreamRests
<1> QED BY <1>6, <1>7, <1>8, <1>9, <1>10 DEF IInv

LEMMA ReleaseBufferKeeps ==
  IInv /\ ReleaseBuffer /\ UNCHANGED <<queue, scannerVars, mainVars>> => IInv'
<1> SUFFICES ASSUME IInv, ReleaseBuffer, UNCHANGED <<queue, scannerVars, mainVars>> PROVE IInv'
  OBVIOUS
<1>1. /\ Types /\ Holding /\ Stage /\ Flowing /\ OneHolder /\ NoCheckFails
      /\ incoming \in Seq(Buffers) /\ outgoing \in Seq(Filled) /\ current \in Filled
  BY DEF IInv, Types
<1>2. /\ pc \in {"release", "reset discard"} /\ acquired' = FALSE
      /\ incoming' = Append(incoming, current.buffer)
      /\ checked' = (checked /\ (pc = "release" => acquired))
      /\ UNCHANGED <<tuned, filling, outgoing, streaming, current>>
  BY DEF ReleaseBuffer, AcquiredAfterRelease
<1>3. \/ pc = "reset discard" /\ pc' = "reset next"
      \/ pc = "release" /\ pc' \in {"acquire", "done"}
  BY DEF ReleaseBuffer
<1>4. streaming /\ acquired
  BY <1>1, <1>2 DEF Holding
<1>5. current.buffer \in Buffers
  BY <1>1 DEF Filled
<1>6. /\ incoming' \in Seq(Buffers) /\ Len(incoming') = Len(incoming) + 1
      /\ Numbers(incoming') = Numbers(incoming) \cup {current.buffer}
  <2> DEFINE b == current.buffer
  <2>1. b \in Buffers /\ incoming' = Append(incoming, b)
    BY <1>2, <1>5
  <2> HIDE DEF b
  <2>2. /\ Append(incoming, b) \in Seq(Buffers) /\ Len(Append(incoming, b)) = Len(incoming) + 1
        /\ Numbers(Append(incoming, b)) = Numbers(incoming) \cup {b}
    BY <1>1, <2>1, Appending
  <2>3. /\ incoming' \in Seq(Buffers) /\ Len(incoming') = Len(incoming) + 1
        /\ Numbers(incoming') = Numbers(incoming) \cup {b}
    BY <2>1, <2>2
  <2> QED BY <2>3 DEF b
<1>7. Types'
  <2>1. pc' \in InSource \cup {"out"}
    BY <1>3 DEF InSource
  <2> QED BY <1>1, <1>2, <1>6, <2>1 DEF Types
<1>8. OneHolder'
  <2>1. Len(incoming') + Len(outgoing') = BuffersCount
    <3>1. Len(incoming) \in Nat /\ Len(outgoing) \in Nat
      BY <1>1
    <3>2. Len(incoming) + Len(outgoing) + 1 = BuffersCount
      BY <1>1, <1>4 DEF OneHolder
    <3>3. Len(incoming') = Len(incoming) + 1 /\ Len(outgoing') = Len(outgoing)
      BY <1>2, <1>6
    <3> QED BY <3>1, <3>2, <3>3
  <2>2. Numbers(incoming') \cup BuffersOf(outgoing') = Buffers
    <3>1. Numbers(incoming) \cup BuffersOf(outgoing) \cup {current.buffer} = Buffers
      BY <1>1, <1>4 DEF OneHolder, Numbers, BuffersOf
    <3> QED BY <1>2, <1>6, <3>1
  <2>3. Len(incoming') \in Nat /\ Len(outgoing') \in Nat
    <3>1. Len(incoming) \in Nat /\ Len(outgoing) \in Nat
      BY <1>1
    <3>2. Len(incoming') = Len(incoming) + 1 /\ Len(outgoing') = Len(outgoing)
      BY <1>2, <1>6
    <3> QED BY <3>1, <3>2
  <2>4. Len(incoming') + Len(outgoing') + 0 = BuffersCount
    BY <2>1, <2>3
  <2>5. Numbers(incoming') \cup BuffersOf(outgoing') \cup {} = Buffers
    BY <2>2
  <2> QED BY <1>2, <2>4, <2>5 DEF OneHolder, Numbers, BuffersOf, Buffers
<1>9. Holding' /\ NoCheckFails'
  BY <1>1, <1>2, <1>3, <1>4 DEF Holding, NoCheckFails
<1>10. Stage'
  BY <1>1, <1>2, <1>3, ProgramRests DEF Resets
<1>11. Flowing'
  BY <1>1, <1>2, StreamRests
<1> QED BY <1>7, <1>8, <1>9, <1>10, <1>11 DEF IInv

(* All buffers are queued, and none is anywhere else.                      *)
LEMMA Started ==
  ASSUME Types, NoCheckFails, StartStreaming, ~streaming, ~acquired, outgoing = <<>>,
         UNCHANGED <<tuned, filling, outgoing, acquired, current>>,
         pc' \in {"out", "copy", "acquire"}
  PROVE  Types' /\ OneHolder' /\ streaming' = TRUE /\ checked' = checked
<1>1. /\ incoming' = [i \in 1..BuffersCount |-> i - 1]
      /\ streaming' = TRUE /\ checked' = (checked /\ ~streaming)
  BY DEF StartStreaming
<1>2. BuffersCount \in Nat /\ BuffersCount > 0
  BY SizesAssumption
<1>3. incoming' \in Seq(Buffers) /\ Len(incoming') = BuffersCount
  BY <1>1, <1>2 DEF Buffers
<1>4. Numbers(incoming') = Buffers
  <2>1. DOMAIN incoming' = 1..BuffersCount
    BY <1>1
  <2>2. ASSUME NEW b \in Buffers PROVE b \in Numbers(incoming')
    <3>1. b + 1 \in 1..BuffersCount /\ (b + 1) - 1 = b
      BY <1>2 DEF Buffers
    <3>2. incoming'[b + 1] = b
      BY <1>1, <3>1
    <3> QED BY <2>1, <3>1, <3>2 DEF Numbers
  <2>3. ASSUME NEW b \in Numbers(incoming') PROVE b \in Buffers
    <3>1. PICK i \in 1..BuffersCount : b = incoming'[i]
      BY <2>1 DEF Numbers
    <3> QED BY <1>1, <1>2, <3>1 DEF Buffers
  <2> QED BY <2>2, <2>3
<1>5. Types'
  <2>1. Buffers' = Buffers
    BY DEF Buffers
  <2> QED BY <1>1, <1>3, <2>1 DEF Types, InSource
<1>6. OneHolder'
  <2>1. Len(outgoing') = 0 /\ BuffersOf(outgoing') = {} /\ ~acquired'
    BY DEF BuffersOf
  <2> QED BY <1>1, <1>2, <1>3, <1>4, <2>1 DEF OneHolder, Numbers, BuffersOf
<1> QED BY <1>1, <1>5, <1>6 DEF NoCheckFails

LEMMA EnterProcessKeeps ==
  ASSUME IInv, state = "Running", NEW room, EnterProcess(room),
         UNCHANGED <<queue, scannerVars, mainVars>>
  PROVE  IInv'
<1>1. Types /\ Holding /\ Stage /\ Flowing /\ OneHolder /\ NoCheckFails
  BY DEF IInv
<1>2. /\ pc = "out" /\ pc' = (IF acquired THEN "copy" ELSE "acquire")
      /\ UNCHANGED <<tuned, filling, outgoing, acquired, current>>
  BY DEF EnterProcess
<1>3. main # "start"
  BY <1>1 DEF Stage
<1>4. Stage'
  BY <1>1, <1>2, ProgramRests DEF Resets
<1>5. CASE streaming
  <2>1. UNCHANGED <<incoming, streaming, checked>>
    BY <1>5 DEF EnterProcess
  <2>2. Types'
    BY <1>1, <1>2, <2>1 DEF Types, InSource
  <2>3. Holding' /\ NoCheckFails'
    BY <1>1, <1>2, <1>5, <2>1 DEF Holding, NoCheckFails
  <2>4. OneHolder'
    BY <1>1, <1>2, <2>1, BuffersRest
  <2>5. Flowing'
    BY <1>1, <2>1, StreamRests
  <2> QED BY <1>4, <2>2, <2>3, <2>4, <2>5 DEF IInv
<1>6. CASE ~streaming
  <2>1. StartStreaming
    BY <1>6 DEF EnterProcess
  <2>2. ~acquired /\ outgoing = <<>>
    BY <1>1, <1>6 DEF Holding
  <2>3. Types' /\ OneHolder' /\ streaming' /\ checked' = checked
    BY <1>1, <1>2, <1>6, <2>1, <2>2, Started
  <2>4. Holding' /\ NoCheckFails'
    BY <1>1, <1>2, <2>2, <2>3 DEF Holding, NoCheckFails
  <2>5. Flowing'
    BY <1>1, <1>3, <2>3, StreamRests
  <2> QED BY <1>4, <2>3, <2>4, <2>5 DEF IInv
<1> QED BY <1>5, <1>6

LEMMA CopyKeeps ==
  IInv /\ Copy /\ UNCHANGED <<queue, scannerVars, mainVars>> => IInv'
<1> SUFFICES ASSUME IInv, Copy, UNCHANGED <<queue, scannerVars, mainVars>> PROVE IInv'
  OBVIOUS
<1>1. Types /\ Holding /\ Stage /\ Flowing /\ OneHolder /\ NoCheckFails
  BY DEF IInv
<1>2. /\ pc = "copy" /\ pc' \in {"release", "done"}
      /\ UNCHANGED <<tuned, incoming, filling, outgoing, streaming, acquired, current, checked>>
  BY DEF Copy, driverVars
<1>3. Types'
  BY <1>1, <1>2 DEF Types, InSource
<1>4. Holding' /\ NoCheckFails'
  BY <1>1, <1>2 DEF Holding, NoCheckFails
<1>5. Stage'
  BY <1>1, <1>2, ProgramRests DEF Resets
<1> QED BY <1>1, <1>2, <1>3, <1>4, <1>5, BuffersRest, StreamRests DEF IInv

\* The time stamps change, the buffers do not.
LEMMA ReadClockKeeps ==
  IInv /\ ReadClock /\ UNCHANGED <<queue, scannerVars, mainVars>> => IInv'
<1> SUFFICES ASSUME IInv, ReadClock, UNCHANGED <<queue, scannerVars, mainVars>> PROVE IInv'
  OBVIOUS
<1>1. /\ Types /\ Holding /\ Stage /\ Flowing /\ OneHolder /\ NoCheckFails
      /\ outgoing \in Seq(Filled) /\ current \in Filled
  BY DEF IInv, Types
<1>2. /\ pc = "reset read" /\ pc' = "reset compare"
      /\ current' = [current EXCEPT !.before = TRUE]
      /\ outgoing' = [i \in DOMAIN outgoing |-> Stamped(outgoing[i])]
      /\ UNCHANGED <<tuned, incoming, filling, streaming, acquired, checked>>
  BY DEF ReadClock
<1>3. ASSUME NEW b \in Filled PROVE Stamped(b) \in Filled /\ Stamped(b).buffer = b.buffer
  BY DEF Filled, Stamped
<1>4. current' \in Filled /\ current'.buffer = current.buffer
  BY <1>1, <1>2, <1>3 DEF Stamped
<1>5. \A i \in DOMAIN outgoing : outgoing[i] \in Filled
  BY <1>1
<1>6. /\ outgoing' \in Seq(Filled) /\ Len(outgoing') = Len(outgoing)
      /\ DOMAIN outgoing' = DOMAIN outgoing
  <2>1. DOMAIN outgoing = 1..Len(outgoing) /\ Len(outgoing) \in Nat
    BY <1>1
  <2>2. \A i \in 1..Len(outgoing) : Stamped(outgoing[i]) \in Filled
    BY <1>3, <1>5, <2>1
  <2> DEFINE n == Len(outgoing)
             t == [i \in 1..n |-> Stamped(outgoing[i])]
  <2>3. n \in Nat /\ \A i \in 1..n : Stamped(outgoing[i]) \in Filled
    BY <2>1, <2>2
  <2>4. outgoing' = t
    BY <1>2, <2>1
  <2> HIDE DEF n
  <2>5. t \in Seq(Filled) /\ Len(t) = n /\ DOMAIN t = 1..n
    BY <2>3
  <2> QED BY <2>1, <2>4, <2>5 DEF n
<1>7. \A i \in DOMAIN outgoing : outgoing'[i].buffer = outgoing[i].buffer
  BY <1>2, <1>3, <1>5
<1>8. BuffersOf(outgoing') = BuffersOf(outgoing)
  BY <1>6, <1>7 DEF BuffersOf
<1>9. Types'
  BY <1>1, <1>2, <1>4, <1>6 DEF Types, InSource
<1>10. OneHolder'
  <2>1. streaming /\ acquired
    BY <1>1, <1>2 DEF Holding
  <2>2. Len(incoming') + Len(outgoing') + 1 = BuffersCount
    BY <1>1, <1>2, <1>6, <2>1 DEF OneHolder
  <2>3. Numbers(incoming') \cup BuffersOf(outgoing') \cup {current'.buffer} = Buffers
    BY <1>1, <1>2, <1>4, <1>8, <2>1 DEF OneHolder, Numbers, BuffersOf
  <2> QED BY <1>2, <2>1, <2>2, <2>3 DEF OneHolder, Numbers, BuffersOf, Buffers
<1>11. Holding' /\ NoCheckFails'
  <2>1. streaming
    BY <1>1, <1>2 DEF Holding
  <2> QED BY <1>1, <1>2, <2>1 DEF Holding, NoCheckFails
<1>12. Stage'
  BY <1>1, <1>2, ProgramRests DEF Resets
<1> QED BY <1>1, <1>2, <1>9, <1>10, <1>11, <1>12, StreamRests DEF IInv

LEMMA CompareKeeps ==
  IInv /\ Compare /\ UNCHANGED <<queue, scannerVars, mainVars>> => IInv'
<1> SUFFICES ASSUME IInv, Compare, UNCHANGED <<queue, scannerVars, mainVars>> PROVE IInv'
  OBVIOUS
<1>1. Types /\ Holding /\ Stage /\ Flowing /\ OneHolder /\ NoCheckFails
  BY DEF IInv
<1>2. /\ pc = "reset compare" /\ pc' \in {"reset discard", "out"}
      /\ UNCHANGED <<tuned, incoming, filling, outgoing, streaming, acquired, current, checked>>
  BY DEF Compare, driverVars
<1>3. Types'
  BY <1>1, <1>2 DEF Types, InSource
<1>4. Holding' /\ NoCheckFails'
  BY <1>1, <1>2 DEF Holding, NoCheckFails
<1>5. Stage'
  BY <1>1, <1>2, ProgramRests DEF Resets
<1> QED BY <1>1, <1>2, <1>3, <1>4, <1>5, BuffersRest, StreamRests DEF IInv

LEMMA LeaveProcessKeeps ==
  IInv /\ LeaveProcess /\ UNCHANGED <<scannerVars, mainVars>> => IInv'
<1> SUFFICES ASSUME IInv, LeaveProcess, UNCHANGED <<scannerVars, mainVars>> PROVE IInv'
  OBVIOUS
<1>1. Types /\ Holding /\ Stage /\ Flowing /\ OneHolder /\ NoCheckFails
  BY DEF IInv
<1>2. /\ pc = "done" /\ pc' = "out"
      /\ UNCHANGED <<tuned, incoming, filling, outgoing, streaming, acquired, current, checked>>
  BY DEF LeaveProcess, driverVars
<1>3. Types'
  BY <1>1, <1>2 DEF Types
<1>4. Holding' /\ NoCheckFails'
  BY <1>1, <1>2 DEF Holding, NoCheckFails
<1>5. Stage'
  BY <1>1, <1>2, ProgramRests DEF Resets
<1>6. Flowing'
  <2>1. streaming
    BY <1>1, <1>2 DEF Holding
  <2> QED BY <1>1, <1>2, <2>1 DEF Flowing, scannerVars, mainVars
<1> QED BY <1>1, <1>2, <1>3, <1>4, <1>5, <1>6, BuffersRest DEF IInv

LEMMA SourceKeeps == IInv /\ SourceWorks => IInv'
<1> SUFFICES ASSUME IInv, SourceWorks PROVE IInv'
  OBVIOUS
<1>1. CASE /\ state = "Running"
           /\ \E room \in 1..(Capacity - Len(queue)) : EnterProcess(room)
           /\ UNCHANGED <<queue, scannerVars, mainVars>>
  BY <1>1, EnterProcessKeeps
<1>2. CASE /\ AcquireBuffer \/ ReleaseBuffer \/ Copy \/ ReadClock \/ Compare
           /\ UNCHANGED <<queue, scannerVars, mainVars>>
  BY <1>2, AcquireBufferKeeps, ReleaseBufferKeeps, CopyKeeps, ReadClockKeeps, CompareKeeps
<1>3. CASE LeaveProcess /\ UNCHANGED <<scannerVars, mainVars>>
  BY <1>3, LeaveProcessKeeps
<1> QED BY <1>1, <1>2, <1>3 DEF SourceWorks

-----------------------------------------------------------------------------
(* A worker in the sink: there is nothing for it without a stream.         *)
LEMMA SinkKeeps == IInv /\ (ScannerEnters \/ ScannerWorks \/ Listen) => IInv'
<1> SUFFICES ASSUME IInv, ScannerEnters \/ ScannerWorks \/ Listen PROVE IInv'
  OBVIOUS
<1>1. Types /\ Holding /\ Stage /\ Flowing /\ OneHolder /\ NoCheckFails
  BY DEF IInv
<1>2. UNCHANGED <<driverVars, sourceVars, mainVars>>
  BY DEF ScannerEnters, ScannerWorks, Listen
<1>3. Types' /\ Holding' /\ OneHolder' /\ NoCheckFails'
  BY <1>2, SourceRests
<1>4. Stage'
  BY <1>1, <1>2 DEF Stage, mainVars, sourceVars
<1>5. Flowing'
  <2>1. streaming \/ main = "end"
    <3>1. CASE ScannerEnters \/ Listen
      <4>1. queue # <<>>
        <5>1. CASE Listen
          BY <5>1 DEF Listen
        <5>2. CASE ScannerEnters
          BY <5>2, ScannerAssumption DEF ScannerEnters, EnterScan
        <5> QED BY <3>1, <5>1, <5>2
      <4> QED BY <1>1, <4>1 DEF Flowing
    <3>2. CASE ScannerWorks
      <4>1. scanning # "out"
        BY <3>2 DEF ScannerWorks, Count, Add, LeaveScan
      <4> QED BY <1>1, <4>1 DEF Flowing
    <3> QED BY <3>1, <3>2
  <2>2. UNCHANGED <<streaming, main, program>>
    BY <1>2 DEF sourceVars, mainVars
  <2> QED BY <1>1, <2>1, <2>2 DEF Flowing
<1> QED BY <1>3, <1>4, <1>5 DEF IInv

-----------------------------------------------------------------------------
(* The thread of the program.                                              *)

\* The steps that touch neither the driver nor the source.
LEMMA ProgramAloneKeeps ==
  IInv /\ (Key \/ ScannerReset \/ ResetDone \/ Resume \/ Poll \/ Read \/ Joined \/ Select) => IInv'
<1> SUFFICES ASSUME IInv, Key \/ ScannerReset \/ ResetDone \/ Resume \/ Poll \/ Read \/ Joined \/ Select
             PROVE  IInv'
  OBVIOUS
<1>1. Types /\ Holding /\ Stage /\ Flowing /\ OneHolder /\ NoCheckFails
  BY DEF IInv
<1>2. UNCHANGED <<driverVars, sourceVars>>
  BY DEF Key, ScannerReset, ResetDone, Resume, Poll, Read, Joined, Select
<1>3. Types' /\ Holding' /\ OneHolder' /\ NoCheckFails'
  BY <1>2, SourceRests
<1>4. UNCHANGED <<streaming, pc>>
  BY <1>2 DEF sourceVars
<1>5. Stage' /\ Flowing'
  <2>1. CASE Key
    <3>1. /\ main = "keys" /\ main' \in {"pause", "stop"}
          /\ UNCHANGED <<program, state, queue, samples, scanning>>
      BY <2>1 DEF Key, Goto, scannerVars
    <3>2. streaming
      BY <1>1, <3>1 DEF Stage, Flowing
    <3> QED BY <1>1, <1>4, <3>1, <3>2 DEF Stage, Flowing, Places
  <2>2. CASE ScannerReset
    <3>1. /\ main = "reset scanner" /\ main' = "reset source" /\ UNCHANGED <<program, state, queue>>
          /\ samples' = 0 /\ scanning' = "out" /\ scanning = "out"
      BY <2>2 DEF ScannerReset, Goto, ResetScanner, Quiet
    <3> QED BY <1>1, <1>4, <3>1 DEF Stage, Flowing, Places
  <2>3. CASE ResetDone
    <3>1. /\ main = "resetting" /\ main' = "resume" /\ UNCHANGED <<program, state>>
          /\ queue' \in {queue, <<>>} /\ UNCHANGED <<samples, scanning>> /\ pc = "out"
      BY <2>3 DEF ResetDone, Goto, Quiet, scannerVars
    <3> QED BY <1>1, <1>4, <3>1 DEF Stage, Flowing, Places, Resets
  <2>4. CASE Resume
    <3>1. /\ main = "resume" /\ main' = (IF program = "search" THEN "poll" ELSE "keys")
          /\ state' = "Running" /\ UNCHANGED <<program, queue, samples, scanning>>
      BY <2>4 DEF Resume, scannerVars
    <3> QED BY <1>1, <1>4, <3>1 DEF Stage, Flowing, Places
  <2>5. CASE Poll
    <3>1. /\ main = "poll" /\ main' = "pause" /\ samples = Window
          /\ UNCHANGED <<program, state, queue, samples, scanning>>
      BY <2>5 DEF Poll, Goto, Ready, scannerVars
    <3>2. streaming
      BY <1>1, <3>1, ScannerAssumption DEF Flowing
    <3> QED BY <1>1, <1>4, <3>1, <3>2 DEF Stage, Flowing, Places
  <2>6. CASE Read
    <3>1. /\ main = "read" /\ main' \in {"tune", "stop"}
          /\ UNCHANGED <<program, state, queue, samples, scanning>>
      BY <2>6 DEF Read, Goto, scannerVars
    <3> QED BY <1>1, <1>4, <3>1 DEF Stage, Flowing, Places
  <2>7. CASE Joined
    <3>1. /\ main = "join" /\ main' \in {"select", "close"} /\ pc = "out"
          /\ UNCHANGED <<program, state, queue, samples, scanning>>
      BY <2>7 DEF Joined, Goto, Quiet, scannerVars
    <3> QED BY <1>1, <1>4, <3>1 DEF Stage, Flowing, Places
  <2>8. CASE Select
    <3>1. /\ main = "select" /\ main' = "close"
          /\ UNCHANGED <<program, state, queue, samples, scanning>>
      BY <2>8 DEF Select, scannerVars
    <3> QED BY <1>1, <1>4, <3>1 DEF Stage, Flowing, Places
  <2> QED BY <2>1, <2>2, <2>3, <2>4, <2>5, <2>6, <2>7, <2>8
<1> QED BY <1>3, <1>5 DEF IInv

LEMMA StartKeeps == IInv /\ Start => IInv'
<1> SUFFICES ASSUME IInv, Start PROVE IInv'
  OBVIOUS
<1>1. Types /\ Holding /\ Stage /\ Flowing /\ OneHolder /\ NoCheckFails
  BY DEF IInv
<1>2. /\ main = "start" /\ main' = "keys" /\ state' = "Running" /\ StartStreaming
      /\ UNCHANGED <<tuned, filling, outgoing, acquired, current, pc, program>>
  BY DEF Start
<1>3. ~streaming /\ program = "live"
  BY <1>1, <1>2 DEF Flowing
<1>4. ~acquired /\ outgoing = <<>> /\ pc = "out"
  BY <1>1, <1>3 DEF Holding, Types, InSource
<1>5. Types' /\ OneHolder' /\ streaming' = TRUE /\ checked' = checked
  BY <1>1, <1>2, <1>3, <1>4, Started
<1>6. Holding' /\ NoCheckFails'
  BY <1>1, <1>2, <1>4, <1>5 DEF Holding, NoCheckFails
<1>7. Stage' /\ Flowing'
  BY <1>1, <1>2, <1>3, <1>4, <1>5 DEF Stage, Flowing, Places, Resets
<1> QED BY <1>5, <1>6, <1>7 DEF IInv

LEMMA TuneKeeps == IInv /\ Tune => IInv'
<1> SUFFICES ASSUME IInv, Tune PROVE IInv'
  OBVIOUS
<1>1. Types /\ Holding /\ Stage /\ Flowing /\ OneHolder /\ NoCheckFails
  BY DEF IInv
<1>2. /\ main = "tune" /\ tuned' = tuned + 1
      /\ main' = (IF program = "search" THEN "reset scanner" ELSE "reset source")
      /\ UNCHANGED <<incoming, filling, outgoing, streaming, acquired, current, pc, checked,
                     queue, samples, scanning, program, state>>
  BY DEF Tune, SetCenterFrequency, Goto, sourceVars, scannerVars
<1>3. Types'
  <2>1. tuned' \in Nat
    <3>1. tuned \in Nat
      BY <1>1 DEF Types
    <3>2. tuned' = tuned + 1
      BY <1>2
    <3> QED BY <3>1, <3>2
  <2> QED BY <1>1, <1>2, <2>1 DEF Types
<1>4. Holding' /\ NoCheckFails'
  BY <1>1, <1>2 DEF Holding, NoCheckFails
<1>5. Stage' /\ Flowing'
  BY <1>1, <1>2 DEF Stage, Flowing, Places
<1> QED BY <1>1, <1>2, <1>3, <1>4, <1>5, BuffersRest DEF IInv

LEMMA SourceResetKeeps == IInv /\ SourceReset => IInv'
<1> SUFFICES ASSUME IInv, SourceReset PROVE IInv'
  OBVIOUS
<1>1. Types /\ Holding /\ Stage /\ Flowing /\ OneHolder /\ NoCheckFails
  BY DEF IInv
<1>2. /\ main = "reset source" /\ main' = "resetting" /\ pc = "out"
      /\ UNCHANGED <<tuned, incoming, filling, outgoing, streaming, acquired, current, checked,
                     queue, samples, scanning, program, state>>
  BY DEF SourceReset, EnterReset, Goto, driverVars, scannerVars
<1>3. \/ pc' = "out"
      \/ streaming /\ acquired /\ pc' = "reset read"
      \/ streaming /\ ~acquired /\ pc' = "reset first"
  BY DEF SourceReset, EnterReset, ResetStart
<1>4. Types'
  <2>1. pc' \in InSource \cup {"out"}
    BY <1>3 DEF InSource
  <2> QED BY <1>1, <1>2, <2>1 DEF Types
<1>5. Holding' /\ NoCheckFails'
  BY <1>1, <1>2, <1>3 DEF Holding, NoCheckFails
<1>6. Stage' /\ Flowing'
  BY <1>1, <1>2, <1>3 DEF Stage, Flowing, Places, Resets
<1> QED BY <1>1, <1>2, <1>4, <1>5, <1>6, BuffersRest DEF IInv

\* pause() and stop(), which are fatal in the wrong state.
LEMMA PauseAndStopKeep == IInv /\ (Pause \/ Stop) => IInv'
<1> SUFFICES ASSUME IInv, Pause \/ Stop PROVE IInv'
  OBVIOUS
<1>1. Types /\ Holding /\ Stage /\ Flowing /\ OneHolder /\ NoCheckFails
  BY DEF IInv
<1>2. UNCHANGED <<tuned, incoming, filling, outgoing, streaming, acquired, current, pc,
                  queue, samples, scanning, program>>
  BY DEF Pause, Stop, driverVars, scannerVars
<1>3. \/ /\ main = "pause" /\ main' = (IF program = "search" THEN "read" ELSE "tune")
         /\ state' = "Paused" /\ checked' = (checked /\ state = "Running")
      \/ /\ main = "stop" /\ main' = "join"
         /\ state' = "Stopped" /\ checked' = (checked /\ state \in {"Running", "Paused"})
  BY DEF Pause, Stop
<1>4. Types'
  BY <1>1, <1>2 DEF Types
<1>5. NoCheckFails'
  <2>1. /\ main = "pause" => state = "Running"
        /\ main = "stop" => state \in {"Running", "Paused"}
    BY <1>1 DEF Stage
  <2> QED BY <1>1, <1>3, <2>1 DEF NoCheckFails
<1>6. Holding'
  BY <1>1, <1>2 DEF Holding
<1>7. Stage' /\ Flowing'
  BY <1>1, <1>2, <1>3 DEF Stage, Flowing, Places, Resets
<1> QED BY <1>1, <1>2, <1>4, <1>5, <1>6, <1>7, BuffersRest DEF IInv

LEMMA ClosedKeeps == IInv /\ Closed => IInv'
<1> SUFFICES ASSUME IInv, Closed PROVE IInv'
  OBVIOUS
<1>1. Types /\ Holding /\ Stage /\ Flowing /\ OneHolder /\ NoCheckFails
  BY DEF IInv
<1>2. /\ main = "close" /\ main' = "end"
      /\ streaming' = FALSE /\ acquired' = FALSE /\ checked' = (checked /\ streaming)
      /\ incoming' = <<>> /\ filling' = <<>> /\ outgoing' = <<>>
      /\ UNCHANGED <<tuned, current, pc, program, state>>
  BY DEF Closed, Close, Goto
<1>3. pc = "out" /\ streaming
  BY <1>1, <1>2 DEF Stage, Flowing
<1>4. Types'
  <2>1. incoming' \in Seq(Buffers) /\ filling' \in Seq(Nat) /\ outgoing' \in Seq(Filled)
    BY <1>2
  <2> QED BY <1>1, <1>2, <2>1 DEF Types
<1>5. Holding' /\ NoCheckFails'
  BY <1>1, <1>2, <1>3 DEF Holding, NoCheckFails
<1>6. Stage' /\ Flowing'
  BY <1>1, <1>2, <1>3 DEF Stage, Flowing, Places, Resets
<1>7. OneHolder'
  BY <1>2 DEF OneHolder
<1> QED BY <1>4, <1>5, <1>6, <1>7 DEF IInv

-----------------------------------------------------------------------------
LEMMA NextKeeps == IInv /\ [Next]_vars => IInv'
<1> SUFFICES ASSUME IInv, [Next]_vars PROVE IInv'
  OBVIOUS
<1>1. CASE UNCHANGED vars
  <2>1. UNCHANGED <<driverVars, sourceVars, queue, scannerVars, mainVars>>
    BY <1>1 DEF vars, driverVars, sourceVars, scannerVars, mainVars
  <2>2. Types' /\ Holding' /\ OneHolder' /\ NoCheckFails'
    BY <2>1, SourceRests
  <2>3. Stage' /\ Flowing'
    BY <2>1 DEF IInv, Stage, Flowing, sourceVars, scannerVars, mainVars
  <2> QED BY <2>2, <2>3 DEF IInv
<1>2. CASE Program
  BY <1>2, StartKeeps, TuneKeeps, SourceResetKeeps, PauseAndStopKeep, ClosedKeeps, ProgramAloneKeeps
     DEF Program
<1> QED BY <1>1, <1>2, DriverKeeps, SourceKeeps, SinkKeeps, ProgramAloneKeeps DEF Next

\* The invariant that the properties below are parts of.
LEMMA Inductive == Spec => []IInv
<1> QED BY Initially, NextKeeps, PTL DEF Spec

\* No buffer is lost or held twice, in whatever order process() and reset() of
\* sdr_kernel_source.cpp take and give them back.
THEOREM OneHolderHolds == Spec => []OneHolder
<1>1. IInv => OneHolder
  BY DEF IInv
<1> QED BY <1>1, Inductive, PTL

\* The CHECKs of the source hold, and the pipeline is never paused, resumed or
\* stopped in a state in which that is fatal, by either program.
THEOREM NoCheckFailsHolds == Spec => []NoCheckFails
<1>1. IInv => NoCheckFails
  BY DEF IInv
<1> QED BY <1>1, Inductive, PTL

-----------------------------------------------------------------------------
(* The search: what is captured, what is read of it, and the peaks.        *)

\* Where process() is.
Processing == {"acquire", "copy", "release", "done"}

-----------------------------------------------------------------------------
(* What has been captured, by the driver and in the source.                *)
Captured ==
  /\ tuned \in Frequencies
  /\ filling \in Seq(Frequencies) /\ Len(filling) < BufferSize
  /\ \A j \in DOMAIN outgoing : outgoing[j].samples \in Seq(Frequencies)
  /\ current.samples \in Seq(Frequencies) /\ consumed \in 0..Len(current.samples)

(* The frequency is changed as long as it may be; the search reads levels  *)
(* once the window has been full, and nothing empties it before they are.  *)
Course ==
  /\ main \in {"poll", "read"} => program = "search"
  /\ main = "tune" \/ (main = "pause" /\ program = "live") => tuned < Changes
  /\ main \in {"pause", "read"} /\ program = "search" => samples = Window

(* A slice of the output is made where there is room for it.               *)
Room ==
  /\ queue \in Seq(Frequencies) /\ made \in Seq(Frequencies) /\ want \in Nat
  /\ Len(queue) <= Capacity
  /\ pc \in Processing => Len(made) <= want /\ Len(queue) + want <= Capacity
  /\ pc \notin Processing => made = <<>>

(* The scanner's place in its slice, and in the window.                    *)
Scanned ==
  /\ scanning \in {"out", "count", "add", "advance"}
  /\ block \in Nat /\ blocks \in Nat /\ rest \in 0..(Suggested - 1)
  /\ samples \in 0..Window /\ index \in 0..(Window - 1)
  /\ history \in [0..(Window - 1) -> Frequencies]
  /\ level \in [Frequencies -> Int]
  /\ scanning # "out" => program = "search" /\ blocks * FftSize <= Len(queue)
  /\ scanning \in {"count", "add"} => block + 1 < blocks
  /\ scanning = "add" => samples > 0

-----------------------------------------------------------------------------
LEMMA Slice ==
  ASSUME NEW S, NEW s \in Seq(S), NEW a \in 0..Len(s), NEW n \in 0..(Len(s) - a)
  PROVE  /\ SubSeq(s, a + 1, a + n) \in Seq(S) /\ Len(SubSeq(s, a + 1, a + n)) = n
         /\ DOMAIN SubSeq(s, a + 1, a + n) = 1..n
         /\ \A i \in 1..n : SubSeq(s, a + 1, a + n)[i] = s[a + i]
<1>1. Len(s) \in Nat /\ a \in Nat /\ n \in Nat /\ a + n <= Len(s)
  OBVIOUS
<1> DEFINE t == SubSeq(s, a + 1, a + n)
<1>2. t = [i \in 1..n |-> s[a + i]]
  OBVIOUS
<1>3. \A i \in 1..n : s[a + i] \in S
  OBVIOUS
<1> HIDE DEF t
<1>4. t \in Seq(S) /\ Len(t) = n /\ DOMAIN t = 1..n /\ \A i \in 1..n : t[i] = s[a + i]
  BY <1>1, <1>2, <1>3
<1> QED BY <1>4 DEF t

LEMMA Joining ==
  ASSUME NEW S, NEW s \in Seq(S), NEW t \in Seq(S)
  PROVE  s \o t \in Seq(S) /\ Len(s \o t) = Len(s) + Len(t)
OBVIOUS

LEMMA FrequenciesType == Frequencies \subseteq Nat /\ 0 \in Frequencies
BY ScannerAssumption DEF Frequencies

LEMMA Positions ==
  ASSUME NEW i \in 0..(Window - 1), NEW k \in 0..Window
  PROVE  (i - k) % Window = IF k <= i THEN i - k ELSE i - k + Window
<1>1. Window \in Nat /\ Window > 0
  BY ScannerAssumption
<1>2. CASE k <= i
  BY <1>1, <1>2
<1>3. CASE i < k
  BY <1>1, <1>3
<1> QED BY <1>2, <1>3

LEMMA FollowingPlace ==
  ASSUME NEW i \in 0..(Window - 1)
  PROVE  (i + 1) % Window = IF i + 1 < Window THEN i + 1 ELSE 0
<1>1. Window \in Nat /\ Window > 0
  BY ScannerAssumption
<1>2. CASE i + 1 < Window
  BY <1>1, <1>2
<1>3. CASE i + 1 = Window
  BY <1>1, <1>3
<1> QED BY <1>1, <1>2, <1>3

LEMMA Blocks ==
  ASSUME NEW size \in Nat
  PROVE  size \div FftSize \in Nat /\ (size \div FftSize) * FftSize <= size
BY ScannerAssumption

LEMMA BlockInSlice ==
  ASSUME NEW k \in Nat, NEW n \in Nat, k < n
  PROVE  /\ (k + 1) * FftSize <= n * FftSize /\ k * FftSize \in Nat
         /\ k * FftSize + 1 <= (k + 1) * FftSize
BY ScannerAssumption

-----------------------------------------------------------------------------
(* The steps that touch what has been captured, and the others.            *)
LEMMA CaptureSteps ==
  ASSUME Next
  PROVE  \/ Capture /\ UNCHANGED mainVars
         \/ AcquireBuffer /\ UNCHANGED mainVars
         \/ Copy /\ UNCHANGED mainVars
         \/ ReadClock /\ UNCHANGED mainVars
         \/ Tune \/ Closed
         \/ UNCHANGED <<tuned, filling, outgoing, current, consumed>>
<1> USE DEF driverVars, sourceVars, mainVars
<1>1. CASE Driver
  BY <1>1 DEF Driver
<1>2. CASE SourceWorks
  BY <1>2 DEF SourceWorks, EnterProcess, StartStreaming, ReleaseBuffer, Compare, LeaveProcess
<1>3. CASE ScannerEnters \/ ScannerWorks \/ Listen
  BY <1>3 DEF ScannerEnters, ScannerWorks, Listen
<1>4. CASE Key \/ Program
  BY <1>4 DEF Key, Program, Start, ScannerReset, SourceReset, EnterReset, ResetDone, Resume,
              Poll, Pause, Read, Stop, Joined, Select
<1> QED BY <1>1, <1>2, <1>3, <1>4 DEF Next

LEMMA CapturedKeeps ==
  ASSUME IInv, Captured, Room, Course, [Next]_vars
  PROVE  Captured'
<1>1. /\ filling \in Seq(Frequencies) /\ Len(filling) < BufferSize /\ tuned \in Frequencies
      /\ current.samples \in Seq(Frequencies) /\ consumed \in 0..Len(current.samples)
      /\ outgoing \in Seq(Filled) /\ incoming \in Seq(Buffers) /\ current \in Filled
      /\ \A j \in 1..Len(outgoing) : outgoing[j].samples \in Seq(Frequencies)
  BY DEF IInv, Types, Captured
<1>2. BufferSize \in Nat /\ BufferSize > 0 /\ Changes \in Nat /\ Changes > 0
  BY SizesAssumption, ScannerAssumption
<1>3. CASE Capture /\ UNCHANGED mainVars
  <2>1. UNCHANGED <<tuned, current, consumed>>
    BY <1>3 DEF Capture, sourceVars, mainVars
  <2> DEFINE s == Append(filling, tuned)
  <2>2. s \in Seq(Frequencies) /\ Len(s) = Len(filling) + 1
    BY <1>1
  <2>3. CASE Len(filling) + 1 < BufferSize
    <3>1. filling' = s /\ outgoing' = outgoing
      BY <1>3, <2>3 DEF Capture
    <3> QED BY <2>1, <2>2, <2>3, <3>1 DEF Captured, Frequencies
  <2>4. CASE ~(Len(filling) + 1 < BufferSize)
    <3> DEFINE b == [buffer |-> Head(incoming), samples |-> s, before |-> FALSE]
    <3>1. filling' = <<>> /\ outgoing' = Append(outgoing, b)
      BY <1>3, <2>4 DEF Capture
    <3>2. b.samples = s
      OBVIOUS
    <3> HIDE DEF b, s
    <3>3. DOMAIN outgoing' = 1..(Len(outgoing) + 1) /\ outgoing'[Len(outgoing) + 1] = b
          /\ \A j \in 1..Len(outgoing) : outgoing'[j] = outgoing[j]
      BY <1>1, <3>1
    <3>4. ASSUME NEW j \in DOMAIN outgoing' PROVE outgoing'[j].samples \in Seq(Frequencies)
      <4>1. Len(outgoing) \in Nat
        BY <1>1
      <4>2. j = Len(outgoing) + 1 \/ j \in 1..Len(outgoing)
        BY <3>3, <4>1
      <4> QED BY <1>1, <2>2, <3>2, <3>3, <4>2
    <3>5. filling' \in Seq(Frequencies) /\ Len(filling') < BufferSize
      BY <1>2, <3>1
    <3> QED BY <2>1, <3>4, <3>5 DEF Captured, Frequencies
  <2> QED BY <2>3, <2>4
<1>4. CASE AcquireBuffer /\ UNCHANGED mainVars
  <2>1. /\ outgoing # <<>> /\ current' = Head(outgoing) /\ outgoing' = Tail(outgoing) /\ consumed' = 0
        /\ UNCHANGED <<tuned, filling>>
    BY <1>4 DEF AcquireBuffer, mainVars
  <2>2. Len(outgoing) \in Nat /\ Len(outgoing) > 0
    BY <1>1, <2>1
  <2>3. Head(outgoing) = outgoing[1] /\ DOMAIN Tail(outgoing) = 1..(Len(outgoing) - 1)
        /\ \A j \in 1..(Len(outgoing) - 1) : Tail(outgoing)[j] = outgoing[j + 1]
    BY <1>1, <2>2
  <2>4. current'.samples \in Seq(Frequencies) /\ consumed' \in 0..Len(current'.samples)
    <3>1. current'.samples \in Seq(Frequencies)
      BY <1>1, <2>1, <2>2, <2>3
    <3> QED BY <2>1, <3>1
  <2>5. ASSUME NEW j \in DOMAIN outgoing' PROVE outgoing'[j].samples \in Seq(Frequencies)
    <3>1. j \in 1..(Len(outgoing) - 1) /\ j + 1 \in 1..Len(outgoing)
      BY <2>1, <2>2, <2>3
    <3> QED BY <1>1, <2>1, <2>3, <3>1
  <2> QED BY <2>1, <2>4, <2>5 DEF Captured, Frequencies
<1>5. CASE Copy /\ UNCHANGED mainVars
  <2>1. UNCHANGED <<tuned, filling, outgoing, current>>
    BY <1>5 DEF Copy, driverVars, mainVars
  <2>2. consumed' \in 0..Len(current.samples)
    <3> DEFINE left == Len(current.samples) - consumed
               n == IF left < want - Len(made) THEN left ELSE want - Len(made)
    <3>1. consumed' = consumed + n
      BY <1>5 DEF Copy
    <3>2. Len(current.samples) \in Nat /\ Len(made) \in Nat /\ want \in Nat /\ Len(made) <= want
      BY <1>1, <1>5 DEF Room, Copy, Processing
    <3>3. left \in Nat /\ n \in 0..left
      BY <1>1, <3>2
    <3>4. consumed \in Nat /\ consumed + left = Len(current.samples)
      BY <1>1, <3>2
    <3> HIDE DEF left, n
    <3> QED BY <3>1, <3>2, <3>3, <3>4
  <2> QED BY <2>1, <2>2 DEF Captured, Frequencies
<1>6. CASE ReadClock /\ UNCHANGED mainVars
  <2>1. /\ current' = [current EXCEPT !.before = TRUE]
        /\ outgoing' = [i \in DOMAIN outgoing |-> Stamped(outgoing[i])]
        /\ UNCHANGED <<tuned, filling, consumed>>
    BY <1>6 DEF ReadClock, mainVars
  <2>2. \A b \in Filled : Stamped(b).samples = b.samples
    BY DEF Stamped, Filled
  <2>3. current'.samples = current.samples
    BY <1>1, <2>1, <2>2 DEF Stamped
  <2>4. \A j \in 1..Len(outgoing) : outgoing[j] \in Filled
    BY <1>1
  <2>5. ASSUME NEW j \in DOMAIN outgoing' PROVE outgoing'[j].samples \in Seq(Frequencies)
    <3>1. j \in 1..Len(outgoing)
      BY <1>1, <2>1
    <3> QED BY <1>1, <2>1, <2>2, <2>4, <3>1
  <2> QED BY <1>1, <2>1, <2>3, <2>5 DEF Captured, Frequencies
<1>7. CASE Tune
  <2>1. /\ main = "tune" /\ tuned' = tuned + 1 /\ main' \in {"reset scanner", "reset source"}
        /\ UNCHANGED <<filling, outgoing, current, consumed>>
    BY <1>7 DEF Tune, SetCenterFrequency, Goto, sourceVars
  <2>2. tuned' \in Frequencies
    <3>1. tuned < Changes
      BY <2>1 DEF Course
    <3>2. tuned \in 0..Changes
      BY <1>1 DEF Frequencies
    <3>3. tuned' = tuned + 1 /\ Changes \in Nat
      BY <1>2, <2>1
    <3>4. tuned + 1 \in 0..Changes
      BY <3>1, <3>2, <3>3
    <3> QED BY <3>3, <3>4 DEF Frequencies
  <2> QED BY <2>1, <2>2 DEF Captured, Frequencies
<1>8. CASE Closed
  <2>1. /\ filling' = <<>> /\ outgoing' = <<>> /\ main' = "end"
        /\ UNCHANGED <<tuned, current, consumed>>
    BY <1>8 DEF Closed, Close, Goto
  <2>2. filling' \in Seq(Frequencies) /\ Len(filling') < BufferSize /\ DOMAIN outgoing' = {}
    BY <1>2, <2>1
  <2> QED BY <1>1, <2>1, <2>2 DEF Captured, Frequencies
<1>9. CASE UNCHANGED <<tuned, filling, outgoing, current, consumed>>
  BY <1>9 DEF Captured, Frequencies
<1>10. CASE UNCHANGED vars
  BY <1>10 DEF vars, driverVars, sourceVars, mainVars, Captured, Frequencies
<1> QED BY <1>3, <1>4, <1>5, <1>6, <1>7, <1>8, <1>9, <1>10, CaptureSteps

LEMMA CourseKeeps ==
  ASSUME IInv, Captured, Course, [Next]_vars
  PROVE  Course'
<1>1. CASE Driver
  BY <1>1 DEF Driver, Capture, Course, mainVars, scannerVars
<1>2. CASE SourceWorks
  <2>1. UNCHANGED <<tuned, main, program, samples>>
    BY <1>2 DEF SourceWorks, EnterProcess, AcquireBuffer, ReleaseBuffer, Copy, ReadClock, Compare,
                LeaveProcess, driverVars, mainVars, scannerVars
  <2> QED BY <2>1 DEF Course
<1>3. CASE ScannerEnters \/ ScannerWorks \/ Listen
  <2>1. UNCHANGED <<tuned, main, program>>
    BY <1>3 DEF ScannerEnters, ScannerWorks, Listen, driverVars, mainVars
  <2>2. samples = Window => samples' = samples
    BY <1>3 DEF ScannerEnters, ScannerWorks, Listen, EnterScan, Count, Add, LeaveScan, scannerVars
  <2> QED BY <2>1, <2>2 DEF Course
<1>4. CASE Key \/ Read \/ Pause \/ Resume \/ Poll
  <2>1. UNCHANGED <<tuned, program, samples>>
    BY <1>4 DEF Key, Read, Pause, Resume, Poll, Goto, driverVars, scannerVars
  <2>2. CASE Key \/ Read
    <3>1. /\ main \in {"keys", "read"} /\ main' \in {"pause", "tune", "stop"}
          /\ main' \in {"pause", "tune"} => tuned < Changes
          /\ main = "keys" <=> main' = "pause" \/ (main = "keys" /\ main' = "stop")
      BY <2>2 DEF Key, Read, Goto
    <3>2. main = "keys" => program = "live"
      BY DEF IInv, Flowing
    <3> QED BY <2>1, <3>1, <3>2 DEF Course
  <2>3. CASE Pause
    <3>1. main = "pause" /\ main' = (IF program = "search" THEN "read" ELSE "tune")
      BY <2>3 DEF Pause
    <3>2. program \in {"search", "live"}
      BY DEF IInv, Stage
    <3> QED BY <2>1, <3>1, <3>2 DEF Course
  <2>4. CASE Resume
    <3>1. main' = (IF program = "search" THEN "poll" ELSE "keys")
      BY <2>4 DEF Resume
    <3> QED BY <2>1, <3>1 DEF Course
  <2>5. CASE Poll
    <3>1. main = "poll" /\ main' = "pause" /\ samples = Window
      BY <2>5 DEF Poll, Ready, Goto
    <3> QED BY <2>1, <3>1 DEF Course
  <2> QED BY <1>4, <2>2, <2>3, <2>4, <2>5
<1>5. CASE Start \/ Tune \/ ScannerReset \/ SourceReset \/ ResetDone \/ Stop \/ Joined \/ Select \/ Closed
  <2>1. main' \in {"keys", "reset scanner", "reset source", "resetting", "resume", "join",
                   "select", "close", "end"}
    BY <1>5 DEF Start, Tune, ScannerReset, SourceReset, ResetDone, Stop, Joined, Select, Closed, Goto
  <2> QED BY <2>1 DEF Course
<1>6. CASE UNCHANGED vars
  BY <1>6 DEF vars, driverVars, scannerVars, mainVars, Course
<1> QED BY <1>1, <1>2, <1>3, <1>4, <1>5, <1>6 DEF Next, Program

-----------------------------------------------------------------------------
(* The end of a sequence.                                                  *)
LEMMA Ending ==
  ASSUME NEW S, NEW s \in Seq(S), NEW a \in 0..Len(s)
  PROVE  /\ SubSeq(s, a + 1, Len(s)) \in Seq(S) /\ Len(SubSeq(s, a + 1, Len(s))) = Len(s) - a
<1> DEFINE t == SubSeq(s, a + 1, Len(s))
           n == Len(s) - a
<1>1. n \in Nat /\ n = Len(s) - a /\ a \in Nat /\ a + n = Len(s)
  OBVIOUS
<1>2. t = [i \in 1..n |-> s[a + i]] /\ \A i \in 1..n : s[a + i] \in S
  OBVIOUS
<1> HIDE DEF n, t
<1>3. t \in Seq(S) /\ Len(t) = n
  BY <1>1, <1>2
<1> QED BY <1>1, <1>3 DEF n, t

LEMMA RoomRests ==
  ASSUME Room, UNCHANGED <<made, want>>, pc' \in Processing <=> pc \in Processing,
         queue' \in Seq(Frequencies), Len(queue') <= Len(queue)
  PROVE  Room'
<1>1. Len(queue) \in Nat /\ Len(queue') \in Nat /\ Len(queue) <= Capacity /\ Capacity \in Nat
  BY ScannerAssumption DEF Room
<1>2. Len(queue') <= Capacity
  BY <1>1
<1>3. pc' \in Processing => Len(made') <= want' /\ Len(queue') + want' <= Capacity
  BY <1>1 DEF Room
<1> QED BY <1>2, <1>3 DEF Room, Frequencies, Processing

(* What the steps do to the queue, and to what is being made for it.       *)
LEMMA RoomSteps ==
  ASSUME IInv, Room, Next
  PROVE  \/ \E room \in 1..(Capacity - Len(queue)) : EnterProcess(room) /\ UNCHANGED queue
         \/ Copy /\ UNCHANGED queue
         \/ LeaveProcess /\ queue' = queue \o made
         \/ LeaveScan /\ UNCHANGED <<made, want, pc>>
         \/ Listen /\ UNCHANGED <<made, want, pc>>
         \/ /\ UNCHANGED <<made, want>>
            /\ pc' \in Processing <=> pc \in Processing
            /\ queue' \in {queue, <<>>}
<1>1. CASE Driver
  BY <1>1 DEF Driver, Capture, sourceVars
<1>2. CASE SourceWorks
  <2>1. CASE AcquireBuffer \/ ReleaseBuffer \/ ReadClock \/ Compare
    <3>1. UNCHANGED <<made, want>> /\ (pc' \in Processing <=> pc \in Processing)
      BY <2>1 DEF AcquireBuffer, ReleaseBuffer, ReadClock, Compare, Processing
    <3>2. UNCHANGED queue
      BY <1>2, <2>1 DEF SourceWorks, LeaveProcess, AcquireBuffer, ReleaseBuffer, ReadClock, Compare
    <3> QED BY <3>1, <3>2
  <2> QED BY <1>2, <2>1 DEF SourceWorks
<1>3. CASE ScannerEnters \/ ScannerWorks \/ Listen
  BY <1>3 DEF ScannerEnters, ScannerWorks, Listen, sourceVars
<1>4. CASE Key \/ Program
  <2>1. CASE SourceReset
    <3>1. UNCHANGED <<made, want, queue>> /\ pc = "out" /\ pc' \in {"out", "reset first", "reset read"}
      BY <2>1 DEF SourceReset, EnterReset, ResetStart
    <3> QED BY <3>1 DEF Processing
  <2>2. CASE ResetDone
    BY <2>2 DEF ResetDone, sourceVars
  <2> QED BY <1>4, <2>1, <2>2 DEF Key, Program, Start, Tune, SetCenterFrequency, ScannerReset, Resume,
             Poll, Pause, Read, Stop, Joined, Select, Closed, Close, sourceVars
<1> QED BY <1>1, <1>2, <1>3, <1>4 DEF Next

LEMMA RoomKeeps ==
  ASSUME IInv, Captured, Room, Scanned, [Next]_vars
  PROVE  Room'
<1>1. /\ queue \in Seq(Frequencies) /\ made \in Seq(Frequencies) /\ want \in Nat
      /\ Len(queue) \in Nat /\ Len(queue) <= Capacity /\ Capacity \in Nat
      /\ Suggested \in Nat /\ Len(made) \in Nat
  BY ScannerAssumption, SizesAssumption DEF Room
<1>2. ASSUME NEW room \in 1..(Capacity - Len(queue)), EnterProcess(room), UNCHANGED queue
      PROVE  Room'
  <2>1. /\ want' = (IF room < Suggested THEN room ELSE Suggested) /\ made' = <<>>
        /\ pc' \in {"copy", "acquire"}
    BY <1>2 DEF EnterProcess
  <2>2. want' \in Nat /\ Len(queue) + want' <= Capacity
    BY <1>1, <2>1
  <2>3. made' \in Seq(Frequencies) /\ Len(made') = 0
    BY <2>1
  <2> QED BY <1>1, <1>2, <2>1, <2>2, <2>3 DEF Room, Processing, Frequencies
<1>3. CASE Copy /\ UNCHANGED queue
  <2> DEFINE left == Len(current.samples) - consumed
             n == IF left < want - Len(made) THEN left ELSE want - Len(made)
             copied == SubSeq(current.samples, consumed + 1, consumed + n)
  <2>1. /\ pc = "copy" /\ made' = made \o copied /\ pc' \in {"release", "done"} /\ UNCHANGED want
    BY <1>3 DEF Copy
  <2>2. Len(made) <= want /\ Len(queue) + want <= Capacity
    BY <2>1 DEF Room, Processing
  <2>3. current.samples \in Seq(Frequencies) /\ consumed \in 0..Len(current.samples)
    BY DEF Captured
  <2>4. n \in 0..left /\ n <= want - Len(made) /\ n \in Nat
    BY <1>1, <2>2, <2>3
  <2> HIDE DEF n
  <2>5. copied \in Seq(Frequencies) /\ Len(copied) = n
    BY <2>3, <2>4, Slice
  <2> HIDE DEF copied
  <2>6. made' \in Seq(Frequencies) /\ Len(made') = Len(made) + n
    BY <1>1, <2>1, <2>5, Joining
  <2>7. Len(made') <= want'
    BY <1>1, <2>1, <2>4, <2>6
  <2> QED BY <1>1, <1>3, <2>1, <2>2, <2>6, <2>7 DEF Room, Processing, Frequencies
<1>4. CASE LeaveProcess /\ queue' = queue \o made
  <2>1. pc = "done" /\ pc' = "out" /\ made' = <<>> /\ UNCHANGED want
    BY <1>4 DEF LeaveProcess
  <2>2. Len(made) <= want /\ Len(queue) + want <= Capacity
    BY <2>1 DEF Room, Processing
  <2>3. queue' \in Seq(Frequencies) /\ Len(queue') = Len(queue) + Len(made)
    BY <1>1, <1>4, Joining
  <2>4. Len(queue') <= Capacity
    BY <1>1, <2>2, <2>3
  <2>5. made' \in Seq(Frequencies)
    BY <2>1
  <2> QED BY <1>1, <2>1, <2>3, <2>4, <2>5 DEF Room, Processing, Frequencies
<1>5. CASE LeaveScan /\ UNCHANGED <<made, want, pc>>
  <2>1. /\ queue' = SubSeq(queue, blocks * FftSize + 1, Len(queue))
        /\ blocks * FftSize <= Len(queue) /\ blocks \in Nat
    BY <1>5 DEF LeaveScan, Scanned
  <2>2. blocks * FftSize \in 0..Len(queue)
    BY <1>1, <2>1, ScannerAssumption
  <2>3. queue' \in Seq(Frequencies) /\ Len(queue') = Len(queue) - blocks * FftSize
    BY <1>1, <2>1, <2>2, Ending
  <2>4. Len(queue') <= Len(queue)
    BY <1>1, <2>2, <2>3
  <2> QED BY <1>5, <2>3, <2>4, RoomRests
<1>6. CASE Listen /\ UNCHANGED <<made, want, pc>>
  <2>1. PICK n \in 1..Len(queue) : queue' = SubSeq(queue, n + 1, Len(queue))
    BY <1>6 DEF Listen
  <2>2. n \in 0..Len(queue)
    BY <1>1
  <2>3. queue' \in Seq(Frequencies) /\ Len(queue') = Len(queue) - n
    BY <1>1, <2>1, <2>2, Ending
  <2>4. Len(queue') <= Len(queue)
    BY <1>1, <2>2, <2>3
  <2> QED BY <1>6, <2>3, <2>4, RoomRests
<1>7. CASE /\ UNCHANGED <<made, want>>
           /\ pc' \in Processing <=> pc \in Processing
           /\ queue' \in {queue, <<>>}
  <2>1. queue' \in Seq(Frequencies) /\ Len(queue') <= Len(queue)
    <3>1. <<>> \in Seq(Frequencies) /\ Len(<<>>) = 0
      OBVIOUS
    <3>2. CASE queue' = queue
      BY <1>1, <3>2
    <3>3. CASE queue' = <<>>
      <4>1. Len(queue') = 0 /\ queue' \in Seq(Frequencies)
        BY <3>1, <3>3
      <4> QED BY <1>1, <4>1
    <3> QED BY <1>7, <3>2, <3>3
  <2> QED BY <1>7, <2>1, RoomRests
<1>8. CASE UNCHANGED vars
  BY <1>8 DEF vars, sourceVars, Room, Processing, Frequencies
<1> QED BY <1>2, <1>3, <1>4, <1>5, <1>6, <1>7, <1>8, RoomSteps

-----------------------------------------------------------------------------
(* What the steps do to the scanner, and to what it is reading.            *)
LEMMA ScanSteps ==
  ASSUME IInv, Room, Scanned, Next
  PROVE  \/ /\ program = "search"
            /\ \E size \in Nat : size <= Len(queue) /\ EnterScan(size)
            /\ UNCHANGED <<program, queue>>
         \/ Count /\ UNCHANGED <<program, queue>>
         \/ Add /\ UNCHANGED <<program, queue>>
         \/ LeaveScan /\ UNCHANGED program
         \/ ResetScanner /\ scanning = "out" /\ UNCHANGED program
         \/ /\ UNCHANGED <<scannerVars, program>>
            /\ scanning = "out" \/ Len(queue') >= Len(queue)
<1>1. /\ queue \in Seq(Frequencies) /\ Len(queue) \in Nat
      /\ made \in Seq(Frequencies) /\ Len(made) \in Nat
      /\ program = "live" => scanning = "out"
  BY DEF Room, Scanned
<1>2. CASE Driver
  BY <1>1, <1>2 DEF Driver, mainVars
<1>3. CASE SourceWorks
  <2>1. UNCHANGED <<scannerVars, program>> /\ queue' \in {queue, queue \o made}
    BY <1>3 DEF SourceWorks, mainVars
  <2>2. Len(queue \o made) >= Len(queue)
    BY <1>1, Joining
  <2> QED BY <1>1, <2>1, <2>2
<1>4. CASE ScannerEnters
  <2>1. PICK size \in {Len(queue)} \cup 1..rest : size <= Len(queue) /\ EnterScan(size)
    BY <1>4 DEF ScannerEnters
  <2>2. size \in Nat
    BY <1>1, <2>1
  <2> QED BY <1>4, <2>1, <2>2 DEF ScannerEnters, mainVars
<1>5. CASE ScannerWorks
  BY <1>5 DEF ScannerWorks, mainVars
<1>6. CASE Listen
  BY <1>1, <1>6 DEF Listen, mainVars
<1>7. CASE Key \/ Program
  <2>1. CASE ResetDone
    BY <2>1 DEF ResetDone, Goto, Quiet
  <2>2. CASE ScannerReset
    BY <2>2 DEF ScannerReset, Goto, Quiet
  <2>3. CASE Key \/ Start \/ Tune \/ SourceReset \/ Resume \/ Poll \/ Pause \/ Read \/ Stop \/ Joined
             \/ Select \/ Closed
    <3>1. UNCHANGED <<queue, scannerVars, program>>
      BY <2>3 DEF Key, Start, Tune, SourceReset, Resume, Poll, Pause, Read, Stop, Joined, Select,
                  Closed, Goto
    <3> QED BY <1>1, <3>1
  <2> QED BY <1>7, <2>1, <2>2, <2>3 DEF Program
<1> QED BY <1>2, <1>3, <1>4, <1>5, <1>6, <1>7 DEF Next

LEMMA OldestType ==
  ASSUME queue \in Seq(Frequencies), NEW k \in Nat, (k + 1) * FftSize <= Len(queue)
  PROVE  Oldest(k) \in Frequencies
<1> DEFINE part == {queue[i] : i \in (k * FftSize + 1)..((k + 1) * FftSize)}
<1>1. /\ k * FftSize \in Nat /\ k * FftSize + 1 <= (k + 1) * FftSize /\ (k + 1) * FftSize \in Nat
      /\ Len(queue) \in Nat
  BY ScannerAssumption
<1>2. part \subseteq Frequencies /\ part # {}
  <2> DEFINE a == k * FftSize
             b == (k + 1) * FftSize
  <2>1. a \in Nat /\ b \in Nat /\ a + 1 <= b /\ b <= Len(queue)
    BY <1>1
  <2> HIDE DEF a, b
  <2>2. \A i \in (a + 1)..b : queue[i] \in Frequencies
    BY <1>1, <2>1
  <2>3. b \in (a + 1)..b
    BY <2>1
  <2>4. /\ {queue[i] : i \in (a + 1)..b} \subseteq Frequencies
        /\ {queue[i] : i \in (a + 1)..b} # {}
    BY <2>2, <2>3
  <2> QED BY <2>4 DEF a, b
<1>3. Oldest(k) = CHOOSE f \in part : \A g \in part : f <= g
  BY DEF Oldest
<1> HIDE DEF part
<1>4. \E f \in part : \A g \in part : f <= g
  BY <1>2, FrequenciesType, LeastMember
<1> QED BY <1>2, <1>3, <1>4

LEMMA Updating ==
  ASSUME NEW D, NEW S, NEW f \in [D -> S], NEW d \in D, NEW v \in S
  PROVE  /\ [f EXCEPT ![d] = v] \in [D -> S]
         /\ [f EXCEPT ![d] = v][d] = v
         /\ \A e \in D \ {d} : [f EXCEPT ![d] = v][e] = f[e]
OBVIOUS

LEMMA ScannedKeeps ==
  ASSUME IInv, Room, Room', Scanned, [Next]_vars
  PROVE  Scanned'
<1>1. /\ block \in Nat /\ blocks \in Nat /\ rest \in 0..(Suggested - 1)
      /\ samples \in 0..Window /\ index \in 0..(Window - 1)
      /\ history \in [0..(Window - 1) -> Frequencies] /\ level \in [Frequencies -> Int]
      /\ queue \in Seq(Frequencies) /\ Len(queue) \in Nat
  BY DEF Scanned, Room
<1>2. /\ FftSize \in Nat /\ FftSize > 0 /\ Window \in Nat /\ Window > 0
      /\ Suggested \in Nat /\ Suggested > 0
  BY ScannerAssumption, SizesAssumption
<1>3. Frequencies' = Frequencies
  BY DEF Frequencies
<1>4. ASSUME program = "search", NEW size \in Nat, size <= Len(queue), EnterScan(size),
             UNCHANGED <<program, queue>>
      PROVE  Scanned'
  <2>1. /\ size >= FftSize /\ (size >= Suggested \/ size <= rest)
        /\ rest' = (IF size >= Suggested THEN Suggested - 1 ELSE rest - size)
        /\ blocks' = size \div FftSize /\ block' = 0
        /\ scanning' = (IF size \div FftSize > 1 THEN "count" ELSE "advance")
        /\ UNCHANGED <<samples, level, history, index>>
    BY <1>4 DEF EnterScan
  <2>2. size \div FftSize \in Nat /\ (size \div FftSize) * FftSize <= size
    BY Blocks
  <2>3. (size \div FftSize) * FftSize <= Len(queue)
    <3>1. (size \div FftSize) * FftSize \in Nat
      BY <1>2, <2>2
    <3> QED BY <1>1, <1>4, <2>2, <3>1
  <2>4. rest' \in 0..(Suggested - 1)
    BY <1>1, <1>2, <2>1
  <2>5. scanning' \in {"count", "advance"} /\ (scanning' = "count" => block' + 1 < blocks')
    BY <2>1, <2>2
  <2>6. blocks' * FftSize <= Len(queue') /\ blocks' \in Nat /\ block' \in Nat
    BY <1>4, <2>1, <2>2, <2>3
  <2> QED BY <1>1, <1>3, <1>4, <2>1, <2>4, <2>5, <2>6 DEF Scanned
<1>5. CASE Count /\ UNCHANGED <<program, queue>>
  <2>1. /\ scanning = "count" /\ scanning' = "add"
        /\ UNCHANGED <<history, index, block, blocks, rest>>
    BY <1>5 DEF Count
  <2>2. CASE samples = Window
    <3>1. level' = [level EXCEPT ![history[index]] = @ - 1] /\ samples' = samples
      BY <1>5, <2>2 DEF Count
    <3>2. history[index] \in Frequencies
      BY <1>1
    <3>3. level[history[index]] - 1 \in Int
      BY <1>1, <3>2
    <3>4. level' \in [Frequencies -> Int]
      BY <1>1, <3>1, <3>2, <3>3, Updating
    <3> QED BY <1>1, <1>2, <1>3, <1>5, <2>1, <2>2, <3>1, <3>4 DEF Scanned
  <2>3. CASE samples # Window
    <3>1. level' = level /\ samples' = samples + 1
      BY <1>5, <2>3 DEF Count
    <3>2. samples' \in 0..Window /\ samples' > 0
      BY <1>1, <1>2, <2>3, <3>1
    <3> QED BY <1>1, <1>3, <1>5, <2>1, <3>1, <3>2 DEF Scanned
  <2> QED BY <2>2, <2>3
<1>6. CASE Add /\ UNCHANGED <<program, queue>>
  <2> DEFINE o == Oldest(block)
  <2>1. /\ scanning = "add" /\ block + 1 < blocks /\ blocks * FftSize <= Len(queue)
        /\ program = "search"
    BY <1>6 DEF Add, Scanned
  <2>2. o \in Frequencies
    <3>1. (block + 1) * FftSize <= blocks * FftSize /\ (block + 1) * FftSize \in Nat
      <4>1. block < blocks
        BY <1>1, <2>1
      <4>2. (block + 1) * FftSize <= blocks * FftSize
        BY <1>1, <4>1, BlockInSlice
      <4> QED BY <1>1, <1>2, <4>2
    <3>2. (block + 1) * FftSize <= Len(queue)
      <4>1. blocks * FftSize \in Nat
        BY <1>1, <1>2
      <4> QED BY <1>1, <2>1, <3>1, <4>1
    <3> QED BY <1>1, <3>2, OldestType
  <2>3. /\ history' = [history EXCEPT ![index] = o]
        /\ level' = [level EXCEPT ![o] = @ + 1]
        /\ index' = (index + 1) % Window /\ block' = block + 1
        /\ scanning' = (IF block + 2 < blocks THEN "count" ELSE "advance")
        /\ UNCHANGED <<samples, blocks, rest>>
    BY <1>6 DEF Add, Following
  <2> HIDE DEF o
  <2>4. history' \in [0..(Window - 1) -> Frequencies]
    BY <1>1, <2>2, <2>3, Updating
  <2>5. level' \in [Frequencies -> Int]
    <3>1. level[o] + 1 \in Int
      BY <1>1, <2>2
    <3> QED BY <1>1, <2>2, <2>3, <3>1, Updating
  <2>6. index' \in 0..(Window - 1)
    BY <1>1, <1>2, <2>3, FollowingPlace
  <2>7. block' \in Nat /\ (scanning' = "count" => block' + 1 < blocks')
    BY <1>1, <2>3
  <2> QED BY <1>1, <1>3, <1>6, <2>1, <2>3, <2>4, <2>5, <2>6, <2>7 DEF Scanned
<1>7. CASE LeaveScan /\ UNCHANGED program
  <2>1. scanning' = "out" /\ UNCHANGED <<samples, level, history, index, block, blocks, rest>>
    BY <1>7 DEF LeaveScan
  <2> QED BY <1>1, <1>3, <2>1 DEF Scanned
<1>8. CASE ResetScanner /\ scanning = "out" /\ UNCHANGED program
  <2>1. /\ samples' = 0 /\ level' = NoLevel
        /\ UNCHANGED <<history, index, scanning, block, blocks, rest>>
    BY <1>8 DEF ResetScanner
  <2>2. level' \in [Frequencies -> Int] /\ samples' \in 0..Window
    BY <1>2, <2>1 DEF NoLevel
  <2> QED BY <1>1, <1>3, <1>8, <2>1, <2>2 DEF Scanned
<1>9. CASE /\ UNCHANGED <<scannerVars, program>>
           /\ scanning = "out" \/ Len(queue') >= Len(queue)
  <2>1. UNCHANGED <<samples, level, history, index, scanning, block, blocks, rest, program>>
    BY <1>9 DEF scannerVars
  <2>2. scanning # "out" => blocks * FftSize <= Len(queue')
    <3> SUFFICES ASSUME scanning # "out" PROVE blocks * FftSize <= Len(queue')
      OBVIOUS
    <3>1. blocks * FftSize <= Len(queue) /\ blocks * FftSize \in Nat /\ Len(queue') >= Len(queue)
      BY <1>1, <1>2, <1>9 DEF Scanned
    <3>2. queue' \in Seq(Frequencies)
      BY <1>3 DEF Room
    <3>3. Len(queue') \in Nat
      BY <3>2
    <3> QED BY <1>1, <3>1, <3>3
  <2> QED BY <1>1, <1>3, <2>1, <2>2 DEF Scanned
<1>10. CASE UNCHANGED vars
  BY <1>10 DEF vars, scannerVars, mainVars, Scanned, Frequencies
<1> QED BY <1>4, <1>5, <1>6, <1>7, <1>8, <1>9, <1>10, ScanSteps

-----------------------------------------------------------------------------
(* The places of a value among the last n.                                 *)
Found(n, f) == {k \in 1..n : history[(index - k) % Window] = f}

LEMMA FoundFinite ==
  ASSUME NEW n \in Nat, NEW f
  PROVE  IsFiniteSet(Found(n, f)) /\ Cardinality(Found(n, f)) \in Nat
<1>1. IsFiniteSet(1..n) /\ Found(n, f) \in SUBSET (1..n)
  BY FS_Interval DEF Found
<1>2. IsFiniteSet(Found(n, f))
  BY <1>1, FS_Subset
<1> QED BY <1>2, FS_CardinalityType

(* The sum without the oldest value of a full window.                      *)
LEMMA SumLoses ==
  ASSUME Scanned, NEW f \in Frequencies
  PROVE  Cardinality(Found(Window - 1, f)) =
           Cardinality(Found(Window, f)) - (IF history[index] = f THEN 1 ELSE 0)
<1>1. Window \in Nat /\ Window > 0 /\ index \in 0..(Window - 1)
  BY ScannerAssumption DEF Scanned
<1>2. (index - Window) % Window = index
  <2>1. ~(Window <= index) /\ Window \in 0..Window
    BY <1>1
  <2>2. (index - Window) % Window = index - Window + Window
    BY <1>1, <2>1, Positions
  <2> QED BY <1>1, <2>2
<1>3. Window \notin Found(Window - 1, f)
  BY <1>1 DEF Found
<1>4. /\ IsFiniteSet(Found(Window - 1, f)) /\ Cardinality(Found(Window - 1, f)) \in Nat
  <2>1. Window - 1 \in Nat
    BY <1>1
  <2> QED BY <2>1, FoundFinite
<1>5. CASE history[index] = f
  <2>1. Found(Window, f) = Found(Window - 1, f) \cup {Window}
    BY <1>1, <1>2, <1>5 DEF Found
  <2>2. Cardinality(Found(Window - 1, f) \cup {Window}) = Cardinality(Found(Window - 1, f)) + 1
    BY <1>3, <1>4, FS_AddElement
  <2> QED BY <1>4, <1>5, <2>1, <2>2
<1>6. CASE history[index] # f
  <2>1. Found(Window, f) = Found(Window - 1, f)
    BY <1>1, <1>2, <1>6 DEF Found
  <2> QED BY <1>4, <1>6, <2>1
<1> QED BY <1>5, <1>6

(* The sum with the value that is put at the place in the history.         *)
LEMMA SumGains ==
  ASSUME Scanned, NEW n \in 0..(Window - 1), NEW f \in Frequencies, NEW o \in Frequencies,
         history' = [history EXCEPT ![index] = o], index' = (index + 1) % Window
  PROVE  Cardinality({k \in 1..(n + 1) : history'[(index' - k) % Window] = f}) =
           Cardinality(Found(n, f)) + (IF o = f THEN 1 ELSE 0)
<1>1. /\ Window \in Nat /\ Window > 0 /\ index \in 0..(Window - 1) /\ n \in Nat
      /\ history \in [0..(Window - 1) -> Frequencies]
  BY ScannerAssumption DEF Scanned
<1>2. index' = (IF index + 1 < Window THEN index + 1 ELSE 0) /\ index' \in 0..(Window - 1)
  BY <1>1, FollowingPlace
<1> DEFINE Now == {k \in 1..(n + 1) : history'[(index' - k) % Window] = f}
           Moved == {k + 1 : k \in Found(n, f)}
<1>3. (index' - 1) % Window = index
  BY <1>1, <1>2, Positions
<1>4. ASSUME NEW k \in 1..n
      PROVE  /\ (index' - (k + 1)) % Window = (index - k) % Window
             /\ (index - k) % Window \in 0..(Window - 1) /\ (index - k) % Window # index
  <2>1. k \in 0..Window /\ k + 1 \in 0..Window /\ k < Window
    BY <1>1
  <2>2. (index - k) % Window = IF k <= index THEN index - k ELSE index - k + Window
    BY <1>1, <2>1, Positions
  <2> DEFINE j == k + 1
  <2>3. j \in 0..Window /\ j = k + 1
    BY <2>1
  <2> HIDE DEF j
  <2>4. (index' - j) % Window = IF j <= index' THEN index' - j ELSE index' - j + Window
    BY <1>2, <2>3, Positions
  <2>5. (index' - j) % Window = (index - k) % Window
    BY <1>1, <1>2, <2>1, <2>2, <2>3, <2>4
  <2>6. (index - k) % Window \in 0..(Window - 1) /\ (index - k) % Window # index
    BY <1>1, <2>1, <2>2
  <2> QED BY <2>3, <2>5, <2>6
<1>5. history'[index] = o /\ \A i \in 0..(Window - 1) : i # index => history'[i] = history[i]
  BY <1>1
<1>6. 1 \in Now <=> o = f
  BY <1>1, <1>3, <1>5
<1>7. ASSUME NEW k \in 1..n PROVE k + 1 \in Now <=> k \in Found(n, f)
  <2>1. k + 1 \in 1..(n + 1)
    BY <1>1
  <2>2. history'[(index' - (k + 1)) % Window] = history[(index - k) % Window]
    BY <1>4, <1>5
  <2> QED BY <2>1, <2>2 DEF Found
<1>8. Moved = Now \ {1}
  <2>1. ASSUME NEW m \in Moved PROVE m \in Now /\ m # 1
    <3>1. PICK k \in Found(n, f) : m = k + 1
      OBVIOUS
    <3>2. k \in 1..n
      BY <3>1 DEF Found
    <3> QED BY <1>7, <3>1, <3>2
  <2>2. ASSUME NEW m \in Now, m # 1 PROVE m \in Moved
    <3>1. m - 1 \in 1..n /\ (m - 1) + 1 = m
      BY <1>1, <2>2
    <3>2. m - 1 \in Found(n, f)
      BY <1>7, <3>1
    <3> QED BY <3>1, <3>2
  <2> HIDE DEF Now, Moved
  <2> QED BY <2>1, <2>2
<1>9. IsFiniteSet(Moved) /\ Cardinality(Moved) = Cardinality(Found(n, f)) /\ 1 \notin Moved
  <2>1. Found(n, f) \subseteq 1..n /\ 1 \in Int /\ n \in Int
    BY <1>1 DEF Found
  <2>2. IsFiniteSet(Moved) /\ Cardinality(Moved) = Cardinality(Found(n, f))
    BY <2>1, MovedSet
  <2> QED BY <1>8, <2>2
<1>10. Cardinality(Found(n, f)) \in Nat
  BY <1>1, FoundFinite
<1> HIDE DEF Now, Moved
<1>11. CASE o = f
  <2>1. Now = Moved \cup {1}
    BY <1>6, <1>8, <1>11
  <2>2. Cardinality(Moved \cup {1}) = Cardinality(Moved) + 1
    BY <1>9, FS_AddElement
  <2> QED BY <1>9, <1>11, <2>1, <2>2 DEF Now
<1>12. CASE o # f
  <2>1. Now = Moved
    BY <1>6, <1>8, <1>12
  <2>2. Cardinality(Now) = Cardinality(Found(n, f)) + 0
    BY <1>9, <1>10, <2>1
  <2> QED BY <1>12, <2>2 DEF Now
<1> QED BY <1>11, <1>12

LEMMA SumRests ==
  ASSUME LevelIsWindow, UNCHANGED <<samples, level, history, index>>,
         scanning' = "add" <=> scanning = "add"
  PROVE  LevelIsWindow'
BY DEF LevelIsWindow, Sum, Frequencies

LEMMA LevelThen ==
  ASSUME NEW n, n = (IF scanning' = "add" THEN samples' - 1 ELSE samples'),
         level' = [f \in Frequencies |-> Cardinality({k \in 1..n : history'[(index' - k) % Window] = f})]
  PROVE  LevelIsWindow'
BY DEF LevelIsWindow, Sum, Frequencies

LEMMA LevelKeeps ==
  ASSUME IInv, Room, Scanned, LevelIsWindow, [Next]_vars
  PROVE  LevelIsWindow'
<1>1. /\ block \in Nat /\ blocks \in Nat /\ samples \in 0..Window /\ index \in 0..(Window - 1)
      /\ history \in [0..(Window - 1) -> Frequencies] /\ level \in [Frequencies -> Int]
      /\ queue \in Seq(Frequencies) /\ Len(queue) \in Nat
  BY DEF Scanned, Room
<1>2. /\ FftSize \in Nat /\ FftSize > 0 /\ Window \in Nat /\ Window > 0
  BY ScannerAssumption
<1>3. \A n : Sum(n) = [f \in Frequencies |-> Cardinality(Found(n, f))]
  BY DEF Sum, Found
<1>4. ASSUME NEW size, EnterScan(size) PROVE LevelIsWindow'
  BY <1>4, SumRests DEF EnterScan
<1>5. CASE Count
  <2>1. scanning = "count" /\ scanning' = "add" /\ UNCHANGED <<history, index>>
    BY <1>5 DEF Count
  <2>2. \A n : Sum(n) =
          [f \in Frequencies |-> Cardinality({k \in 1..n : history'[(index' - k) % Window] = f})]
    BY <2>1 DEF Sum
  <2>3. level = Sum(samples)
    BY <2>1 DEF LevelIsWindow
  <2>4. CASE samples = Window
    <3> DEFINE g == history[index]
    <3>1. level' = [level EXCEPT ![g] = level[g] - 1] /\ samples' = Window
      BY <1>5, <2>4 DEF Count
    <3>2. g \in Frequencies /\ level[g] - 1 \in Int
      BY <1>1
    <3> HIDE DEF g
    <3>3. level' \in [Frequencies -> Int]
      BY <1>1, <3>1, <3>2, Updating
    <3>4. ASSUME NEW f \in Frequencies PROVE level'[f] = Cardinality(Found(Window - 1, f))
      <4>1. level[f] = Cardinality(Found(Window, f))
        BY <1>3, <2>3, <2>4
      <4>2. level'[f] = IF g = f THEN level[f] - 1 ELSE level[f]
        BY <1>1, <3>1, <3>2, Updating
      <4>3. level[f] \in Int
        BY <1>1
      <4>4. Cardinality(Found(Window - 1, f)) = level[f] - (IF g = f THEN 1 ELSE 0)
        BY <4>1, SumLoses DEF g
      <4> QED BY <4>2, <4>3, <4>4
    <3>5. level' = Sum(Window - 1)
      BY <1>3, <3>3, <3>4
    <3> QED BY <2>1, <2>2, <3>1, <3>5, LevelThen
  <2>5. CASE samples # Window
    <3>1. level' = level /\ samples' = samples + 1
      BY <1>5, <2>5 DEF Count
    <3>2. samples' - 1 = samples
      BY <1>1, <3>1
    <3> QED BY <2>1, <2>2, <2>3, <3>1, <3>2, LevelThen
  <2> QED BY <2>4, <2>5
<1>6. CASE Add
  <2> DEFINE o == Oldest(block)
             n == samples - 1
  <2>1. /\ scanning = "add" /\ scanning' # "add" /\ samples' = samples
        /\ history' = [history EXCEPT ![index] = o] /\ index' = (index + 1) % Window
        /\ level' = [level EXCEPT ![o] = level[o] + 1]
    BY <1>6 DEF Add, Following
  <2>2. o \in Frequencies
    <3>1. block + 1 < blocks /\ blocks * FftSize <= Len(queue)
      BY <2>1 DEF Scanned
    <3>2. (block + 1) * FftSize <= blocks * FftSize
      <4>1. block < blocks
        BY <1>1, <3>1
      <4> QED BY <1>1, <4>1, BlockInSlice
    <3>3. (block + 1) * FftSize \in Nat /\ blocks * FftSize \in Nat
      BY <1>1, <1>2
    <3>4. (block + 1) * FftSize <= Len(queue)
      BY <1>1, <3>1, <3>2, <3>3
    <3> QED BY <1>1, <3>4, OldestType
  <2>3. n \in 0..(Window - 1) /\ samples = n + 1
    BY <1>1, <1>2, <2>1 DEF Scanned
  <2>4. level = Sum(n)
    BY <2>1 DEF LevelIsWindow
  <2> HIDE DEF o, n
  <2>5. level' \in [Frequencies -> Int]
    <3>1. level[o] + 1 \in Int
      BY <1>1, <2>2
    <3> QED BY <1>1, <2>1, <2>2, <3>1, Updating
  <2>6. ASSUME NEW f \in Frequencies
        PROVE  level'[f] = Cardinality({k \in 1..(n + 1) : history'[(index' - k) % Window] = f})
    <3>1. level[f] = Cardinality(Found(n, f)) /\ level[f] \in Int
      BY <1>1, <1>3, <2>4
    <3>2. level'[f] = IF o = f THEN level[f] + 1 ELSE level[f]
      <4>1. level[o] + 1 \in Int
        BY <1>1, <2>2
      <4> QED BY <1>1, <2>1, <2>2, <4>1, Updating
    <3>3. Cardinality({k \in 1..(n + 1) : history'[(index' - k) % Window] = f}) =
            level[f] + (IF o = f THEN 1 ELSE 0)
      BY <2>1, <2>2, <2>3, <3>1, SumGains
    <3> QED BY <3>1, <3>2, <3>3
  <2> DEFINE m == n + 1
  <2>7. m = samples' /\ m = n + 1
    BY <2>1, <2>3
  <2> HIDE DEF m
  <2>8. level' = [f \in Frequencies |-> Cardinality({k \in 1..m : history'[(index' - k) % Window] = f})]
    BY <2>5, <2>6, <2>7
  <2> QED BY <2>1, <2>7, <2>8, LevelThen
<1>7. CASE LeaveScan
  BY <1>7, SumRests DEF LeaveScan
<1>8. CASE ResetScanner /\ scanning = "out"
  <2>1. samples' = 0 /\ level' = NoLevel /\ scanning' = "out"
    BY <1>8 DEF ResetScanner
  <2>2. \A f : {k \in 1..0 : history'[(index' - k) % Window] = f} = {}
    OBVIOUS
  <2>3. Cardinality({}) = 0
    BY FS_EmptySet
  <2>4. level' = [f \in Frequencies |-> Cardinality({k \in 1..0 : history'[(index' - k) % Window] = f})]
    BY <2>1, <2>2, <2>3 DEF NoLevel
  <2> QED BY <2>1, <2>4, LevelThen
<1>9. CASE UNCHANGED scannerVars
  BY <1>9, SumRests DEF scannerVars
<1> QED BY <1>4, <1>5, <1>6, <1>7, <1>8, <1>9, ScanSteps DEF vars, scannerVars

-----------------------------------------------------------------------------
(* Samples captured before the last change of the frequency, which is t.   *)
Stale(s, t) == {i \in DOMAIN s : s[i] < t}

Left == {i \in (consumed + 1)..Len(current.samples) : current.samples[i] < tuned}

Fresh(b, t) == ~b.before /\ Stale(b.samples, t) = {}

FreshAhead ==
  /\ \A j \in 1..Len(outgoing) : Fresh(outgoing[j], tuned)
  /\ Stale(filling, tuned) = {}

(* While reset() throws buffers away, the only one with old samples that it *)
(* will keep is still being filled, or waits to be taken, or is taken.      *)
Sieving == main = "resetting" /\ pc \in {"reset compare", "reset discard", "reset next"}

BeingFilled ==
  /\ acquired => current.before
  /\ \A j \in 1..Len(outgoing) : outgoing[j].before

Waiting(j) ==
  /\ acquired => current.before
  /\ \A i \in 1..(j - 1) : outgoing[i].before
  /\ ~outgoing[j].before /\ Cardinality(Stale(outgoing[j].samples, tuned)) < BufferSize
  /\ \A i \in (j + 1)..Len(outgoing) : Fresh(outgoing[i], tuned)
  /\ Stale(filling, tuned) = {}

Taken ==
  /\ acquired /\ ~current.before /\ Cardinality(Stale(current.samples, tuned)) < BufferSize
  /\ FreshAhead

Sieve ==
  Sieving =>
    /\ old = 0 /\ (pc = "reset discard" => current.before)
    /\ BeingFilled \/ (\E j \in 1..Len(outgoing) : Waiting(j)) \/ Taken

(* Otherwise, from the end of reset() to the next change of the frequency, *)
(* only the buffer in hand has old samples.                                *)
Sieved == main \notin {"reset scanner", "reset source"} /\ (main = "resetting" => pc = "out")

Delivered ==
  Sieved =>
    /\ acquired => ~current.before
    /\ old + (IF acquired THEN Cardinality(Left) ELSE 0) < BufferSize
    /\ FreshAhead

(* Without a stream there is nothing old; reset() finds no worker inside.  *)
Still ==
  /\ ~streaming /\ main # "end" => filling = <<>> /\ old = 0
  /\ main = "resetting" => pc \notin Processing
  /\ old \in Nat

Freshness == Still /\ Sieve /\ Delivered

-----------------------------------------------------------------------------
LEMMA StaleFinite ==
  ASSUME NEW s \in Seq(Frequencies), NEW t
  PROVE  /\ IsFiniteSet(Stale(s, t)) /\ Cardinality(Stale(s, t)) \in Nat
         /\ Cardinality(Stale(s, t)) <= Len(s)
<1>1. Stale(s, t) \in SUBSET (1..Len(s)) /\ Len(s) \in Nat
  BY DEF Stale
<1>2. IsFiniteSet(1..Len(s)) /\ Cardinality(1..Len(s)) = Len(s)
  <2> DEFINE n == Len(s)
  <2>1. n \in Nat
    BY <1>1
  <2> HIDE DEF n
  <2>2. IsFiniteSet(1..n) /\ Cardinality(1..n) = (IF 1 > n THEN 0 ELSE n - 1 + 1)
    BY <2>1, FS_Interval
  <2>3. IsFiniteSet(1..n) /\ Cardinality(1..n) = n
    BY <2>1, <2>2
  <2> QED BY <2>3 DEF n
<1>3. IsFiniteSet(Stale(s, t)) /\ Cardinality(Stale(s, t)) <= Len(s)
  BY <1>1, <1>2, FS_Subset
<1> QED BY <1>3, FS_CardinalityType

(* A sample captured now is not old.                                       *)
LEMMA StaleAppended ==
  ASSUME NEW s \in Seq(Frequencies), NEW t \in Frequencies
  PROVE  Stale(Append(s, t), t) = Stale(s, t)
<1> DEFINE a == Append(s, t)
<1>1. /\ Len(s) \in Nat /\ DOMAIN a = 1..(Len(s) + 1) /\ DOMAIN s = 1..Len(s)
      /\ a[Len(s) + 1] = t /\ \A i \in 1..Len(s) : a[i] = s[i]
  OBVIOUS
<1>2. t \in Nat /\ ~(t < t)
  BY FrequenciesType
<1> HIDE DEF a
<1>3. \A i \in DOMAIN a : a[i] < t <=> i \in DOMAIN s /\ s[i] < t
  BY <1>1, <1>2
<1>4. DOMAIN s \subseteq DOMAIN a
  BY <1>1
<1>5. Stale(a, t) = Stale(s, t)
  BY <1>3, <1>4 DEF Stale
<1> QED BY <1>5 DEF a

LEMMA LeftFinite ==
  ASSUME Captured
  PROVE  /\ IsFiniteSet(Left) /\ Cardinality(Left) \in Nat
         /\ Left \subseteq Stale(current.samples, tuned)
         /\ Cardinality(Left) <= Cardinality(Stale(current.samples, tuned))
<1>1. current.samples \in Seq(Frequencies) /\ consumed \in 0..Len(current.samples)
  BY DEF Captured
<1>2. Left \subseteq Stale(current.samples, tuned)
  BY <1>1 DEF Left, Stale
<1>3. IsFiniteSet(Stale(current.samples, tuned))
  BY <1>1, StaleFinite
<1>4. IsFiniteSet(Left) /\ Cardinality(Left) <= Cardinality(Stale(current.samples, tuned))
  BY <1>2, <1>3, FS_Subset
<1> QED BY <1>2, <1>4, FS_CardinalityType

(* What is copied is no longer left.                                       *)
LEMMA LeftCopied ==
  ASSUME Captured, NEW n \in 0..(Len(current.samples) - consumed),
         consumed' = consumed + n, UNCHANGED <<current, tuned>>,
         NEW copied, copied = SubSeq(current.samples, consumed + 1, consumed + n)
  PROVE  /\ Cardinality(Left) = Cardinality(Left') + Cardinality({i \in DOMAIN copied : copied[i] < tuned})
         /\ Cardinality({i \in DOMAIN copied : copied[i] < tuned}) \in Nat
         /\ Cardinality(Left') \in Nat
<1> DEFINE s == current.samples
           Gone == {i \in DOMAIN copied : copied[i] < tuned}
           There == {k + consumed : k \in Gone}
<1>1. s \in Seq(Frequencies) /\ consumed \in 0..Len(s) /\ consumed \in Nat /\ n \in Nat /\ Len(s) \in Nat
      /\ consumed + n <= Len(s)
  BY DEF Captured
<1>2. DOMAIN copied = 1..n /\ \A i \in 1..n : copied[i] = s[consumed + i]
  BY <1>1, Slice
<1>3. /\ IsFiniteSet(Gone) /\ IsFiniteSet(There)
      /\ Cardinality(There) = Cardinality(Gone)
  <2>1. Gone \subseteq 1..n /\ 1 \in Int /\ n \in Int /\ consumed \in Int
    BY <1>1, <1>2
  <2> HIDE DEF Gone
  <2> QED BY <2>1, MovedSet
<1>4. Left' = {i \in (consumed + n + 1)..Len(s) : s[i] < tuned}
  BY DEF Left
<1>5. Left = There \cup Left' /\ There \cap Left' = {}
  <2>1. There = {i \in (consumed + 1)..(consumed + n) : s[i] < tuned}
    <3>1. ASSUME NEW i \in There PROVE i \in (consumed + 1)..(consumed + n) /\ s[i] < tuned
      <4>1. PICK k \in Gone : i = k + consumed
        OBVIOUS
      <4>2. k \in 1..n /\ s[consumed + k] < tuned
        BY <1>2, <4>1
      <4>3. i = consumed + k
        BY <1>1, <4>1, <4>2
      <4> QED BY <1>1, <4>2, <4>3
    <3>2. ASSUME NEW i \in (consumed + 1)..(consumed + n), s[i] < tuned PROVE i \in There
      <4> DEFINE k == i - consumed
      <4>1. k \in 1..n /\ consumed + k = i /\ k + consumed = i
        BY <1>1
      <4>2. k \in Gone
        BY <1>2, <3>2, <4>1
      <4> HIDE DEF k, Gone
      <4> QED BY <4>1, <4>2
    <3> HIDE DEF There
    <3> QED BY <3>1, <3>2
  <2> HIDE DEF There
  <2> QED BY <1>1, <1>4, <2>1 DEF Left
<1>6. IsFiniteSet(Left')
  <2>1. IsFiniteSet(Left) /\ Left' \subseteq Left
    BY <1>5, LeftFinite
  <2> QED BY <2>1, FS_Subset
<1>7. Cardinality(There \cup Left') = Cardinality(There) + Cardinality(Left')
  BY <1>3, <1>5, <1>6, UnionOfTwo
<1>8. Cardinality(Gone) \in Nat /\ Cardinality(Left') \in Nat
  BY <1>3, <1>6, FS_CardinalityType
<1> HIDE DEF Gone, There
<1>9. Cardinality(Left) = Cardinality(Left') + Cardinality(Gone)
  BY <1>3, <1>5, <1>7, <1>8
<1> QED BY <1>8, <1>9 DEF Gone

-----------------------------------------------------------------------------
(* What has been captured, buffer by buffer.                               *)
LEMMA CaptureTypes ==
  ASSUME IInv, Captured
  PROVE  /\ filling \in Seq(Frequencies) /\ Len(filling) \in Nat /\ Len(filling) < BufferSize
         /\ outgoing \in Seq(Filled) /\ Len(outgoing) \in Nat /\ DOMAIN outgoing = 1..Len(outgoing)
         /\ \A j \in 1..Len(outgoing) : outgoing[j].samples \in Seq(Frequencies) /\ outgoing[j].before \in BOOLEAN
         /\ current.samples \in Seq(Frequencies) /\ current.before \in BOOLEAN
         /\ tuned \in Frequencies /\ BufferSize \in Nat /\ BufferSize > 0
<1>1. filling \in Seq(Frequencies) /\ Len(filling) < BufferSize
  BY DEF Captured
<1>2. outgoing \in Seq(Filled) /\ current \in Filled
  BY DEF IInv, Types
<1>3. DOMAIN outgoing = 1..Len(outgoing) /\ Len(outgoing) \in Nat
  BY <1>2
<1>4. \A j \in 1..Len(outgoing) : outgoing[j].samples \in Seq(Frequencies) /\ outgoing[j].before \in BOOLEAN
  <2>1. \A j \in 1..Len(outgoing) : outgoing[j] \in Filled
    BY <1>2
  <2>2. \A b \in Filled : b.before \in BOOLEAN
    BY DEF Filled
  <2> QED BY <1>3, <2>1, <2>2 DEF Captured
<1>5. current.before \in BOOLEAN /\ current.samples \in Seq(Frequencies)
  BY <1>2 DEF Filled, Captured
<1> QED BY <1>1, <1>2, <1>3, <1>4, <1>5, SizesAssumption DEF Captured

LEMMA FreshCapture ==
  ASSUME IInv, Captured, Freshness, Capture, UNCHANGED mainVars
  PROVE  Freshness'
<1> USE CaptureTypes
<1>1. /\ streaming /\ incoming # <<>>
      /\ UNCHANGED <<tuned, streaming, acquired, current, consumed, pc, old, main>>
  BY DEF Capture, sourceVars, mainVars
<1>2. Left' = Left /\ (Sieving' <=> Sieving) /\ (Sieved' <=> Sieved)
  BY <1>1 DEF Left, Sieving, Sieved
<1>3. Still'
  BY <1>1 DEF Still, Freshness, Processing
<1> DEFINE s == Append(filling, tuned)
<1>4. Stale(s, tuned) = Stale(filling, tuned)
  BY StaleAppended
<1>5. CASE Len(filling) + 1 < BufferSize
  <2>1. filling' = s /\ outgoing' = outgoing
    BY <1>5 DEF Capture
  <2>2. Stale(filling', tuned') = Stale(filling, tuned)
    BY <1>1, <1>4, <2>1
  <2>3. FreshAhead' <=> FreshAhead
    BY <1>1, <2>1, <2>2 DEF FreshAhead
  <2>4. Delivered'
    BY <1>1, <1>2, <2>3 DEF Delivered, Freshness
  <2>5. BeingFilled => BeingFilled'
    BY <1>1, <2>1 DEF BeingFilled
  <2>6. \A j : Waiting(j) => Waiting(j)'
    BY <1>1, <2>1, <2>2 DEF Waiting
  <2>7. Taken => Taken'
    BY <1>1, <2>3 DEF Taken
  <2>8. Sieve'
    BY <1>1, <1>2, <2>1, <2>5, <2>6, <2>7 DEF Sieve, Freshness
  <2> QED BY <1>3, <2>4, <2>8 DEF Freshness
<1>6. CASE ~(Len(filling) + 1 < BufferSize)
  <2> DEFINE b == [buffer |-> Head(incoming), samples |-> s, before |-> FALSE]
  <2>1. filling' = <<>> /\ outgoing' = Append(outgoing, b)
    BY <1>6 DEF Capture
  <2>2. b.samples = s /\ ~b.before
    OBVIOUS
  <2> HIDE DEF b
  <2> PICK n : n = Len(outgoing) + 1
    OBVIOUS
  <2>3. /\ Len(outgoing') = n /\ outgoing'[n] = b /\ n \in Nat /\ n = Len(outgoing) + 1
        /\ \A j \in 1..Len(outgoing) : outgoing'[j] = outgoing[j]
    BY <2>1
  <2> HIDE DEF s
  <2>4. Stale(filling', tuned') = {}
    BY <2>1 DEF Stale
  <2>5. Stale(filling, tuned) = {} => Fresh(outgoing'[n], tuned')
    BY <1>1, <1>4, <2>2, <2>3 DEF Fresh
  <2>6. FreshAhead => FreshAhead'
    <3>1. \A j \in 1..n : j = n \/ j \in 1..Len(outgoing)
      BY <2>3
    <3> QED BY <1>1, <2>3, <2>4, <2>5, <3>1 DEF FreshAhead
  <2>7. Delivered'
    BY <1>1, <1>2, <2>6 DEF Delivered, Freshness
  <2>8. BeingFilled => Waiting(n)'
    <3> SUFFICES ASSUME BeingFilled PROVE Waiting(n)'
      OBVIOUS
    <3>1. \A i \in 1..(n - 1) : i \in 1..Len(outgoing)
      BY <2>3
    <3>2. \A i \in 1..(n - 1) : outgoing'[i].before
      BY <2>3, <3>1 DEF BeingFilled
    <3>3. Cardinality(Stale(filling, tuned)) < BufferSize
      <4>1. /\ Cardinality(Stale(filling, tuned)) \in Nat
            /\ Cardinality(Stale(filling, tuned)) <= Len(filling)
        BY StaleFinite
      <4> QED BY <4>1
    <3>4. ~outgoing'[n].before /\ Cardinality(Stale(outgoing'[n].samples, tuned')) < BufferSize
      BY <1>1, <1>4, <2>2, <2>3, <3>3
    <3>5. (n + 1)..Len(outgoing') = {}
      BY <2>3
    <3> QED BY <1>1, <2>4, <3>2, <3>4, <3>5 DEF Waiting, BeingFilled
  <2>9. ASSUME NEW j \in 1..Len(outgoing), Waiting(j) PROVE Waiting(j)' /\ j \in 1..Len(outgoing')
    <3>1. /\ \A i \in 1..(j - 1) : i \in 1..Len(outgoing)
          /\ \A i \in (j + 1)..n : i = n \/ i \in (j + 1)..Len(outgoing)
          /\ \A i \in (j + 1)..Len(outgoing) : i \in 1..Len(outgoing)
          /\ j \in 1..n
      BY <2>3
    <3>2. \A i \in (j + 1)..n : Fresh(outgoing'[i], tuned')
      BY <1>1, <2>3, <2>5, <2>9, <3>1 DEF Waiting
    <3>3. \A i \in 1..(j - 1) : outgoing'[i].before
      BY <2>3, <2>9, <3>1 DEF Waiting
    <3> QED BY <1>1, <2>3, <2>4, <2>9, <3>1, <3>2, <3>3 DEF Waiting
  <2>10. Taken => Taken'
    BY <1>1, <2>6 DEF Taken
  <2>11. n \in 1..Len(outgoing')
    BY <2>3
  <2>12. Sieve'
    BY <1>1, <1>2, <2>8, <2>9, <2>10, <2>11 DEF Sieve, Freshness
  <2> QED BY <1>3, <2>7, <2>12 DEF Freshness
<1> QED BY <1>5, <1>6

LEMMA Behind ==
  ASSUME NEW S, NEW s \in Seq(S), s # <<>>, NEW n, n = Len(s)
  PROVE  /\ n \in Nat /\ n > 0 /\ Head(s) = s[1] /\ Len(Tail(s)) = n - 1
         /\ \A j \in 1..(n - 1) : Tail(s)[j] = s[j + 1] /\ j + 1 \in 1..n
<1>1. Len(s) \in Nat /\ Len(s) > 0
  OBVIOUS
<1>2. Head(s) = s[1] /\ Len(Tail(s)) = Len(s) - 1
  BY <1>1
<1>3. \A j \in 1..(Len(s) - 1) : Tail(s)[j] = s[j + 1] /\ j + 1 \in 1..Len(s)
  BY <1>1
<1> QED BY <1>1, <1>2, <1>3

LEMMA FreshAcquire ==
  ASSUME IInv, Captured, Freshness, AcquireBuffer, UNCHANGED mainVars
  PROVE  Freshness'
<1>0. /\ outgoing \in Seq(Filled) /\ tuned \in Frequencies
      /\ \A j \in 1..Len(outgoing) : outgoing[j].samples \in Seq(Frequencies) /\ outgoing[j].before \in BOOLEAN
      /\ BufferSize \in Nat /\ BufferSize > 0
  BY CaptureTypes
<1> PICK n : n = Len(outgoing)
  OBVIOUS
<1>1. /\ pc \in {"acquire", "reset first", "reset next"} /\ outgoing # <<>>
      /\ current' = Head(outgoing) /\ outgoing' = Tail(outgoing) /\ consumed' = 0 /\ acquired' = TRUE
      /\ UNCHANGED <<tuned, filling, streaming, old, main>>
  BY DEF AcquireBuffer, mainVars
<1>2. \/ pc = "acquire" /\ pc' = "copy"
      \/ pc = "reset first" /\ pc' = "reset read"
      \/ pc = "reset next" /\ pc' = "reset compare"
  BY DEF AcquireBuffer
<1>3. /\ n \in Nat /\ n > 0 /\ 1 \in 1..n /\ current' = outgoing[1] /\ Len(outgoing') = n - 1
      /\ \A j \in 1..(n - 1) : outgoing'[j] = outgoing[j + 1] /\ j + 1 \in 1..n
  <2>1. /\ n \in Nat /\ n > 0 /\ Head(outgoing) = outgoing[1] /\ Len(Tail(outgoing)) = n - 1
        /\ \A j \in 1..(n - 1) : Tail(outgoing)[j] = outgoing[j + 1] /\ j + 1 \in 1..n
    BY <1>0, <1>1, Behind
  <2>2. 1 \in 1..n
    BY <2>1
  <2> QED BY <1>1, <2>1, <2>2
<1>4. ~acquired
  BY <1>1 DEF IInv, Holding
<1>5. Still'
  BY <1>1, <1>2 DEF Still, Freshness, Processing
<1>6. (\A j \in 2..n : Fresh(outgoing[j], tuned)) /\ Stale(filling, tuned) = {} => FreshAhead'
  <2>1. \A j \in 1..(n - 1) : j + 1 \in 2..n
    BY <1>3
  <2> QED BY <1>1, <1>3, <2>1 DEF FreshAhead
<1>7. CASE pc = "acquire"
  <2>1. ~Sieving' /\ main # "resetting"
    BY <1>2, <1>7 DEF Sieving, Freshness, Still, Processing
  <2>2. CASE ~Sieved
    BY <1>1, <1>5, <2>1, <2>2 DEF Freshness, Sieve, Delivered, Sieved
  <2>3. CASE Sieved
    <3>1. FreshAhead /\ old < BufferSize /\ old \in Nat
      BY <1>4, <2>3 DEF Freshness, Delivered, Still
    <3>2. FreshAhead'
      <4>1. \A j \in 2..n : j \in 1..n
        BY <1>3
      <4> QED BY <1>6, <3>1, <4>1 DEF FreshAhead
    <3>3. ~current'.before /\ Stale(current'.samples, tuned') = {}
      BY <1>1, <1>3, <3>1 DEF FreshAhead, Fresh
    <3>4. Left' = {}
      <4> PICK c : c = current'.samples
        OBVIOUS
      <4>1. c \in Seq(Frequencies)
        BY <1>0, <1>3
      <4>2. DOMAIN c = 1..Len(c) /\ Len(c) \in Nat
        BY <4>1
      <4>3. \A i \in 1..Len(c) : ~(c[i] < tuned')
        BY <3>3, <4>2 DEF Stale
      <4>4. Left' = {i \in (0 + 1)..Len(c) : c[i] < tuned'}
        BY <1>1 DEF Left
      <4> QED BY <4>2, <4>3, <4>4
    <3>5. Cardinality(Left') = 0
      BY <3>4, FS_EmptySet
    <3>6. old' + (IF acquired' THEN Cardinality(Left') ELSE 0) < BufferSize
      <4>1. old' = old
        BY <1>1
      <4>2. old' + 0 < BufferSize
        BY <3>1, <4>1, SizesAssumption
      <4>3. (IF acquired' THEN Cardinality(Left') ELSE 0) = 0
        BY <3>5
      <4> QED BY <4>2, <4>3
    <3>7. Delivered'
      BY <3>2, <3>3, <3>6 DEF Delivered
    <3> QED BY <1>5, <2>1, <3>7 DEF Freshness, Sieve
  <2> QED BY <2>2, <2>3
<1>8. CASE pc = "reset first"
  <2>1. ~Sieving' /\ ~Sieved'
    BY <1>1, <1>2, <1>8 DEF Sieving, Sieved, IInv, Stage, Resets
  <2> QED BY <1>5, <2>1 DEF Freshness, Sieve, Delivered
<1>9. CASE pc = "reset next"
  <2>1. Sieving /\ ~Sieved' /\ pc' = "reset compare"
    BY <1>1, <1>2, <1>9 DEF Sieving, Sieved, IInv, Stage, Resets
  <2>2. old' = 0
    BY <1>1, <2>1 DEF Freshness, Sieve
  <2>3. ASSUME BeingFilled PROVE BeingFilled'
    BY <1>1, <1>3, <2>3 DEF BeingFilled
  <2>4. ASSUME NEW j \in 1..n, Waiting(j)
        PROVE  (\E i \in 1..Len(outgoing') : Waiting(i)') \/ Taken'
    <3>1. CASE j = 1
      <4>1. FreshAhead'
        BY <1>6, <2>4, <3>1 DEF Waiting
      <4> QED BY <1>0, <1>1, <1>3, <2>4, <3>1, <4>1 DEF Waiting, Taken
    <3>2. CASE j # 1
      <4>1. 1 \in 1..(j - 1) /\ j - 1 \in 1..(n - 1) /\ j \in Nat
        BY <1>3, <3>2
      <4> PICK i : i = j - 1
        OBVIOUS
      <4>2. /\ i \in 1..Len(outgoing') /\ i + 1 = j
            /\ outgoing'[i] = outgoing[j]
            /\ \A k \in 1..(i - 1) : outgoing'[k] = outgoing[k + 1] /\ k + 1 \in 1..(j - 1)
            /\ \A k \in (i + 1)..(n - 1) : outgoing'[k] = outgoing[k + 1] /\ k + 1 \in (j + 1)..n
        BY <1>3, <4>1
      <4>3. \A k \in 1..(i - 1) : outgoing'[k].before
        BY <2>4, <4>2 DEF Waiting
      <4>4. \A k \in (i + 1)..Len(outgoing') : Fresh(outgoing'[k], tuned')
        BY <1>1, <1>3, <2>4, <4>2 DEF Waiting
      <4>5. current'.before
        BY <1>3, <2>4, <4>1 DEF Waiting
      <4>6. Waiting(i)'
        BY <1>1, <2>4, <4>2, <4>3, <4>4, <4>5 DEF Waiting
      <4> QED BY <4>2, <4>6
    <3> QED BY <3>1, <3>2
  <2>5. ~Taken
    BY <1>4 DEF Taken
  <2>6. Sieve'
    BY <2>1, <2>2, <2>3, <2>4, <2>5 DEF Sieve, Freshness
  <2> QED BY <1>5, <2>1, <2>6 DEF Freshness, Delivered
<1> QED BY <1>1, <1>7, <1>8, <1>9

LEMMA FreshRests ==
  ASSUME Freshness, UNCHANGED <<tuned, filling, outgoing, acquired, current, consumed, old>>,
         streaming => streaming', main' # "end" => main # "end",
         main' = "resetting" => pc' \notin Processing,
         Sieving' => Sieving /\ pc' = pc, Sieved' => Sieved
  PROVE  Freshness'
<1>1. Still'
  BY DEF Freshness, Still, Processing
<1>2. Left' = Left
  BY DEF Left
<1>3. FreshAhead' <=> FreshAhead
  BY DEF FreshAhead, Fresh, Stale
<1>4. Delivered'
  BY <1>2, <1>3 DEF Freshness, Delivered
<1>5. (BeingFilled' <=> BeingFilled) /\ (Taken' <=> Taken)
  BY <1>3 DEF BeingFilled, Taken, Stale
<1>6. \A j : Waiting(j)' <=> Waiting(j)
  BY DEF Waiting, Fresh, Stale
<1>7. Sieve'
  BY <1>5, <1>6 DEF Freshness, Sieve
<1> QED BY <1>1, <1>4, <1>7 DEF Freshness

LEMMA FreshRelease ==
  ASSUME IInv, Captured, Freshness, ReleaseBuffer, UNCHANGED mainVars
  PROVE  Freshness'
<1>1. /\ acquired' = FALSE
      /\ UNCHANGED <<tuned, filling, outgoing, streaming, current, consumed, old, main>>
  BY DEF ReleaseBuffer, AcquiredAfterRelease, mainVars
<1>2. \/ pc = "release" /\ pc' \in {"acquire", "done"}
      \/ pc = "reset discard" /\ pc' = "reset next"
  BY DEF ReleaseBuffer
<1>3. Still'
  BY <1>1, <1>2 DEF Still, Freshness, Processing
<1>4. FreshAhead' <=> FreshAhead
  BY <1>1 DEF FreshAhead, Fresh, Stale
<1>5. CASE pc = "release"
  <2>1. main # "resetting"
    BY <1>5 DEF Freshness, Still, Processing
  <2>2. ~Sieving' /\ (Sieved' <=> Sieved)
    BY <1>1, <2>1 DEF Sieving, Sieved
  <2>3. Sieved => old < BufferSize /\ FreshAhead
    <3>1. old \in Nat /\ Cardinality(Left) \in Nat /\ BufferSize \in Nat
      BY LeftFinite, SizesAssumption DEF Freshness, Still
    <3>2. Sieved => old + (IF acquired THEN Cardinality(Left) ELSE 0) < BufferSize /\ FreshAhead
      BY DEF Freshness, Delivered
    <3> QED BY <3>1, <3>2
  <2>4. Sieved => old' + 0 < BufferSize
    <3>1. old' = old /\ old \in Nat
      BY <1>1 DEF Freshness, Still
    <3> QED BY <2>3, <3>1, SizesAssumption
  <2>5. Delivered'
    BY <1>1, <1>4, <2>2, <2>3, <2>4 DEF Delivered
  <2> QED BY <1>3, <2>2, <2>5 DEF Freshness, Sieve
<1>6. CASE pc = "reset discard"
  <2>1. Sieving /\ ~Sieved' /\ pc' = "reset next"
    BY <1>1, <1>2, <1>6 DEF Sieving, Sieved, IInv, Stage, Resets
  <2>2. old' = 0 /\ ~Taken
    BY <1>1, <1>6, <2>1 DEF Freshness, Sieve, Taken
  <2>3. BeingFilled => BeingFilled'
    BY <1>1 DEF BeingFilled
  <2>4. \A j : Waiting(j) => Waiting(j)'
    BY <1>1 DEF Waiting, Fresh, Stale
  <2>5. Sieve'
    BY <1>1, <2>1, <2>2, <2>3, <2>4 DEF Freshness, Sieve
  <2> QED BY <1>3, <2>1, <2>5 DEF Freshness, Delivered
<1> QED BY <1>2, <1>5, <1>6

LEMMA FreshCopy ==
  ASSUME IInv, Captured, Room, Freshness, Copy, UNCHANGED mainVars
  PROVE  Freshness'
<1> DEFINE left == Len(current.samples) - consumed
           n == IF left < want - Len(made) THEN left ELSE want - Len(made)
           copied == SubSeq(current.samples, consumed + 1, consumed + n)
<1>1. /\ pc = "copy" /\ pc' \in {"release", "done"}
      /\ consumed' = consumed + n
      /\ old' = old + Cardinality({i \in DOMAIN copied : copied[i] < tuned})
      /\ UNCHANGED <<tuned, filling, outgoing, streaming, acquired, current, main>>
  BY DEF Copy, driverVars, mainVars
<1>2. n \in 0..left
  <2>1. Len(current.samples) \in Nat /\ consumed \in 0..Len(current.samples)
    BY DEF Captured
  <2>2. Len(made) \in Nat /\ want \in Nat /\ Len(made) <= want
    BY <1>1 DEF Room, Processing
  <2> QED BY <2>1, <2>2
<1> HIDE DEF n
<1>3. /\ Cardinality(Left) = Cardinality(Left') + Cardinality({i \in DOMAIN copied : copied[i] < tuned})
      /\ Cardinality({i \in DOMAIN copied : copied[i] < tuned}) \in Nat
      /\ Cardinality(Left') \in Nat
  BY <1>1, <1>2, LeftCopied
<1> HIDE DEF copied
<1>4. acquired /\ main # "resetting" /\ streaming
  BY <1>1 DEF IInv, Holding, Freshness, Still, Processing
<1>5. ~Sieving' /\ (Sieved' <=> Sieved)
  BY <1>1, <1>4 DEF Sieving, Sieved
<1>6. old \in Nat /\ old' \in Nat /\ old' + Cardinality(Left') = old + Cardinality(Left)
  <2>1. old \in Nat
    BY DEF Freshness, Still
  <2> QED BY <1>1, <1>3, <2>1
<1>7. Still'
  BY <1>1, <1>4, <1>6 DEF Still, Freshness
<1>8. FreshAhead' <=> FreshAhead
  BY <1>1 DEF FreshAhead, Fresh, Stale
<1>9. Delivered'
  BY <1>1, <1>4, <1>5, <1>6, <1>8 DEF Delivered, Freshness
<1> QED BY <1>5, <1>7, <1>9 DEF Freshness, Sieve

(* All that is filled is found to be from before.                          *)
LEMMA FreshReadClock ==
  ASSUME IInv, Captured, Freshness, ReadClock, UNCHANGED mainVars
  PROVE  Freshness'
<1>1. /\ pc = "reset read" /\ pc' = "reset compare" /\ old' = 0
      /\ current' = [current EXCEPT !.before = TRUE]
      /\ outgoing' = [i \in DOMAIN outgoing |-> Stamped(outgoing[i])]
      /\ UNCHANGED <<tuned, filling, streaming, acquired, consumed, main>>
  BY DEF ReadClock, mainVars
<1>2. streaming /\ main = "resetting"
  BY <1>1 DEF IInv, Holding, Stage, Resets
<1>3. \A b \in Filled : Stamped(b).before
  BY DEF Stamped, Filled
<1>4. outgoing \in Seq(Filled) /\ current \in Filled
  BY DEF IInv, Types
<1>5. current'.before
  BY <1>1, <1>4 DEF Filled
<1>6. \A j \in 1..Len(outgoing') : outgoing'[j].before
  <2>1. \A j \in 1..Len(outgoing) : outgoing[j] \in Filled
    BY <1>4
  <2>2. DOMAIN outgoing = 1..Len(outgoing) /\ Len(outgoing) \in Nat
    BY <1>4
  <2> PICK n : n = Len(outgoing)
    OBVIOUS
  <2>3. outgoing' = [i \in 1..n |-> Stamped(outgoing[i])] /\ n \in Nat
    BY <1>1, <2>2
  <2>4. Len(outgoing') = n
    BY <2>3
  <2> QED BY <1>3, <2>1, <2>3, <2>4
<1>7. BeingFilled'
  BY <1>5, <1>6 DEF BeingFilled
<1>8. Still'
  BY <1>1, <1>2 DEF Still, Freshness, Processing
<1>9. Sieve'
  BY <1>1, <1>7 DEF Sieve
<1>10. ~Sieved'
  BY <1>1, <1>2 DEF Sieved
<1> QED BY <1>8, <1>9, <1>10 DEF Freshness, Delivered

LEMMA FreshCompare ==
  ASSUME IInv, Captured, Freshness, Compare, UNCHANGED mainVars
  PROVE  Freshness'
<1>1. /\ pc = "reset compare" /\ pc' = (IF current.before THEN "reset discard" ELSE "out")
      /\ UNCHANGED <<tuned, filling, outgoing, streaming, acquired, current, consumed, old, main>>
  BY DEF Compare, driverVars, mainVars
<1>2. Sieving /\ acquired
  BY <1>1 DEF IInv, Stage, Resets, Holding, Sieving
<1>3. Still'
  BY <1>1 DEF Still, Freshness, Processing
<1>4. FreshAhead' <=> FreshAhead
  BY <1>1 DEF FreshAhead, Fresh, Stale
<1>5. CASE current.before
  <2>1. (BeingFilled => BeingFilled') /\ (Taken => Taken')
    BY <1>1, <1>4 DEF BeingFilled, Taken, Stale
  <2>2. \A j : Waiting(j) => Waiting(j)'
    BY <1>1 DEF Waiting, Fresh, Stale
  <2>3. Sieve' /\ ~Sieved'
    BY <1>1, <1>2, <1>5, <2>1, <2>2 DEF Freshness, Sieve, Sieving, Sieved
  <2> QED BY <1>3, <2>3 DEF Freshness, Delivered
<1>6. CASE ~current.before
  <2>1. Taken /\ old = 0
    BY <1>2, <1>6 DEF Freshness, Sieve, BeingFilled, Waiting
  <2>2. Cardinality(Left) < BufferSize /\ Cardinality(Left) \in Nat
    <3>1. /\ Cardinality(Left) \in Nat
          /\ Cardinality(Left) <= Cardinality(Stale(current.samples, tuned))
      BY LeftFinite
    <3>2. Cardinality(Stale(current.samples, tuned)) \in Nat
      BY StaleFinite DEF Captured
    <3>3. Cardinality(Stale(current.samples, tuned)) < BufferSize
      BY <2>1 DEF Taken
    <3> QED BY <3>1, <3>2, <3>3, SizesAssumption
  <2>3. Left' = Left
    BY <1>1 DEF Left
  <2>4. old' + Cardinality(Left') < BufferSize
    <3>1. old' = 0
      BY <1>1, <2>1
    <3> QED BY <2>2, <2>3, <3>1
  <2>5. Delivered'
    BY <1>1, <1>2, <1>4, <1>6, <2>1, <2>4 DEF Delivered, Taken
  <2>6. ~Sieving'
    BY <1>1, <1>6 DEF Sieving
  <2> QED BY <1>3, <2>5, <2>6 DEF Freshness, Sieve
<1> QED BY <1>5, <1>6

LEMMA FreshTune ==
  ASSUME Freshness, Tune
  PROVE  Freshness'
<1>1. /\ main = "tune" /\ main' \in {"reset scanner", "reset source"}
      /\ UNCHANGED <<filling, streaming, old>>
  BY DEF Tune, SetCenterFrequency, Goto, sourceVars
<1>2. ~Sieving' /\ ~Sieved'
  BY <1>1 DEF Sieving, Sieved
<1>3. Still'
  BY <1>1 DEF Freshness, Still
<1> QED BY <1>2, <1>3 DEF Freshness, Sieve, Delivered

LEMMA FreshSourceReset ==
  ASSUME IInv, Freshness, SourceReset
  PROVE  Freshness'
<1>1. /\ main = "reset source" /\ main' = "resetting" /\ pc = "out" /\ pc' = ResetStart
      /\ UNCHANGED <<tuned, filling, outgoing, streaming, acquired, current, consumed, old>>
  BY DEF SourceReset, EnterReset, Goto, driverVars
<1>2. ~Sieving' /\ pc' \notin Processing /\ (pc' = "out" => ~streaming)
  BY <1>1 DEF Sieving, ResetStart, Processing
<1>3. Still'
  BY <1>1, <1>2 DEF Freshness, Still
<1>4. Sieved' => ~streaming
  BY <1>1, <1>2 DEF Sieved
<1>5. ~streaming => ~acquired /\ outgoing = <<>> /\ filling = <<>> /\ old = 0
  BY <1>1 DEF IInv, Holding, Freshness, Still
<1>6. ~streaming => FreshAhead'
  <2>1. FreshAhead' <=> FreshAhead
    BY <1>1 DEF FreshAhead, Fresh, Stale
  <2>2. Len(outgoing) = 0 /\ DOMAIN filling = {} => FreshAhead
    BY DEF FreshAhead, Stale
  <2> QED BY <1>5, <2>1, <2>2
<1>7. ~streaming => old' + 0 < BufferSize
  <2>1. old' = old
    BY <1>1
  <2> QED BY <1>5, <2>1, SizesAssumption
<1>8. Delivered'
  BY <1>1, <1>4, <1>5, <1>6, <1>7 DEF Delivered
<1> QED BY <1>2, <1>3, <1>8 DEF Freshness, Sieve

LEMMA FreshClosed ==
  ASSUME Captured, Freshness, Closed
  PROVE  Freshness'
<1>1. /\ main = "close" /\ main' = "end" /\ acquired' = FALSE /\ filling' = <<>> /\ outgoing' = <<>>
      /\ old' = old
  BY DEF Closed, Close, Goto
<1>2. Sieved /\ ~Sieving'
  BY <1>1 DEF Sieved, Sieving
<1>3. Still'
  BY <1>1 DEF Freshness, Still
<1>4. FreshAhead'
  BY <1>1 DEF FreshAhead, Stale
<1>5. old' + 0 < BufferSize
  <2>1. old \in Nat /\ Cardinality(Left) \in Nat
    BY LeftFinite DEF Freshness, Still
  <2>2. old + (IF acquired THEN Cardinality(Left) ELSE 0) < BufferSize
    BY <1>2 DEF Freshness, Delivered
  <2> QED BY <1>1, <2>1, <2>2, SizesAssumption
<1>6. Delivered'
  BY <1>1, <1>4, <1>5 DEF Delivered
<1> QED BY <1>2, <1>3, <1>6 DEF Freshness, Sieve

LEMMA FreshKeeps ==
  ASSUME IInv, Captured, Room, Freshness, [Next]_vars
  PROVE  Freshness'
<1> USE DEF driverVars, sourceVars, mainVars
<1>1. CASE Driver
  BY <1>1, FreshCapture DEF Driver
<1>2. CASE SourceWorks
  <2>1. CASE state = "Running" /\ (\E room \in 1..(Capacity - Len(queue)) : EnterProcess(room)) /\ UNCHANGED mainVars
    <3>1. main # "resetting"
      BY <2>1 DEF IInv, Stage
    <3>2. /\ UNCHANGED <<tuned, filling, outgoing, acquired, current, consumed, old, main>>
          /\ streaming => streaming'
      BY <2>1 DEF EnterProcess, StartStreaming
    <3> QED BY <3>1, <3>2, FreshRests DEF Sieving, Sieved
  <2>2. CASE AcquireBuffer /\ UNCHANGED mainVars
    BY <2>2, FreshAcquire
  <2>3. CASE ReleaseBuffer /\ UNCHANGED mainVars
    BY <2>3, FreshRelease
  <2>4. CASE Copy /\ UNCHANGED mainVars
    BY <2>4, FreshCopy
  <2>5. CASE ReadClock /\ UNCHANGED mainVars
    BY <2>5, FreshReadClock
  <2>6. CASE Compare /\ UNCHANGED mainVars
    BY <2>6, FreshCompare
  <2>7. CASE LeaveProcess /\ UNCHANGED mainVars
    <3>1. pc = "done" /\ pc' = "out"
          /\ UNCHANGED <<tuned, filling, outgoing, acquired, current, consumed, old, streaming, main>>
      BY <2>7 DEF LeaveProcess
    <3>2. main # "resetting"
      BY <3>1 DEF Freshness, Still, Processing
    <3> QED BY <3>1, <3>2, FreshRests DEF Sieving, Sieved
  <2> QED BY <1>2, <2>1, <2>2, <2>3, <2>4, <2>5, <2>6, <2>7 DEF SourceWorks
<1>3. CASE ScannerEnters \/ ScannerWorks \/ Listen
  <2>1. UNCHANGED <<tuned, filling, outgoing, acquired, current, consumed, old, streaming, main, pc>>
    BY <1>3 DEF ScannerEnters, ScannerWorks, Listen
  <2> QED BY <2>1, FreshRests DEF Freshness, Still, Sieving, Sieved
<1>4. CASE Tune
  BY <1>4, FreshTune
<1>5. CASE SourceReset
  BY <1>5, FreshSourceReset
<1>6. CASE Closed
  BY <1>6, FreshClosed
<1>7. CASE \/ Start \/ Key \/ ScannerReset \/ ResetDone \/ Resume \/ Poll \/ Pause \/ Read \/ Stop
           \/ Joined \/ Select
  <2>1. /\ UNCHANGED <<tuned, filling, outgoing, acquired, current, consumed, old, pc>>
        /\ streaming => streaming'
    <3>1. CASE Start
      BY <3>1 DEF Start, StartStreaming
    <3>2. CASE Key
      BY <3>2 DEF Key
    <3>3. CASE ScannerReset \/ ResetDone \/ Resume \/ Poll \/ Pause \/ Stop
      <4>1. CASE ScannerReset
        BY <4>1 DEF ScannerReset
      <4>2. CASE ResetDone
        BY <4>2 DEF ResetDone
      <4>3. CASE Resume \/ Poll
        BY <4>3 DEF Resume, Poll
      <4>4. CASE Pause
        BY <4>4 DEF Pause
      <4>5. CASE Stop
        BY <4>5 DEF Stop
      <4> QED BY <3>3, <4>1, <4>2, <4>3, <4>4, <4>5
    <3>4. CASE Read \/ Joined \/ Select
      BY <3>4 DEF Read, Joined, Select
    <3> QED BY <1>7, <3>1, <3>2, <3>3, <3>4
  <2>2. /\ main' \notin {"resetting", "end", "reset scanner"}
        /\ main' # "reset source" => main # "reset scanner" /\ main # "reset source"
        /\ main # "end" /\ (main = "resetting" => pc = "out")
    BY <1>7 DEF Start, Key, ScannerReset, ResetDone, Resume, Poll, Pause, Read, Stop, Joined, Select, Goto,
                Quiet
  <2> QED BY <2>1, <2>2, FreshRests DEF Sieving, Sieved
<1>8. CASE UNCHANGED vars
  <2>1. UNCHANGED <<tuned, filling, outgoing, acquired, current, consumed, old, streaming, main, pc>>
    BY <1>8 DEF vars
  <2> QED BY <2>1, FreshRests DEF Freshness, Still, Sieving, Sieved
<1> QED BY <1>1, <1>2, <1>3, <1>4, <1>5, <1>6, <1>7, <1>8 DEF Next, Program

-----------------------------------------------------------------------------
(* All of it together: LevelIsWindow is inductive with the rest.           *)
SearchInv == Captured /\ Course /\ Room /\ Scanned /\ LevelIsWindow /\ Freshness

LEMMA SearchStarts == Init => SearchInv
<1> SUFFICES ASSUME Init PROVE SearchInv
  OBVIOUS
<1>1. /\ Changes \in Nat /\ Changes > 0 /\ Window \in Nat /\ Window > 0
      /\ BufferSize \in Nat /\ BufferSize > 0 /\ Suggested \in Nat /\ Suggested > 0
      /\ Capacity \in Nat /\ 0 \in Frequencies
  BY ScannerAssumption, SizesAssumption, FrequenciesType
<1>2. /\ tuned = 0 /\ filling = <<>> /\ outgoing = <<>> /\ streaming = FALSE /\ acquired = FALSE
      /\ consumed = 0 /\ pc = "out" /\ want = 0 /\ made = <<>> /\ old = 0
  BY DEF Init, SourceInit
<1>3. current.samples = <<>>
  <2>1. current \in [buffer : Buffers, samples : {<<>>}, before : {TRUE}]
    BY DEF Init, SourceInit
  <2> QED BY <2>1
<1>4. main \in {"tune", "start"} /\ program \in {"search", "live"}
  BY DEF Init
<1>5. /\ queue = <<>> /\ samples = 0 /\ level = NoLevel /\ history = [i \in 0..(Window - 1) |-> 0]
      /\ index = 0 /\ scanning = "out" /\ block = 0 /\ blocks = 0 /\ rest = Suggested - 1
  BY DEF Init, ScannerInit
<1>6. Captured
  BY <1>1, <1>2, <1>3 DEF Captured
<1>7. Course
  BY <1>1, <1>2, <1>4 DEF Course
<1>8. Room
  BY <1>1, <1>2, <1>5 DEF Room, Processing
<1>9. Scanned
  <2>1. history \in [0..(Window - 1) -> Frequencies] /\ level \in [Frequencies -> Int]
    BY <1>1, <1>5 DEF NoLevel
  <2>2. rest \in 0..(Suggested - 1) /\ samples \in 0..Window /\ index \in 0..(Window - 1)
    BY <1>1, <1>5
  <2> QED BY <1>5, <2>1, <2>2 DEF Scanned
<1>10. LevelIsWindow
  <2>1. \A f : {k \in 1..0 : history[(index - k) % Window] = f} = {}
    OBVIOUS
  <2>2. Sum(0) = [f \in Frequencies |-> 0]
    BY <2>1, FS_EmptySet DEF Sum
  <2> QED BY <1>5, <2>2 DEF LevelIsWindow, NoLevel
<1>11. Freshness
  <2>1. Still
    BY <1>1, <1>2, <1>4 DEF Still
  <2>2. ~Sieving
    BY <1>4 DEF Sieving
  <2>3. FreshAhead
    BY <1>2 DEF FreshAhead, Stale
  <2>4. Delivered
    BY <1>1, <1>2, <2>3 DEF Delivered
  <2> QED BY <2>1, <2>2, <2>4 DEF Freshness, Sieve
<1> QED BY <1>6, <1>7, <1>8, <1>9, <1>10, <1>11 DEF SearchInv

LEMMA SearchKeeps == IInv /\ SearchInv /\ [Next]_vars => SearchInv'
<1> SUFFICES ASSUME IInv, SearchInv, [Next]_vars PROVE SearchInv'
  OBVIOUS
<1>1. Captured /\ Course /\ Room /\ Scanned /\ LevelIsWindow /\ Freshness
  BY DEF SearchInv
<1>2. Captured' /\ Course' /\ Room'
  BY <1>1, CapturedKeeps, CourseKeeps, RoomKeeps
<1>3. Scanned' /\ LevelIsWindow' /\ Freshness'
  BY <1>1, <1>2, ScannedKeeps, LevelKeeps, FreshKeeps
<1> QED BY <1>2, <1>3 DEF SearchInv

LEMMA SearchInductive == Spec => [](IInv /\ SearchInv)
<1>1. Spec => []IInv
  BY Inductive
<1> QED BY <1>1, SearchStarts, SearchKeeps, PTL DEF Spec

\* What findStations, the source and the scanner keep is of its type: among
\* it, a buffer is never read past its end, what the source makes fits in the
\* room it was given, and samples_ and current_index_ stay in the window.
THEOREM TypeOKHolds == Spec => []TypeOK
<1>1. IInv /\ SearchInv => TypeOK
  <2> SUFFICES ASSUME IInv, SearchInv PROVE TypeOK
    OBVIOUS
  <2>1. Types /\ Stage /\ NoCheckFails /\ Captured /\ Room /\ Scanned
    BY DEF IInv, SearchInv
  <2>2. /\ program \in {"search", "live"} /\ main \in Places
        /\ state \in {"Stopped", "Running", "Paused"}
    <3>1. main \in Places /\ program \in {"search", "live"}
      BY <2>1 DEF Stage
    <3> QED BY <2>1, <3>1 DEF Stage, Places
  <2>3. Len(queue) + (IF pc = "out" THEN 0 ELSE Len(made)) <= Capacity
    <3>1. queue \in Seq(Frequencies) /\ made \in Seq(Frequencies) /\ Len(queue) <= Capacity
      BY <2>1 DEF Room
    <3>2. Len(queue) \in Nat /\ Len(made) \in Nat /\ Capacity \in Nat /\ want \in Nat
      BY <2>1, <3>1, ScannerAssumption DEF Room
    <3>3. CASE pc \in Processing
      <4>1. Len(made) <= want /\ Len(queue) + want <= Capacity /\ pc # "out"
        BY <2>1, <3>3 DEF Room, Processing
      <4> QED BY <3>2, <4>1
    <3>4. CASE pc \notin Processing
      <4>1. Len(made) = 0
        BY <2>1, <3>4 DEF Room
      <4> QED BY <3>1, <3>2, <4>1
    <3> QED BY <3>3, <3>4
  <2>4. checked \in BOOLEAN
    BY <2>1 DEF NoCheckFails
  <2>5. /\ tuned \in Frequencies /\ filling \in Seq(Frequencies) /\ Len(filling) < BufferSize
        /\ consumed \in 0..Len(current.samples)
    BY <2>1 DEF Captured
  <2>6. /\ incoming \in Seq(Buffers) /\ outgoing \in Seq(Filled) /\ current \in Filled
        /\ streaming \in BOOLEAN /\ acquired \in BOOLEAN /\ pc \in InSource \cup {"out"}
    BY <2>1 DEF Types
  <2>7. queue \in Seq(Frequencies) /\ made \in Seq(Frequencies)
    BY <2>1 DEF Room
  <2>8. /\ scanning \in {"out", "count", "add", "advance"} /\ rest \in 0..(Suggested - 1)
        /\ samples \in 0..Window /\ index \in 0..(Window - 1)
        /\ history \in [0..(Window - 1) -> Frequencies]
    BY <2>1 DEF Scanned
  <2> QED BY <2>2, <2>3, <2>4, <2>5, <2>6, <2>7, <2>8 DEF TypeOK
<1> QED BY <1>1, SearchInductive, PTL

\* However the scanner is reset between its slices, levels_ is the sum of the
\* values since then, at most a window of them, wherever process() stands.
THEOREM LevelIsWindowHolds == Spec => []LevelIsWindow
<1>1. IInv /\ SearchInv => LevelIsWindow
  BY DEF SearchInv
<1> QED BY <1>1, SearchInductive, PTL

\* findStations reads the levels without waiting for the scanner, and what it
\* reads is a full window or one value short of it.
THEOREM ReadingWholeHolds == Spec => []ReadingWhole
<1>1. IInv /\ SearchInv => ReadingWhole
  <2> SUFFICES ASSUME IInv, SearchInv, main = "read"
               PROVE  \E n \in {Window - 1, Window} : level = Sum(n)
    BY DEF ReadingWhole
  <2>1. samples = Window
    <3>1. program = "search"
      BY DEF SearchInv, Course
    <3> QED BY <3>1 DEF SearchInv, Course
  <2>2. level = Sum(IF scanning = "add" THEN samples - 1 ELSE samples)
    BY DEF SearchInv, LevelIsWindow
  <2> QED BY <2>1, <2>2
<1> QED BY <1>1, SearchInductive, PTL

\* From the end of source.reset() to the next change of the frequency, fewer
\* samples of the frequency before are delivered than a buffer has: however
\* many buffers were filled, or taken by process(), when it was changed.
THEOREM OldSamplesFewHolds == Spec => []OldSamplesFew
<1>1. IInv /\ SearchInv => OldSamplesFew
  <2>0. SUFFICES ASSUME IInv, SearchInv, main \notin {"reset scanner", "reset source", "resetting"}
               PROVE  old < BufferSize
    BY DEF OldSamplesFew
  <2>1. Sieved /\ Captured /\ Freshness
    BY <2>0 DEF SearchInv, Sieved
  <2>2. old \in Nat /\ Cardinality(Left) \in Nat
    BY <2>1, LeftFinite DEF Freshness, Still
  <2>3. old + (IF acquired THEN Cardinality(Left) ELSE 0) < BufferSize
    BY <2>1 DEF Freshness, Delivered
  <2> QED BY <2>2, <2>3, SizesAssumption
<1> QED BY <1>1, SearchInductive, PTL

-----------------------------------------------------------------------------
(* The selection of stations: it is defined for all ratios, as every       *)
(* candidate that leaves the queue leaves fewer there.                     *)
Ratios == [1..Channels -> 0..Strongest]

Positives(cs) == {c \in 1..Channels : cs[c] > 0}

Step(F, cs) ==
  IF Top(cs) = {} THEN {{}}
  ELSE UNION {{(IF Beats(cs, c) THEN {c} ELSE {}) \cup s : s \in F[Erased(cs, c)]} : c \in Top(cs)}

LEMMA PositivesFinite ==
  ASSUME NEW cs
  PROVE  /\ IsFiniteSet(Positives(cs)) /\ Cardinality(Positives(cs)) \in Nat
         /\ Cardinality(Positives(cs)) <= Channels
<1>1. Positives(cs) \subseteq 1..Channels /\ Channels \in Nat
  BY ChannelsAssumption DEF Positives
<1>2. IsFiniteSet(1..Channels) /\ Cardinality(1..Channels) = Channels
  <2>1. /\ IsFiniteSet(1..Channels)
        /\ Cardinality(1..Channels) = (IF 1 > Channels THEN 0 ELSE Channels - 1 + 1)
    BY <1>1, FS_Interval
  <2> QED BY <1>1, <2>1
<1> QED BY <1>1, <1>2, FS_Subset, FS_CardinalityType

LEMMA Erasing ==
  ASSUME NEW cs \in Ratios, NEW c \in 1..Channels
  PROVE  /\ Erased(cs, c) \in Ratios
         /\ \A d \in 1..Channels :
              Erased(cs, c)[d] = IF d = c \/ (Beats(cs, c) /\ d \in Neighbours(c)) THEN 0 ELSE cs[d]
<1>1. 0 \in 0..Strongest
  BY ChannelsAssumption
<1>2. \A d \in 1..Channels : cs[d] \in 0..Strongest
  BY DEF Ratios
<1> QED BY <1>1, <1>2 DEF Erased, Ratios

LEMMA FewerPositives ==
  ASSUME NEW cs \in Ratios, NEW c \in Top(cs)
  PROVE  /\ c \in 1..Channels /\ Erased(cs, c) \in Ratios
         /\ Cardinality(Positives(Erased(cs, c))) < Cardinality(Positives(cs))
<1> DEFINE e == Erased(cs, c)
<1>1. c \in 1..Channels /\ cs[c] > 0
  BY DEF Top
<1>2. /\ e \in Ratios /\ e[c] = 0
      /\ \A d \in 1..Channels : e[d] = 0 \/ e[d] = cs[d]
  BY <1>1, Erasing
<1> HIDE DEF e
<1>3. Positives(e) \subseteq Positives(cs) /\ c \in Positives(cs) /\ c \notin Positives(e)
  BY <1>1, <1>2 DEF Positives
<1>4. Cardinality(Positives(e)) < Cardinality(Positives(cs))
  <2>1. IsFiniteSet(Positives(cs)) /\ Cardinality(Positives(cs)) \in Nat
    BY PositivesFinite
  <2>2. Cardinality(Positives(e)) \in Nat
    BY PositivesFinite
  <2>3. /\ Cardinality(Positives(e)) <= Cardinality(Positives(cs))
        /\ Cardinality(Positives(e)) = Cardinality(Positives(cs)) => Positives(e) = Positives(cs)
    BY <1>3, <2>1, FS_Subset
  <2> QED BY <1>3, <2>1, <2>2, <2>3
<1> QED BY <1>1, <1>2, <1>4 DEF e

LEMMA SameStep ==
  ASSUME NEW cs \in Ratios, NEW F, NEW G, \A c \in Top(cs) : F[Erased(cs, c)] = G[Erased(cs, c)]
  PROVE  Step(F, cs) = Step(G, cs)
<1> DEFINE With(H, c) == {(IF Beats(cs, c) THEN {c} ELSE {}) \cup s : s \in H[Erased(cs, c)]}
<1>1. \A c \in Top(cs) : With(F, c) = With(G, c)
  OBVIOUS
<1>2. Step(F, cs) = (IF Top(cs) = {} THEN {{}} ELSE UNION {With(F, c) : c \in Top(cs)})
  BY DEF Step
<1>3. Step(G, cs) = (IF Top(cs) = {} THEN {{}} ELSE UNION {With(G, c) : c \in Top(cs)})
  BY DEF Step
<1> HIDE DEF With
<1>4. UNION {With(F, c) : c \in Top(cs)} = UNION {With(G, c) : c \in Top(cs)}
  BY <1>1
<1> QED BY <1>2, <1>3, <1>4

LEMMA SelectionsDefined ==
  \A cs \in Ratios : Selections[cs] = Step(Selections, cs)
<1> DEFINE Small(n) == {cs \in Ratios : Cardinality(Positives(cs)) < n}
           S == {n \in Nat : \E F : \A cs \in Small(n) : F[cs] = Step(F, cs)}
<1>1. 0 \in S
  <2>1. Small(0) = {}
    BY PositivesFinite
  <2> QED BY <2>1
<1>2. ASSUME NEW n \in Nat, n \in S PROVE n + 1 \in S
  <2>1. PICK F : \A cs \in Small(n) : F[cs] = Step(F, cs)
    BY <1>2
  <2> DEFINE G == [cs \in Ratios |-> IF cs \in Small(n) THEN F[cs] ELSE Step(F, cs)]
  <2>2. ASSUME NEW cs \in Small(n + 1) PROVE G[cs] = Step(G, cs)
    <3>1. cs \in Ratios /\ Cardinality(Positives(cs)) < n + 1 /\ Cardinality(Positives(cs)) \in Nat
      BY <2>2, PositivesFinite
    <3>2. ASSUME NEW c \in Top(cs) PROVE F[Erased(cs, c)] = G[Erased(cs, c)]
      <4>1. /\ Erased(cs, c) \in Ratios
            /\ Cardinality(Positives(Erased(cs, c))) < Cardinality(Positives(cs))
            /\ Cardinality(Positives(Erased(cs, c))) \in Nat
        BY <3>1, FewerPositives, PositivesFinite
      <4>2. Erased(cs, c) \in Small(n)
        BY <3>1, <4>1
      <4> QED BY <4>1, <4>2
    <3>3. Step(F, cs) = Step(G, cs)
      <4> HIDE DEF G
      <4> QED BY <3>1, <3>2, SameStep
    <3>4. G[cs] = Step(F, cs)
      BY <2>1, <3>1
    <3> QED BY <3>3, <3>4
  <2> HIDE DEF G, Small
  <2>3. \E H : \A cs \in Small(n + 1) : H[cs] = Step(H, cs)
    BY <2>2
  <2> QED BY <2>3
<1>3. Channels + 1 \in S
  <2>1. Channels + 1 \in Nat
    BY ChannelsAssumption
  <2> HIDE DEF S
  <2>2. Nat \subseteq S
    BY <1>1, <1>2, Induction
  <2> QED BY <2>1, <2>2
<1>4. PICK F : \A cs \in Small(Channels + 1) : F[cs] = Step(F, cs)
  BY <1>3
<1>5. Small(Channels + 1) = Ratios
  <2>1. \A cs \in Ratios : Cardinality(Positives(cs)) < Channels + 1
    BY PositivesFinite, ChannelsAssumption
  <2> QED BY <2>1
<1> HIDE DEF Small
<1> DEFINE G == [cs \in Ratios |-> Step(F, cs)]
<1>6. G = [cs \in Ratios |-> Step(G, cs)]
  <2>1. ASSUME NEW cs \in Ratios PROVE Step(F, cs) = Step(G, cs)
    <3>1. \A c \in Top(cs) : Erased(cs, c) \in Ratios
      BY FewerPositives
    <3>2. \A c \in Top(cs) : F[Erased(cs, c)] = G[Erased(cs, c)]
      BY <1>4, <1>5, <3>1
    <3> HIDE DEF G
    <3> QED BY <3>2, SameStep
  <2> QED BY <2>1
<1> HIDE DEF G
<1>7. Selections = CHOOSE g : g = [cs \in Ratios |-> Step(g, cs)]
  BY DEF Selections, Ratios, Step
<1>8. Selections = [cs \in Ratios |-> Step(Selections, cs)]
  BY <1>6, <1>7
<1> QED BY <1>8

-----------------------------------------------------------------------------
(* What is selected from some ratios.                                      *)
ClimbsIn(cs, c, s) ==
  \A d \in (IF c < s THEN c..(s - 1) ELSE (s + 1)..c) :
    cs[d] > 0 /\ cs[d] <= cs[IF c < s THEN d + 1 ELSE d - 1]

Apart(s) == \A t \in s : Neighbours(t) \cap s = {}

Selected(cs, s) ==
  /\ s \subseteq Positives(cs)
  /\ Apart(s)
  /\ \A c \in Positives(cs) : \E t \in s : ClimbsIn(cs, c, t)

(* One candidate after the other: what gets to a station once a candidate  *)
(* has been erased gets there with it, and so does the candidate.          *)
LEMMA ErasedClimbs ==
  ASSUME NEW cs \in Ratios, NEW e \in Ratios,
         \A d \in 1..Channels : e[d] = 0 \/ e[d] = cs[d],
         NEW c \in 1..Channels, NEW t \in 1..Channels, ClimbsIn(e, c, t)
  PROVE  ClimbsIn(cs, c, t)
<1>1. /\ \A d \in 1..Channels : cs[d] \in Nat /\ e[d] \in Nat
      /\ Channels \in Nat
  BY ChannelsAssumption DEF Ratios
<1>2. CASE c < t
  <2>1. ASSUME NEW d \in c..(t - 1) PROVE cs[d] > 0 /\ cs[d] <= cs[d + 1]
    <3>1. e[d] > 0 /\ e[d] <= e[d + 1]
      BY <1>2 DEF ClimbsIn
    <3>2. d \in 1..Channels /\ d + 1 \in 1..Channels
      BY <1>1, <1>2
    <3> QED BY <1>1, <3>1, <3>2
  <2> QED BY <1>2, <2>1 DEF ClimbsIn
<1>3. CASE ~(c < t)
  <2>1. ASSUME NEW d \in (t + 1)..c PROVE cs[d] > 0 /\ cs[d] <= cs[d - 1]
    <3>1. e[d] > 0 /\ e[d] <= e[d - 1]
      BY <1>3 DEF ClimbsIn
    <3>2. d \in 1..Channels /\ d - 1 \in 1..Channels
      BY <1>1, <1>3
    <3> QED BY <1>1, <3>1, <3>2
  <2> QED BY <1>3, <2>1 DEF ClimbsIn
<1> QED BY <1>2, <1>3

LEMMA SelectedStep ==
  ASSUME NEW cs \in Ratios, NEW c \in Top(cs), NEW s, Selected(Erased(cs, c), s)
  PROVE  Selected(cs, (IF Beats(cs, c) THEN {c} ELSE {}) \cup s)
<1> DEFINE e == Erased(cs, c)
           u == (IF Beats(cs, c) THEN {c} ELSE {}) \cup s
<1>1. c \in 1..Channels /\ cs[c] > 0 /\ \A d \in 1..Channels : cs[d] <= cs[c]
  BY DEF Top
<1>2. /\ e \in Ratios
      /\ \A d \in 1..Channels :
           e[d] = IF d = c \/ (Beats(cs, c) /\ d \in Neighbours(c)) THEN 0 ELSE cs[d]
  BY <1>1, Erasing
<1>3. /\ \A d \in 1..Channels : cs[d] \in Nat /\ e[d] \in Nat
      /\ Channels \in Nat
  BY <1>2, ChannelsAssumption DEF Ratios
<1>4. Selected(e, s)
  OBVIOUS
<1> HIDE DEF e
<1>5. \A d \in 1..Channels : e[d] = 0 \/ e[d] = cs[d]
  BY <1>2
<1>6. \A d \in s : d \in 1..Channels /\ e[d] > 0 /\ d # c
  BY <1>1, <1>2, <1>4 DEF Selected, Positives
<1>7. u \subseteq Positives(cs)
  <2>1. \A d \in s : d \in Positives(cs)
    BY <1>3, <1>5, <1>6 DEF Positives
  <2>2. c \in Positives(cs)
    BY <1>1 DEF Positives
  <2> QED BY <2>1, <2>2
<1>8. Apart(u)
  <2>1. CASE Beats(cs, c)
    <3>1. ASSUME NEW t \in s PROVE t \notin Neighbours(c) /\ c \notin Neighbours(t)
      <4>1. t \notin Neighbours(c)
        BY <1>2, <1>3, <1>6, <2>1
      <4>2. c \in Neighbours(t) => t \in Neighbours(c)
        BY <1>1, <1>6 DEF Neighbours
      <4> QED BY <4>1, <4>2
    <3>2. c \notin Neighbours(c)
      BY <1>1 DEF Neighbours
    <3>3. \A t \in s : Neighbours(t) \cap s = {}
      BY <1>4 DEF Selected, Apart
    <3> QED BY <2>1, <3>1, <3>2, <3>3 DEF Apart
  <2>2. CASE ~Beats(cs, c)
    BY <1>4, <2>2 DEF Selected
  <2> QED BY <2>1, <2>2
<1>9. ASSUME NEW d \in 1..Channels, e[d] > 0
      PROVE  \E t \in s : ClimbsIn(e, d, t) /\ ClimbsIn(cs, d, t)
  <2>1. PICK t \in s : ClimbsIn(e, d, t)
    BY <1>4, <1>9 DEF Selected, Positives
  <2> QED BY <1>2, <1>5, <1>6, <2>1, ErasedClimbs
<1>10. ASSUME NEW d \in Positives(cs) PROVE \E t \in u : ClimbsIn(cs, d, t)
  <2>1. d \in 1..Channels /\ cs[d] > 0
    BY DEF Positives
  <2>2. CASE e[d] > 0
    BY <1>9, <2>1, <2>2
  <2>3. CASE ~(e[d] > 0) /\ Beats(cs, c)
    <3>1. d = c \/ d = c - 1 \/ d = c + 1
      BY <1>2, <2>1, <2>3 DEF Neighbours
    <3>2. ClimbsIn(cs, d, c)
      <4>1. CASE d = c
        <5>1. ~(d < c) /\ (c + 1)..d = {}
          BY <1>1, <4>1
        <5> QED BY <5>1 DEF ClimbsIn
      <4>2. CASE d = c - 1
        <5>1. d < c /\ d..(c - 1) = {d} /\ d + 1 = c
          BY <1>1, <4>2
        <5> QED BY <1>1, <2>1, <5>1 DEF ClimbsIn
      <4>3. CASE d = c + 1
        <5>1. ~(d < c) /\ (c + 1)..d = {d} /\ d - 1 = c
          BY <1>1, <4>3
        <5> QED BY <1>1, <2>1, <5>1 DEF ClimbsIn
      <4> QED BY <3>1, <4>1, <4>2, <4>3
    <3> QED BY <2>3, <3>2
  <2>4. CASE ~(e[d] > 0) /\ ~Beats(cs, c)
    <3>1. d = c
      BY <1>2, <2>1, <2>4
    <3>2. PICK n \in Neighbours(c) : ~(cs[n] < cs[c])
      BY <2>4 DEF Beats
    <3>3. n \in 1..Channels /\ (n = c + 1 \/ n = c - 1)
      BY <3>2 DEF Neighbours
    <3>4. cs[n] = cs[c] /\ e[n] = cs[n] /\ e[n] > 0
      <4>1. cs[n] = cs[c]
        BY <1>1, <1>3, <3>2, <3>3
      <4>2. n # c
        BY <1>1, <3>3
      <4> QED BY <1>1, <1>2, <2>4, <3>3, <4>1, <4>2
    <3>5. PICK t \in s : ClimbsIn(e, n, t) /\ ClimbsIn(cs, n, t)
      BY <1>9, <3>3, <3>4
    <3>6. t \in 1..Channels /\ t # c /\ e[c] = 0
      BY <1>1, <1>2, <1>6
    <3>7. CASE n = c + 1
      <4>1. ~(t < c)
        <5>1. SUFFICES ASSUME t < c PROVE FALSE
          OBVIOUS
        <5>2. ~(n < t) /\ c \in (t + 1)..n
          BY <1>1, <3>6, <3>7, <5>1
        <5>3. e[c] > 0
          BY <3>5, <5>2 DEF ClimbsIn
        <5> QED BY <3>6, <5>3
      <4>2. c < t /\ n <= t
        BY <1>1, <3>6, <3>7, <4>1
      <4>3. ASSUME NEW x \in c..(t - 1) PROVE cs[x] > 0 /\ cs[x] <= cs[x + 1]
        <5>1. CASE x = c
          BY <1>1, <1>3, <3>4, <3>7, <5>1
        <5>2. CASE x # c
          <6>1. n < t /\ x \in n..(t - 1)
            BY <1>1, <3>6, <3>7, <4>2, <5>2
          <6> QED BY <3>5, <6>1 DEF ClimbsIn
        <5> QED BY <5>1, <5>2
      <4>4. ClimbsIn(cs, c, t)
        BY <4>2, <4>3 DEF ClimbsIn
      <4> QED BY <3>1, <4>4
    <3>8. CASE n = c - 1
      <4>1. ~(c < t)
        <5>1. SUFFICES ASSUME c < t PROVE FALSE
          OBVIOUS
        <5>2. n < t /\ c \in n..(t - 1)
          BY <1>1, <3>6, <3>8, <5>1
        <5>3. e[c] > 0
          BY <3>5, <5>2 DEF ClimbsIn
        <5> QED BY <3>6, <5>3
      <4>2. t < c /\ t <= n
        BY <1>1, <3>6, <3>8, <4>1
      <4>3. ASSUME NEW x \in (t + 1)..c PROVE cs[x] > 0 /\ cs[x] <= cs[x - 1]
        <5>1. CASE x = c
          BY <1>1, <1>3, <3>4, <3>8, <5>1
        <5>2. CASE x # c
          <6>1. ~(n < t) /\ x \in (t + 1)..n
            BY <1>1, <3>6, <3>8, <4>2, <5>2
          <6> QED BY <3>5, <6>1 DEF ClimbsIn
        <5> QED BY <5>1, <5>2
      <4>4. ClimbsIn(cs, c, t)
        BY <4>1, <4>3 DEF ClimbsIn
      <4> QED BY <3>1, <4>4
    <3> QED BY <3>3, <3>7, <3>8
  <2> QED BY <2>2, <2>3, <2>4
<1> QED BY <1>7, <1>8, <1>10 DEF Selected

(* Without a strongest candidate there is none.                            *)
LEMMA NoTop ==
  ASSUME NEW cs \in Ratios, Top(cs) = {}
  PROVE  Positives(cs) = {}
<1> DEFINE T == {v \in 0..Strongest : \E c \in 1..Channels : cs[c] > 0 /\ Strongest - cs[c] = v}
<1>1. SUFFICES ASSUME Positives(cs) # {} PROVE FALSE
  OBVIOUS
<1>2. \A c \in 1..Channels : cs[c] \in 0..Strongest
  BY DEF Ratios
<1>3. Strongest \in Nat
  BY ChannelsAssumption
<1>4. T # {} /\ T \subseteq Nat
  <2>1. PICK c \in 1..Channels : cs[c] > 0
    BY <1>1 DEF Positives
  <2>2. Strongest - cs[c] \in 0..Strongest
    BY <1>2, <1>3
  <2> QED BY <2>1, <2>2
<1>5. PICK v \in T : \A w \in T : v <= w
  <2> HIDE DEF T
  <2> QED BY <1>4, LeastMember
<1>6. PICK c \in 1..Channels : cs[c] > 0 /\ Strongest - cs[c] = v
  OBVIOUS
<1>7. ASSUME NEW d \in 1..Channels PROVE cs[d] <= cs[c]
  <2>1. CASE cs[d] > 0
    <3>1. Strongest - cs[d] \in T
      BY <1>2, <1>3, <2>1
    <3>2. v <= Strongest - cs[d]
      BY <1>5, <3>1
    <3> QED BY <1>2, <1>3, <1>6, <3>2
  <2>2. CASE ~(cs[d] > 0)
    BY <1>2, <1>6, <2>2
  <2> QED BY <2>1, <2>2
<1>8. c \in Top(cs)
  BY <1>6, <1>7 DEF Top
<1> QED BY <1>8

LEMMA SelectionsSelected ==
  \A cs \in Ratios : \A s \in Selections[cs] : Selected(cs, s)
<1> DEFINE S == {n \in Nat : \A cs \in Ratios :
                   Cardinality(Positives(cs)) < n => \A s \in Selections[cs] : Selected(cs, s)}
<1>1. 0 \in S
  <2>1. \A cs : ~(Cardinality(Positives(cs)) < 0)
    BY PositivesFinite
  <2> QED BY <2>1
<1>2. ASSUME NEW n \in Nat, n \in S PROVE n + 1 \in S
  <2>1. ASSUME NEW cs \in Ratios, Cardinality(Positives(cs)) < n + 1, NEW s \in Selections[cs]
        PROVE  Selected(cs, s)
    <3>1. s \in Step(Selections, cs)
      BY SelectionsDefined
    <3>2. CASE Top(cs) = {}
      <4>1. s = {}
        BY <3>1, <3>2 DEF Step
      <4>2. Positives(cs) = {}
        BY <3>2, NoTop
      <4> QED BY <4>1, <4>2 DEF Selected, Apart
    <3>3. CASE Top(cs) # {}
      <4>1. PICK c \in Top(cs) : \E r \in Selections[Erased(cs, c)] :
                                   s = (IF Beats(cs, c) THEN {c} ELSE {}) \cup r
        BY <3>1, <3>3 DEF Step
      <4>2. PICK r \in Selections[Erased(cs, c)] : s = (IF Beats(cs, c) THEN {c} ELSE {}) \cup r
        BY <4>1
      <4>3. /\ Erased(cs, c) \in Ratios
            /\ Cardinality(Positives(Erased(cs, c))) < Cardinality(Positives(cs))
            /\ Cardinality(Positives(Erased(cs, c))) \in Nat /\ Cardinality(Positives(cs)) \in Nat
        BY FewerPositives, PositivesFinite
      <4>4. Cardinality(Positives(Erased(cs, c))) < n
        BY <2>1, <4>3
      <4>5. Selected(Erased(cs, c), r)
        BY <1>2, <4>2, <4>3, <4>4
      <4> QED BY <4>2, <4>5, SelectedStep
    <3> QED BY <3>2, <3>3
  <2> QED BY <2>1
<1>3. Channels + 1 \in S
  <2>1. Channels + 1 \in Nat
    BY ChannelsAssumption
  <2> HIDE DEF S
  <2>2. Nat \subseteq S
    BY <1>1, <1>2, Induction
  <2> QED BY <2>1, <2>2
<1>4. \A cs \in Ratios : Cardinality(Positives(cs)) < Channels + 1
  BY PositivesFinite, ChannelsAssumption
<1> QED BY <1>3, <1>4

-----------------------------------------------------------------------------
(* Nothing is selected before the end; listening never selects.            *)
Picked ==
  /\ main \notin {"close", "end"} => candidates = NoCandidates /\ stations = {}
  /\ main \in {"close", "end"} => candidates \in Ratios /\ Selected(candidates, stations)

LEMMA NonePicked == NoCandidates \in Ratios /\ Selected(NoCandidates, {})
<1>1. 0 \in 0..Strongest /\ ~(0 > 0)
  BY ChannelsAssumption
<1> QED BY <1>1 DEF NoCandidates, Ratios, Selected, Apart, Positives

LEMMA PickedKeeps == Picked /\ [Next]_vars => Picked'
<1> SUFFICES ASSUME Picked, [Next]_vars PROVE Picked'
  OBVIOUS
<1>0. ASSUME UNCHANGED <<candidates, stations>>, main \in {"close", "end"} <=> main' \in {"close", "end"}
      PROVE  Picked'
  <2>1. candidates \in Ratios /\ Selected(candidates, stations)
          => candidates' \in Ratios /\ Selected(candidates', stations')
    BY <1>0
  <2> QED BY <1>0, <2>1 DEF Picked, NoCandidates
<1>1. CASE Driver \/ SourceWorks \/ ScannerEnters \/ ScannerWorks \/ Listen \/ UNCHANGED vars
  <2>1. UNCHANGED <<main, candidates, stations>>
    BY <1>1 DEF Driver, SourceWorks, ScannerEnters, ScannerWorks, Listen, vars, mainVars
  <2> QED BY <1>0, <2>1
<1>2. CASE \/ Start \/ Key \/ Tune \/ ScannerReset \/ SourceReset \/ ResetDone \/ Resume \/ Poll
           \/ Pause \/ Read \/ Stop
  <2>1. UNCHANGED <<candidates, stations>>
    BY <1>2 DEF Start, Key, Tune, ScannerReset, SourceReset, ResetDone, Resume, Poll, Pause, Read, Stop,
                Goto, mainVars
  <2>2. main \notin {"close", "end"} /\ main' \notin {"close", "end"}
    BY <1>2 DEF Start, Key, Tune, ScannerReset, SourceReset, ResetDone, Resume, Poll, Pause, Read, Stop, Goto
  <2> QED BY <1>0, <2>1, <2>2
<1>3. CASE Joined
  <2>1. main = "join" /\ main' \in {"select", "close"} /\ UNCHANGED <<candidates, stations>>
    BY <1>3 DEF Joined, Goto
  <2>2. candidates' = NoCandidates /\ stations' = {}
    BY <2>1 DEF Picked
  <2>3. candidates' \in Ratios /\ Selected(candidates', stations')
    BY <2>2, NonePicked
  <2> QED BY <2>1, <2>2, <2>3 DEF Picked, NoCandidates
<1>4. CASE Select
  <2>1. candidates' \in Ratios /\ stations' \in Selections[candidates'] /\ main' = "close"
    BY <1>4 DEF Select, Ratios
  <2>2. Selected(candidates', stations')
    BY <2>1, SelectionsSelected
  <2> QED BY <2>1, <2>2 DEF Picked
<1>5. CASE Closed
  <2>1. UNCHANGED <<candidates, stations>> /\ main = "close" /\ main' = "end"
    BY <1>5 DEF Closed, Goto
  <2> QED BY <1>0, <2>1
<1> QED BY <1>1, <1>2, <1>3, <1>4, <1>5 DEF Next, Program

\* However many candidates are as strong as their neighbours, and in whatever
\* order the queue of findStations hands them out: no two stations are next to
\* each other, and every candidate is on the slope of one.
THEOREM EveryPeakOnceHolds == Spec => []EveryPeakOnce
<1>1. Init => Picked
  BY DEF Init, Picked
<1>2. Picked => EveryPeakOnce
  <2> SUFFICES ASSUME Picked, main \in {"close", "end"}
               PROVE  /\ \A s \in stations : Neighbours(s) \cap stations = {}
                      /\ \A c \in 1..Channels :
                           candidates[c] > 0 => \E s \in stations : Climbs(c, s)
    BY DEF EveryPeakOnce
  <2>1. Selected(candidates, stations)
    BY DEF Picked
  <2>2. \A c, s : ClimbsIn(candidates, c, s) => Climbs(c, s)
    BY DEF ClimbsIn, Climbs
  <2> QED BY <2>1, <2>2 DEF Selected, Apart, Positives
<1> QED BY <1>1, <1>2, PickedKeeps, PTL DEF Spec
=============================================================================
