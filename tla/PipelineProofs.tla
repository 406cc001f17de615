--------------------------- MODULE PipelineProofs ---------------------------
(***************************************************************************)
(* What holds of the pipeline for every graph of blocks, every number of   *)
(* workers and every capacity of the buffers, as long as reset() is only   *)
(* called when all workers are at rest.                                    *)
(***************************************************************************)
EXTENDS Pipeline, Inductions, SequenceTheorems

(***************************************************************************)
(* Types.  The counters of the pool are left to the section that counts.   *)
(***************************************************************************)
Types ==
  /\ state \in {"Stopped", "Paused", "Running"}
  /\ queue \in Seq(Blocks)
  /\ relaxed_mode \in BOOLEAN
  /\ block_state \in [Blocks -> {"Idle", "Scheduling", "Scheduled", "Running"}]
  /\ filled \in [Edges -> Int]
  /\ eof \in [Blocks -> BOOLEAN]
  /\ pc \in [Actors -> Places \cup MainPlaces]
  /\ \A t \in Threads : pc[t] \in Places
  /\ pc[Main] \in MainPlaces
  /\ current \in [Threads -> Blocks \cup {NoBlock}]
  /\ \A t \in Threads : pc[t] \in {"Start"} \cup InFilter => current[t] \in Blocks
  /\ amount \in [Threads -> Nat]
  /\ todo \in [Actors -> SUBSET Blocks]
  /\ claimed \in [Actors -> Blocks \cup {NoBlock}]
  /\ verdict \in [Actors -> {"unknown", "yes", "no"}]
  /\ \A t \in Actors : (claimed[t] = NoBlock) => verdict[t] = "unknown"
  /\ \A t \in Threads : pc[t] \in AtRest \cup {"Start", "Process"} => ~Trying(t)

LEMMA InitTypes == Init => Types
<1> SUFFICES ASSUME Init PROVE Types
  OBVIOUS
<1>1. Cardinality(Sources) \in Nat
  BY FS_Subset, FS_CardinalityType, GraphAssumption DEF Sources
<1>2. queue \in Seq(Blocks)
  <2>1. queue \in Orders(Sources)
    BY DEF Init
  <2>2. queue \in [1 .. Cardinality(Sources) -> Sources]
    BY <2>1 DEF Orders
  <2>3. queue \in Seq(Sources)
    BY <1>1, <2>2, SeqDef
  <2> QED
    BY <2>3, SeqMonotonic DEF Sources
<1>3. state \in {"Stopped", "Paused", "Running"}
  BY DEF Init
<1>4. relaxed_mode \in BOOLEAN
  BY DEF Init
<1>5. block_state \in [Blocks -> {"Idle", "Scheduling", "Scheduled", "Running"}]
  BY DEF Init
<1>6. filled \in [Edges -> Int]
  BY DEF Init
<1>7. eof \in [Blocks -> BOOLEAN]
  BY DEF Init
<1>8. current \in [Threads -> Blocks \cup {NoBlock}] /\ amount \in [Threads -> Nat]
  BY DEF Init
<1>9. todo \in [Actors -> SUBSET Blocks]
  BY DEF Init
<1>10. claimed \in [Actors -> Blocks \cup {NoBlock}]
  BY DEF Init
<1>11. verdict \in [Actors -> {"unknown", "yes", "no"}]
  BY DEF Init
<1>12. /\ pc \in [Actors -> Places \cup MainPlaces]
       /\ \A t \in Threads : pc[t] = "Top"
       /\ pc[Main] = "Control"
  BY GraphAssumption DEF Init, Places, MainPlaces, Actors
<1>13. \A t \in Actors : ~Trying(t) /\ verdict[t] = "unknown"
  BY DEF Init, Trying
<1> QED
  BY <1>2, <1>3, <1>4, <1>5, <1>6, <1>7, <1>8, <1>9, <1>10, <1>11, <1>12, <1>13
  DEF Types, Places, MainPlaces, AtRest, InFilter, Actors

LEMMA TypesStep == Types /\ [Next]_vars => Types'
<1> SUFFICES ASSUME Types, [Next]_vars PROVE Types'
  OBVIOUS
<1> USE GraphAssumption, BoundsAssumption
<1> USE DEF pool, modes, data, trying, control, Actors
<1>1. ASSUME NEW t \in Actors, NEW b \in Blocks, Claim(t, b) PROVE Types'
  BY <1>1 DEF Types, Places, MainPlaces, AtRest, InFilter, Trying, Claim
<1>2. ASSUME NEW t \in Actors, NEW b \in Blocks, Skip(t, b) PROVE Types'
  BY <1>2 DEF Types, Places, MainPlaces, AtRest, InFilter, Trying, Skip
<1>3. ASSUME NEW t \in Actors, Evaluate(t) PROVE Types'
  BY <1>3 DEF Types, Places, MainPlaces, AtRest, InFilter, Trying, Evaluate
<1>4. ASSUME NEW t \in Actors, Commit(t) PROVE Types'
  BY <1>4 DEF Types, Places, MainPlaces, AtRest, InFilter, Trying, Commit
<1>5. ASSUME NEW t \in Threads, Exit(t) PROVE Types'
  BY <1>5 DEF Types, Places, MainPlaces, AtRest, InFilter, Trying, At, Go, Exit
<1>6. ASSUME NEW t \in Threads, EnterRelaxedMode(t) PROVE Types'
  BY <1>6 DEF Types, Places, MainPlaces, AtRest, InFilter, Trying, At, Go, TryThen, EnterRelaxedMode
<1>7. ASSUME NEW t \in Threads, BeginFinish(t) PROVE Types'
  BY <1>7 DEF Types, Places, MainPlaces, AtRest, InFilter, Trying, At, Go, TryThen, BeginFinish
<1>8. ASSUME NEW t \in Threads, Sleep(t) PROVE Types'
  BY <1>8 DEF Types, Places, MainPlaces, AtRest, InFilter, Trying, At, Go, Sleep
<1>9. ASSUME NEW t \in Threads, Take(t) PROVE Types'
  <2>1. queue # <<>>
    BY <1>9 DEF Take, Ready
  <2>2. Head(queue) \in Blocks /\ Tail(queue) \in Seq(Blocks)
    BY <2>1, HeadTailProperties DEF Types
  <2>3. current' = current \/ current' = [current EXCEPT ![t] = Head(queue)]
    BY <1>9 DEF Take, PauseOrTake, TakeTask
  <2>4. current' \in [Threads -> Blocks \cup {NoBlock}]
    BY <2>2, <2>3 DEF Types
  <2>5. pc' \in [Actors -> Places \cup MainPlaces]
    <3>1. \/ pc' = [pc EXCEPT ![t] = "Pausing"]
          \/ pc' = [pc EXCEPT ![t] = "Start"]
      BY <1>9 DEF Take, PauseOrTake, TakeTask
    <3>2. {"Pausing", "Start"} \subseteq Places
      BY DEF Places, AtRest
    <3>3. pc \in [Actors -> Places \cup MainPlaces]
      BY DEF Types
    <3> QED
      BY <3>1, <3>2, <3>3
  <2>10. pc'[Main] = pc[Main]
    BY <1>9 DEF Types, Take, PauseOrTake, TakeTask, Asleep
  <2>6. \A u \in Threads : pc'[u] \in Places
    BY <1>9 DEF Types, Take, PauseOrTake, TakeTask, Places, AtRest
  <2>7. \A u \in Threads : pc'[u] \in {"Start"} \cup InFilter => current'[u] \in Blocks
    BY <1>9, <2>2 DEF Types, Take, PauseOrTake, TakeTask, InFilter
  <2>8. \A u \in Threads : pc'[u] \in AtRest \cup {"Start", "Process"} => ~Trying(u)'
    BY <1>9 DEF Types, Take, PauseOrTake, TakeTask, At, Trying, AtRest
  <2>9. queue' \in Seq(Blocks)
    BY <1>9, <2>2 DEF Types, Take, PauseOrTake, TakeTask
  <2> QED
    BY <1>9, <2>4, <2>5, <2>6, <2>7, <2>8, <2>9, <2>10 DEF Types, Take
<1>10. ASSUME NEW t \in Threads, TakeAndNotify(t) PROVE Types'
  <2>1. queue # <<>>
    BY <1>10 DEF TakeAndNotify, Ready
  <2>2. Head(queue) \in Blocks /\ Tail(queue) \in Seq(Blocks)
    BY <2>1, HeadTailProperties DEF Types
  <2>3. current' = current \/ current' = [current EXCEPT ![t] = Head(queue)]
    BY <1>10 DEF TakeAndNotify, PauseOrTake, TakeTask
  <2>4. current' \in [Threads -> Blocks \cup {NoBlock}]
    BY <2>2, <2>3 DEF Types
  <2>5. pc' \in [Actors -> Places \cup MainPlaces]
    <3>1. {"Woken", "PauseWoken", "Pausing", "Start"} \subseteq Places
      BY DEF Places, AtRest
    <3> DEFINE To(places) == PauseOrTake(t, threads_running - 1, places)
    <3>2. CASE To(pc)
      BY <3>1, <3>2 DEF Types, PauseOrTake, TakeTask
    <3>3. ASSUME NEW u \in Threads, To([pc EXCEPT ![u] = Woken(pc[u])])
          PROVE  pc' \in [Actors -> Places \cup MainPlaces]
      <4>1. [pc EXCEPT ![u] = Woken(pc[u])] \in [Actors -> Places \cup MainPlaces]
        BY <3>1 DEF Types, Woken
      <4> QED
        BY <3>1, <3>3, <4>1 DEF PauseOrTake, TakeTask
    <3> QED
      BY <1>10, <3>2, <3>3 DEF TakeAndNotify, Asleep
  <2>10. pc'[Main] = pc[Main]
    BY <1>10 DEF Types, TakeAndNotify, PauseOrTake, TakeTask, Asleep
  <2>6. \A u \in Threads : pc'[u] \in Places
    BY <1>10 DEF Types, TakeAndNotify, PauseOrTake, TakeTask, Places, AtRest, Asleep, Woken
  <2>7. \A u \in Threads : pc'[u] \in {"Start"} \cup InFilter => current'[u] \in Blocks
    BY <1>10, <2>2 DEF Types, TakeAndNotify, PauseOrTake, TakeTask, InFilter, Asleep, Woken
  <2>8. \A u \in Threads : pc'[u] \in AtRest \cup {"Start", "Process"} => ~Trying(u)'
    BY <1>10 DEF Types, TakeAndNotify, PauseOrTake, TakeTask, At, Trying, AtRest, Asleep, Woken
  <2>9. queue' \in Seq(Blocks)
    BY <1>10, <2>2 DEF Types, TakeAndNotify, PauseOrTake, TakeTask
  <2> QED
    BY <1>10, <2>4, <2>5, <2>6, <2>7, <2>8, <2>9, <2>10 DEF Types, TakeAndNotify
<1>11. ASSUME NEW t \in Threads, WakeInVain(t) PROVE Types'
  BY <1>11
  DEF Types, Places, MainPlaces, AtRest, InFilter, Trying, At, Go, Woken, ConsumeWakeup,
      WakeInVain
<1>12. ASSUME NEW t \in Threads, WakeToExit(t) PROVE Types'
  BY <1>12
  DEF Types, Places, MainPlaces, AtRest, InFilter, Trying, At, Go, Woken, ConsumeWakeup,
      WakeToExit
<1>13. ASSUME NEW t \in Threads, WakeToTake(t) PROVE Types'
  <2>1. queue # <<>>
    BY <1>13 DEF WakeToTake, Ready
  <2>2. Head(queue) \in Blocks /\ Tail(queue) \in Seq(Blocks)
    BY <2>1, HeadTailProperties DEF Types
  <2>3. current' = current \/ current' = [current EXCEPT ![t] = Head(queue)]
    BY <1>13 DEF WakeToTake, PauseOrTake, TakeTask
  <2>4. current' \in [Threads -> Blocks \cup {NoBlock}]
    BY <2>2, <2>3 DEF Types
  <2>5. pc' \in [Actors -> Places \cup MainPlaces]
    <3>1. \/ pc' = [pc EXCEPT ![t] = "Pausing"]
          \/ pc' = [pc EXCEPT ![t] = "Start"]
      BY <1>13 DEF WakeToTake, PauseOrTake, TakeTask
    <3>2. {"Pausing", "Start"} \subseteq Places
      BY DEF Places, AtRest
    <3>3. pc \in [Actors -> Places \cup MainPlaces]
      BY DEF Types
    <3> QED
      BY <3>1, <3>2, <3>3
  <2>10. pc'[Main] = pc[Main]
    BY <1>13 DEF Types, WakeToTake, PauseOrTake, TakeTask, Asleep
  <2>6. \A u \in Threads : pc'[u] \in Places
    BY <1>13 DEF Types, WakeToTake, PauseOrTake, TakeTask, Places, AtRest
  <2>7. \A u \in Threads : pc'[u] \in {"Start"} \cup InFilter => current'[u] \in Blocks
    BY <1>13, <2>2 DEF Types, WakeToTake, PauseOrTake, TakeTask, InFilter
  <2>8. \A u \in Threads : pc'[u] \in AtRest \cup {"Start", "Process"} => ~Trying(u)'
    BY <1>13 DEF Types, WakeToTake, PauseOrTake, TakeTask, At, Trying, AtRest
  <2>9. queue' \in Seq(Blocks)
    BY <1>13, <2>2 DEF Types, WakeToTake, PauseOrTake, TakeTask
  <2> QED
    BY <1>13, <2>4, <2>5, <2>6, <2>7, <2>8, <2>9, <2>10 DEF Types, WakeToTake
<1>14. ASSUME NEW t \in Threads, WakeFromPause(t) PROVE Types'
  <2>1. \/ pc' = [pc EXCEPT ![t] = "Pausing"]
        \/ pc' = [pc EXCEPT ![t] = "Top"]
    BY <1>14 DEF WakeFromPause, Go
  <2>2. pc' \in [Actors -> Places \cup MainPlaces]
    <3>1. {"Pausing", "Top"} \subseteq Places
      BY DEF Places, AtRest
    <3>2. pc \in [Actors -> Places \cup MainPlaces]
      BY DEF Types
    <3> QED
      BY <2>1, <3>1, <3>2
  <2>3. pc'[Main] = pc[Main] /\ \A u \in Threads : pc'[u] \in {pc[u], "Pausing", "Top"}
    BY <2>1 DEF Types
  <2>4. ~Trying(t) /\ \A u \in Threads \ {t} : pc'[u] = pc[u]
    BY <1>14, <2>1 DEF Types, WakeFromPause, At
  <2>5. UNCHANGED <<state, queue, modes, block_state, data, current, amount, trying>>
    BY <1>14 DEF WakeFromPause
  <2>6. \A u \in Threads : pc'[u] \in Places
    BY <2>3 DEF Types, Places, AtRest
  <2>7. \A u \in Threads : pc'[u] \in {"Start"} \cup InFilter => current'[u] \in Blocks
    BY <2>3, <2>5 DEF Types, InFilter
  <2>8. \A u \in Threads : pc'[u] \in AtRest \cup {"Start", "Process"} => ~Trying(u)'
    BY <2>4, <2>5 DEF Types, Trying
  <2> QED
    BY <2>2, <2>3, <2>5, <2>6, <2>7, <2>8 DEF Types
<1>15. ASSUME NEW t \in Threads, SpuriousWakeup(t) PROVE Types'
  BY <1>15
  DEF Types, Places, MainPlaces, AtRest, InFilter, Trying, Go, Woken, Asleep, SpuriousWakeup
<1>16. ASSUME NEW t \in Threads, Relaxed(t) PROVE Types'
  BY <1>16 DEF Types, Places, MainPlaces, AtRest, InFilter, Trying, At, Go, Relaxed
<1>17. ASSUME NEW t \in Threads, Finish(t) PROVE Types'
  BY <1>17
  DEF Types, Places, MainPlaces, AtRest, InFilter, Trying, At, Check, Broadcast, NotifyAll, Woken,
      Asleep, Finish
<1>18. ASSUME NEW t \in Threads, Start(t) PROVE Types'
  BY <1>18 DEF Types, Places, MainPlaces, AtRest, InFilter, Trying, At, Check, Go, Start
<1>19. ASSUME NEW t \in Threads, NEW n \in 1 .. Capacity, Process(t, n) PROVE Types'
  <2> n \in Nat
    BY BoundsAssumption
  <2>1. filled' \in [Edges -> Int]
    <3>1. filled' = [e \in Edges |-> IF e \in Inputs(current[t]) THEN filled[e] - n ELSE filled[e]]
      BY <1>19 DEF Process
    <3> QED
      BY <3>1 DEF Types
  <2>2. Upstream(current[t]) \subseteq Blocks
    BY DEF Upstream, Inputs
  <2>3. amount' \in [Threads -> Nat]
    <3>1. amount' = [amount EXCEPT ![t] = n]
      BY <1>19 DEF Process
    <3> QED
      BY <3>1 DEF Types
  <2>4. todo' \in [Actors -> SUBSET Blocks]
    BY <1>19, <2>2 DEF Process, Types, TryThen
  <2> QED
    BY <1>19, <2>1, <2>3, <2>4
    DEF Types, Places, MainPlaces, AtRest, InFilter, Trying, At, Check, Go, TryThen, Process
<1>20. ASSUME NEW t \in Threads, ProcessEof(t) PROVE Types'
  BY <1>20 DEF Types, Places, MainPlaces, AtRest, InFilter, Trying, At, Go, ProcessEof
<1>21. ASSUME NEW t \in Threads, Throw(t) PROVE Types'
  <2>1. \/ pc' = [pc EXCEPT ![t] = "Exited"]
        \/ pc' = NotifyAll([pc EXCEPT ![t] = "Exited"])
    BY <1>21 DEF Throw, Broadcast
  <2>2. state' \in {state, "Stopped"}
    BY <1>21 DEF Throw, Broadcast
  <2>3. pc' \in [Actors -> Places \cup MainPlaces]
    BY <2>1 DEF Types, NotifyAll, Asleep, Woken, Places, AtRest
  <2>5. pc'[Main] = pc[Main]
    BY <2>1 DEF Types, NotifyAll, Asleep
  <2>4. \A u \in Threads :
          /\ pc'[u] \in Places
          /\ pc'[u] \in {"Start"} \cup InFilter => current[u] \in Blocks
          /\ pc'[u] \in AtRest \cup {"Start", "Process"} => ~Trying(u)
    BY <1>21, <2>1 DEF Types, Throw, At, NotifyAll, Asleep, Woken, Places, AtRest, InFilter
  <2> QED
    BY <1>21, <2>2, <2>3, <2>4, <2>5 DEF Types, Throw, Trying
<1>22. ASSUME NEW t \in Threads, Provide(t) PROVE Types'
  <2>1. filled' \in [Edges -> Int]
    BY <1>22 DEF Provide, Types
  <2>2. Downstream(current[t]) \subseteq Blocks
    BY DEF Downstream, Outputs
  <2>3. todo' \in [Actors -> SUBSET Blocks]
    BY <1>22, <2>2 DEF Provide, Types, TryThen
  <2> QED
    BY <1>22, <2>1, <2>3
    DEF Types, Places, MainPlaces, AtRest, InFilter, Trying, At, Go, TryThen, Provide
<1>23. ASSUME NEW t \in Threads, Done(t) PROVE Types'
  BY <1>23 DEF Types, Places, MainPlaces, AtRest, InFilter, Trying, At, Go, TryThen, Done
<1>24. ASSUME Pause PROVE Types'
  BY <1>24
  DEF Types, Places, MainPlaces, AtRest, InFilter, Trying, At, Check, Broadcast, NotifyAll, Woken,
      Asleep, Pause
<1>25. ASSUME Reset PROVE Types'
  <2>1. queue' = <<>> /\ filled' = [e \in Edges |-> 0]
    BY <1>25 DEF Reset
  <2>2. queue' \in Seq(Blocks) /\ filled' \in [Edges -> Int]
    BY <2>1
  <2> QED
    BY <1>25, <2>1, <2>2
    DEF Types, Places, MainPlaces, AtRest, InFilter, Trying, At, Check, Go, TryThen, Reset
<1>26. ASSUME Resume PROVE Types'
  BY <1>26
  DEF Types, Places, MainPlaces, AtRest, InFilter, Trying, At, Broadcast, NotifyAll, Woken, Asleep,
      Resume
<1>27. ASSUME Stop PROVE Types'
  BY <1>27
  DEF Types, Places, MainPlaces, AtRest, InFilter, Trying, At, Check, Broadcast, NotifyAll, Woken,
      Asleep, Stop
<1>28. ASSUME Wait PROVE Types'
  BY <1>28 DEF Types, Places, MainPlaces, AtRest, InFilter, Trying, At, Go, Wait
<1>29. ASSUME Finalize PROVE Types'
  BY <1>29 DEF Types, Places, MainPlaces, AtRest, InFilter, Trying, At, Check, Go, Finalize
<1>30. CASE UNCHANGED vars
  BY <1>30 DEF Types, Trying, vars
<1> QED
  BY <1>1, <1>2, <1>3, <1>4, <1>5, <1>6, <1>7, <1>8, <1>9, <1>10, <1>11, <1>12, <1>13, <1>14,
     <1>15, <1>16, <1>17, <1>18, <1>19, <1>20, <1>21, <1>22, <1>23, <1>24, <1>25, <1>26, <1>27,
     <1>28, <1>29, <1>30
  DEF Next, Worker, Controller, TrySchedulingBlock, Terminated
-----------------------------------------------------------------------------
(***************************************************************************)
(* Sequences without repetition.                                           *)
(***************************************************************************)
Contents(q) == {q[i] : i \in DOMAIN q}

Distinct(q) == \A i, j \in DOMAIN q : q[i] = q[j] => i = j

LEMMA AppendContents ==
  ASSUME NEW S, NEW q \in Seq(S), NEW b \in S, b \notin Contents(q), Distinct(q)
  PROVE  Contents(Append(q, b)) = Contents(q) \cup {b} /\ Distinct(Append(q, b))
<1>1. /\ Len(q) \in Nat /\ DOMAIN q = 1 .. Len(q)
      /\ DOMAIN Append(q, b) = 1 .. Len(q) + 1
      /\ \A i \in 1 .. Len(q) : Append(q, b)[i] = q[i]
      /\ Append(q, b)[Len(q) + 1] = b
  OBVIOUS
<1>2. Contents(Append(q, b)) = Contents(q) \cup {b}
  BY <1>1 DEF Contents
<1>3. Distinct(Append(q, b))
  BY <1>1 DEF Contents, Distinct
<1> QED
  BY <1>2, <1>3

LEMMA TailContents ==
  ASSUME NEW S, NEW q \in Seq(S), q # <<>>, Distinct(q)
  PROVE  /\ Head(q) \in Contents(q)
         /\ Contents(Tail(q)) = Contents(q) \ {Head(q)}
         /\ Distinct(Tail(q))
<1>1. /\ Len(q) \in Nat \ {0} /\ DOMAIN q = 1 .. Len(q)
      /\ DOMAIN Tail(q) = 1 .. Len(q) - 1
      /\ \A i \in 1 .. Len(q) - 1 : Tail(q)[i] = q[i + 1]
      /\ Head(q) = q[1]
  BY HeadTailProperties
<1>2. Head(q) \in Contents(q)
  BY <1>1 DEF Contents
<1>3. Contents(Tail(q)) = Contents(q) \ {Head(q)}
  <2>1. ASSUME NEW x \in Contents(Tail(q)) PROVE x \in Contents(q) \ {Head(q)}
    BY <1>1 DEF Contents, Distinct
  <2>2. ASSUME NEW x \in Contents(q), x # Head(q) PROVE x \in Contents(Tail(q))
    <3>1. PICK i \in 1 .. Len(q) : x = q[i]
      BY <1>1 DEF Contents
    <3>2. i - 1 \in 1 .. Len(q) - 1 /\ Tail(q)[i - 1] = x
      BY <1>1, <2>2, <3>1
    <3> QED
      BY <1>1, <3>2 DEF Contents
  <2> QED
    BY <2>1, <2>2
<1>4. Distinct(Tail(q))
  BY <1>1 DEF Distinct
<1> QED
  BY <1>2, <1>3, <1>4
-----------------------------------------------------------------------------
(***************************************************************************)
(* Ownership: the state of a block says who owns it, and there is one      *)
(* owner.  OneOwner counts owners of all kinds; this is its inductive      *)
(* form, one conjunct for each kind.                                       *)
(***************************************************************************)
Holds(t) == pc[t] \in {"Start"} \cup InFilter

Ownership ==
  /\ Distinct(queue)
  /\ \A b \in Contents(queue) : block_state[b] = "Scheduled"
  /\ \A t \in Threads : pc[t] = "Start" =>
       block_state[current[t]] = "Scheduled" /\ current[t] \notin Contents(queue)
  /\ \A t \in Threads : pc[t] \in InFilter => block_state[current[t]] = "Running"
  /\ \A t, u \in Threads : Holds(t) /\ Holds(u) /\ current[t] = current[u] => t = u
  /\ \A t \in Actors : claimed[t] # NoBlock => block_state[claimed[t]] = "Scheduling"
  /\ \A t, u \in Actors : claimed[t] # NoBlock /\ claimed[t] = claimed[u] => t = u
  /\ \A b \in Blocks : block_state[b] = "Scheduling" => \E t \in Actors : claimed[t] = b
  /\ \A b \in Blocks : block_state[b] = "Scheduled" =>
       b \in Contents(queue) \/ \E t \in Threads : pc[t] = "Start" /\ current[t] = b
  /\ \A b \in Blocks : block_state[b] = "Running" =>
       \E t \in Threads : pc[t] \in InFilter /\ current[t] = b

LEMMA InitOwnership == Init => Ownership
<1> SUFFICES ASSUME Init PROVE Ownership
  OBVIOUS
<1>1. queue \in Orders(Sources)
  BY DEF Init
<1>2. Contents(queue) = Sources /\ Distinct(queue)
  BY <1>1 DEF Orders, Contents, Distinct
<1>3. block_state = [b \in Blocks |-> IF b \in Sources THEN "Scheduled" ELSE "Idle"]
  BY DEF Init
<1>4. \A t \in Threads : pc[t] = "Top"
  BY GraphAssumption DEF Init, Actors
<1>5. \A t \in Actors : claimed[t] = NoBlock
  BY DEF Init
<1> QED
  BY <1>2, <1>3, <1>4, <1>5 DEF Ownership, Holds, InFilter, Sources

LEMMA QueuedBlocks == Types => Contents(queue) \subseteq Blocks
BY ElementOfSeq DEF Types, Contents

(* A step that moves no block from one owner to another.                   *)
LEMMA SameOwners ==
  ASSUME Ownership,
         UNCHANGED <<block_state, queue, current, claimed>>,
         \A t \in Threads : \/ pc'[t] = pc[t]
                            \/ {pc[t], pc'[t]} \subseteq InFilter
                            \/ {pc[t], pc'[t]} \cap ({"Start"} \cup InFilter) = {}
  PROVE  Ownership'
<1>1. \A t \in Threads : /\ pc'[t] = "Start" <=> pc[t] = "Start"
                         /\ pc'[t] \in InFilter <=> pc[t] \in InFilter
                         /\ Holds(t)' <=> Holds(t)
  BY DEF Holds, InFilter
<1> QED
  BY <1>1 DEF Ownership

(* The head of the queue passes to a worker that owns no block, while      *)
(* another worker may be woken, ...                                        *)
LEMMA TakenFromQueue ==
  ASSUME Types, Ownership, NEW t \in Threads, ~Holds(t), queue # <<>>,
         NEW places,
         \A u \in Threads : places[u] = pc[u] \/ (pc[u] \in AtRest /\ places[u] \in AtRest),
         DOMAIN places = Actors,
         PauseOrTake(t, threads_running, places) \/ PauseOrTake(t, threads_running - 1, places),
         UNCHANGED <<block_state, claimed>>
  PROVE  Ownership'
<1>1. CASE UNCHANGED <<queue, current>> /\ pc' = [places EXCEPT ![t] = "Pausing"]
  BY <1>1, SameOwners DEF Holds, AtRest, InFilter, Actors
<1>2. CASE TakeTask(t, places)
  <2>1. /\ Head(queue) \in Contents(queue)
        /\ Contents(queue') = Contents(queue) \ {Head(queue)}
        /\ Distinct(queue')
    BY <1>2, TailContents DEF TakeTask, Types, Ownership
  <2>2. /\ current'[t] = Head(queue) /\ pc'[t] = "Start"
        /\ \A u \in Threads \ {t} : current'[u] = current[u]
    BY <1>2 DEF TakeTask, Types, Actors
  <2>3. \A u \in Threads \ {t} : /\ pc'[u] = "Start" <=> pc[u] = "Start"
                                 /\ pc'[u] \in InFilter <=> pc[u] \in InFilter
    BY <1>2 DEF TakeTask, AtRest, InFilter
  <2> QED
    BY <2>1, <2>2, <2>3 DEF Ownership, Holds, InFilter
<1> QED
  BY <1>1, <1>2 DEF PauseOrTake

LEMMA OwnershipStep ==
  ASSUME Types, Ownership, [Next]_vars, "reset" \notin Script
  PROVE  Ownership'
<1> USE GraphAssumption
<1> USE DEF pool, modes, data, trying, control
<1>1. ASSUME NEW t \in Actors, NEW b \in Blocks, Claim(t, b) PROVE Ownership'
  BY <1>1 DEF Claim, Types, Ownership, Holds, InFilter, Actors
<1>2. ASSUME NEW t \in Actors, NEW b \in Blocks, Skip(t, b) PROVE Ownership'
  BY <1>2, SameOwners DEF Skip, Types, Actors, InFilter
<1>3. ASSUME NEW t \in Actors, Evaluate(t) PROVE Ownership'
  BY <1>3, SameOwners DEF Evaluate, Types, Actors, InFilter
<1>4. ASSUME NEW t \in Actors, Commit(t) PROVE Ownership'
  <2> DEFINE b == claimed[t]
  <2>1. b \in Blocks /\ block_state[b] = "Scheduling" /\ b \notin Contents(queue)
    BY <1>4 DEF Commit, Types, Ownership
  <2>2. /\ claimed' = [claimed EXCEPT ![t] = NoBlock]
        /\ UNCHANGED <<pc, current>>
    BY <1>4 DEF Commit
  <2>3. CASE verdict[t] = "yes"
    <3>1. Contents(queue') = Contents(queue) \cup {b} /\ Distinct(queue')
      BY <1>4, <2>1, <2>3, AppendContents DEF Commit, Types, Ownership
    <3>2. block_state' = [block_state EXCEPT ![b] = "Scheduled"]
      BY <1>4, <2>3 DEF Commit
    <3> HIDE DEF b
    <3> QED
      BY <2>1, <2>2, <3>1, <3>2 DEF Types, Ownership, Holds, InFilter, Actors, b
  <2>4. CASE verdict[t] # "yes"
    <3>1. block_state' = [block_state EXCEPT ![b] = "Idle"] /\ queue' = queue
      BY <1>4, <2>4 DEF Commit
    <3> QED
      BY <2>1, <2>2, <3>1 DEF Types, Ownership, Holds, InFilter, Actors
  <2> QED
    BY <2>3, <2>4
<1>5. ASSUME NEW t \in Threads, Exit(t) PROVE Ownership'
  BY <1>5, SameOwners DEF Exit, Types, Actors, InFilter, At, Go
<1>6. ASSUME NEW t \in Threads, EnterRelaxedMode(t) PROVE Ownership'
  BY <1>6, SameOwners DEF EnterRelaxedMode, Types, Actors, InFilter, At, TryThen, Go
<1>7. ASSUME NEW t \in Threads, BeginFinish(t) PROVE Ownership'
  BY <1>7, SameOwners DEF BeginFinish, Types, Actors, InFilter, At, TryThen, Go
<1>8. ASSUME NEW t \in Threads, Sleep(t) PROVE Ownership'
  BY <1>8, SameOwners DEF Sleep, Types, Actors, InFilter, At, Go
<1>9. ASSUME NEW t \in Threads, Take(t) PROVE Ownership'
  <2>1. ~Holds(t) /\ DOMAIN pc = Actors
    BY <1>9 DEF Take, At, Holds, InFilter, Types
  <2> QED
    BY <1>9, <2>1, TakenFromQueue DEF Take
<1>10. ASSUME NEW t \in Threads, TakeAndNotify(t) PROVE Ownership'
  <2>1. ~Holds(t) /\ DOMAIN pc = Actors
    BY <1>10 DEF TakeAndNotify, At, Holds, InFilter, Types
  <2>2. CASE PauseOrTake(t, threads_running - 1, pc)
    BY <1>10, <2>1, <2>2, TakenFromQueue DEF TakeAndNotify
  <2>3. ASSUME NEW u \in Asleep, PauseOrTake(t, threads_running - 1, [pc EXCEPT ![u] = Woken(pc[u])])
        PROVE  Ownership'
    <3> DEFINE places == [pc EXCEPT ![u] = Woken(pc[u])]
    <3>1. DOMAIN places = Actors
      BY <2>1
    <3>2. \A v \in Threads : places[v] = pc[v] \/ (pc[v] \in AtRest /\ places[v] \in AtRest)
      BY DEF Asleep, Woken, AtRest, Types
    <3> HIDE DEF places
    <3> QED
      BY <1>10, <2>1, <2>3, <3>1, <3>2, TakenFromQueue DEF TakeAndNotify, places
  <2> QED
    BY <1>10, <2>2, <2>3 DEF TakeAndNotify
<1>11. ASSUME NEW t \in Threads, WakeInVain(t) PROVE Ownership'
  BY <1>11, SameOwners DEF WakeInVain, Types, Actors, InFilter, At, Go
<1>12. ASSUME NEW t \in Threads, WakeToExit(t) PROVE Ownership'
  BY <1>12, SameOwners DEF WakeToExit, Types, Actors, InFilter, At, Go
<1>13. ASSUME NEW t \in Threads, WakeToTake(t) PROVE Ownership'
  <2>1. ~Holds(t) /\ DOMAIN pc = Actors /\ queue # <<>>
    BY <1>13 DEF WakeToTake, At, Ready, Holds, InFilter, Types
  <2> QED
    BY <1>13, <2>1, TakenFromQueue DEF WakeToTake
<1>14. ASSUME NEW t \in Threads, WakeFromPause(t) PROVE Ownership'
  BY <1>14, SameOwners DEF WakeFromPause, Types, Actors, InFilter, At, Go
<1>15. ASSUME NEW t \in Threads, SpuriousWakeup(t) PROVE Ownership'
  BY <1>15, SameOwners DEF SpuriousWakeup, Types, Actors, InFilter, Go, Asleep, Woken
<1>16. ASSUME NEW t \in Threads, Relaxed(t) PROVE Ownership'
  BY <1>16, SameOwners DEF Relaxed, Types, Actors, InFilter, At, Go
<1>17. ASSUME NEW t \in Threads, Finish(t) PROVE Ownership'
  BY <1>17, SameOwners DEF Finish, Types, Actors, InFilter, At, Broadcast, NotifyAll, Asleep, Woken
<1>18. ASSUME NEW t \in Threads, Start(t) PROVE Ownership'
  <2>1. /\ current[t] \in Blocks /\ Holds(t)
        /\ pc'[t] = "Process" /\ \A u \in Threads \ {t} : pc'[u] = pc[u]
    BY <1>18 DEF Start, At, Go, Holds, InFilter, Types, Actors
  <2>2. /\ pc[t] = "Start" /\ block_state'[current[t]] = "Running"
        /\ \A b \in Blocks \ {current[t]} : block_state'[b] = block_state[b]
        /\ UNCHANGED <<queue, current, claimed>>
    BY <1>18, <2>1 DEF Start, At, Types
  <2>3. Distinct(queue') /\ \A b \in Contents(queue') : block_state'[b] = "Scheduled"
    BY QueuedBlocks, <2>1, <2>2 DEF Types, Ownership, Holds, InFilter, Actors
  <2>4. \A u \in Threads :
          /\ pc'[u] = "Start" => /\ block_state'[current'[u]] = "Scheduled"
                                /\ current'[u] \notin Contents(queue')
          /\ pc'[u] \in InFilter => block_state'[current'[u]] = "Running"
    BY <2>1, <2>2 DEF Types, Ownership, Holds, InFilter, Actors
  <2>5. \A u, v \in Threads : Holds(u)' /\ Holds(v)' /\ current'[u] = current'[v] => u = v
    BY <2>1, <2>2 DEF Types, Ownership, Holds, InFilter, Actors
  <2>6. /\ \A u \in Actors : claimed'[u] # NoBlock => block_state'[claimed'[u]] = "Scheduling"
        /\ \A u, v \in Actors : claimed'[u] # NoBlock /\ claimed'[u] = claimed'[v] => u = v
    BY <2>1, <2>2 DEF Types, Ownership, Holds, InFilter, Actors
  <2>7. \A b \in Blocks : block_state'[b] = "Scheduling" => \E u \in Actors : claimed'[u] = b
    BY <2>1, <2>2 DEF Types, Ownership, Holds, InFilter, Actors
  <2>8. ASSUME NEW b \in Blocks, block_state'[b] = "Scheduled"
        PROVE  b \in Contents(queue') \/ \E u \in Threads : pc'[u] = "Start" /\ current'[u] = b
    <3>1. b # current[t] /\ block_state[b] = "Scheduled"
      BY <2>8, <2>1, <2>2 DEF Types
    <3>2. CASE b \in Contents(queue)
      BY <2>1, <2>2, <3>2
    <3>3. ASSUME NEW u \in Threads, pc[u] = "Start", current[u] = b
          PROVE  pc'[u] = "Start" /\ current'[u] = b
      BY <2>1, <2>2, <3>1, <3>3
    <3> QED
      BY <3>1, <3>2, <3>3 DEF Ownership
  <2>9. ASSUME NEW b \in Blocks, block_state'[b] = "Running"
        PROVE  \E u \in Threads : pc'[u] \in InFilter /\ current'[u] = b
    <3>1. CASE b # current[t]
      <4>1. PICK u \in Threads : pc[u] \in InFilter /\ current[u] = b
        BY <2>9, <2>1, <2>2, <3>1 DEF Ownership
      <4> QED
        BY <2>1, <2>2, <3>1, <4>1
    <3>2. CASE b = current[t]
      BY <2>9, <2>1, <2>2, <3>2 DEF Types, InFilter
    <3> QED
      BY <3>1, <3>2
  <2> QED
    BY <2>3, <2>4, <2>5, <2>6, <2>7, <2>8, <2>9 DEF Ownership
<1>19. ASSUME NEW t \in Threads, NEW n \in 1 .. Capacity, Process(t, n) PROVE Ownership'
  BY <1>19, SameOwners DEF Process, Types, Actors, InFilter, At, TryThen, Go
<1>20. ASSUME NEW t \in Threads, ProcessEof(t) PROVE Ownership'
  BY <1>20, SameOwners DEF ProcessEof, Types, Actors, InFilter, At, Go
<1>21. ASSUME NEW t \in Threads, Throw(t) PROVE Ownership'
  <2>1. /\ current[t] \in Blocks /\ Holds(t) /\ pc[t] = "Process"
        /\ pc'[t] = "Exited"
    BY <1>21 DEF Throw, At, Broadcast, NotifyAll, Asleep, Holds, InFilter, Types, Actors
  <2>2. \A u \in Threads \ {t} :
          pc'[u] = pc[u] \/ (pc[u] \in AtRest /\ pc'[u] \in AtRest)
    BY <1>21 DEF Throw, Broadcast, NotifyAll, Asleep, Woken, AtRest, Types, Actors
  <2>3. \A u \in Threads \ {t} : /\ pc'[u] = "Start" <=> pc[u] = "Start"
                                 /\ pc'[u] \in InFilter <=> pc[u] \in InFilter
    BY <2>2 DEF AtRest, InFilter
  <2>10. /\ block_state'[current[t]] = "Idle"
         /\ \A b \in Blocks \ {current[t]} : block_state'[b] = block_state[b]
         /\ UNCHANGED <<queue, current, claimed>>
    BY <1>21, <2>1 DEF Throw, Types
  <2>4. Distinct(queue') /\ \A b \in Contents(queue') : block_state'[b] = "Scheduled"
    BY QueuedBlocks, <2>1, <2>3, <2>10 DEF Types, Ownership, Holds, InFilter, Actors
  <2>5. \A u \in Threads :
          /\ pc'[u] = "Start" => /\ block_state'[current'[u]] = "Scheduled"
                                /\ current'[u] \notin Contents(queue')
          /\ pc'[u] \in InFilter => block_state'[current'[u]] = "Running"
    <3>1. \A u \in Threads \ {t} : Holds(u) => current[u] \in Blocks \ {current[t]}
      BY <2>1 DEF Types, Ownership, Holds
    <3>2. pc'[t] \notin {"Start"} \cup InFilter
      BY <2>1 DEF InFilter
    <3> QED
      BY <2>3, <2>10, <3>1, <3>2 DEF Ownership, Holds
  <2>6. \A u, v \in Threads : Holds(u)' /\ Holds(v)' /\ current'[u] = current'[v] => u = v
    BY <2>1, <2>3, <2>10 DEF Types, Ownership, Holds, InFilter, Actors
  <2>7. /\ \A u \in Actors : claimed'[u] # NoBlock => block_state'[claimed'[u]] = "Scheduling"
        /\ \A u, v \in Actors : claimed'[u] # NoBlock /\ claimed'[u] = claimed'[v] => u = v
    BY <2>1, <2>3, <2>10 DEF Types, Ownership, Holds, InFilter, Actors
  <2>8. \A b \in Blocks : block_state'[b] = "Scheduling" => \E u \in Actors : claimed'[u] = b
    BY <2>1, <2>3, <2>10 DEF Types, Ownership, Holds, InFilter, Actors
  <2>9. ASSUME NEW b \in Blocks, block_state'[b] = "Scheduled"
        PROVE  b \in Contents(queue') \/ \E u \in Threads : pc'[u] = "Start" /\ current'[u] = b
    <3>1. b # current[t] /\ block_state[b] = "Scheduled"
      BY <2>9, <2>1, <2>3, <2>10 DEF Types
    <3>2. CASE b \in Contents(queue)
      BY <2>1, <2>3, <2>10, <3>2
    <3>3. ASSUME NEW u \in Threads, pc[u] = "Start", current[u] = b
          PROVE  pc'[u] = "Start" /\ current'[u] = b
      BY <2>1, <2>3, <2>10, <3>1, <3>3
    <3> QED
      BY <3>1, <3>2, <3>3 DEF Ownership
  <2>11. ASSUME NEW b \in Blocks, block_state'[b] = "Running"
        PROVE  \E u \in Threads : pc'[u] \in InFilter /\ current'[u] = b
    <3>1. CASE b # current[t]
      <4>1. PICK u \in Threads : pc[u] \in InFilter /\ current[u] = b
        BY <2>11, <2>1, <2>3, <2>10, <3>1 DEF Ownership
      <4> QED
        BY <2>1, <2>3, <2>10, <3>1, <4>1
    <3>2. CASE b = current[t]
      BY <2>11, <2>1, <2>3, <2>10, <3>2 DEF Types, InFilter
    <3> QED
      BY <3>1, <3>2
  <2> QED
    BY <2>4, <2>5, <2>6, <2>7, <2>8, <2>9, <2>11 DEF Ownership
<1>22. ASSUME NEW t \in Threads, Provide(t) PROVE Ownership'
  BY <1>22, SameOwners DEF Provide, Types, Actors, InFilter, At, TryThen, Go
<1>23. ASSUME NEW t \in Threads, Done(t) PROVE Ownership'
  <2>1. /\ current[t] \in Blocks /\ Holds(t) /\ pc[t] = "Provided"
        /\ pc'[t] = "Top" /\ \A u \in Threads \ {t} : pc'[u] = pc[u]
    BY <1>23 DEF Done, At, TryThen, Go, Holds, InFilter, Types, Actors
  <2>2. /\ block_state'[current[t]] = "Idle" /\ current'[t] = NoBlock
        /\ \A b \in Blocks \ {current[t]} : block_state'[b] = block_state[b]
        /\ \A u \in Threads \ {t} : current'[u] = current[u]
        /\ UNCHANGED <<queue, claimed>>
    BY <1>23, <2>1 DEF Done, TryThen, Types
  <2>3. Distinct(queue') /\ \A b \in Contents(queue') : block_state'[b] = "Scheduled"
    BY QueuedBlocks, <2>1, <2>2 DEF Types, Ownership, Holds, InFilter, Actors
  <2>4. \A u \in Threads :
          /\ pc'[u] = "Start" => /\ block_state'[current'[u]] = "Scheduled"
                                /\ current'[u] \notin Contents(queue')
          /\ pc'[u] \in InFilter => block_state'[current'[u]] = "Running"
    BY <2>1, <2>2 DEF Types, Ownership, Holds, InFilter, Actors
  <2>5. \A u, v \in Threads : Holds(u)' /\ Holds(v)' /\ current'[u] = current'[v] => u = v
    BY <2>1, <2>2 DEF Types, Ownership, Holds, InFilter, Actors
  <2>6. /\ \A u \in Actors : claimed'[u] # NoBlock => block_state'[claimed'[u]] = "Scheduling"
        /\ \A u, v \in Actors : claimed'[u] # NoBlock /\ claimed'[u] = claimed'[v] => u = v
    BY <2>1, <2>2 DEF Types, Ownership, Holds, InFilter, Actors
  <2>7. \A b \in Blocks : block_state'[b] = "Scheduling" => \E u \in Actors : claimed'[u] = b
    BY <2>1, <2>2 DEF Types, Ownership, Holds, InFilter, Actors
  <2>8. ASSUME NEW b \in Blocks, block_state'[b] = "Scheduled"
        PROVE  b \in Contents(queue') \/ \E u \in Threads : pc'[u] = "Start" /\ current'[u] = b
    <3>1. b # current[t] /\ block_state[b] = "Scheduled"
      BY <2>8, <2>1, <2>2 DEF Types
    <3>2. CASE b \in Contents(queue)
      BY <2>1, <2>2, <3>2
    <3>3. ASSUME NEW u \in Threads, pc[u] = "Start", current[u] = b
          PROVE  pc'[u] = "Start" /\ current'[u] = b
      BY <2>1, <2>2, <3>1, <3>3
    <3> QED
      BY <3>1, <3>2, <3>3 DEF Ownership
  <2>9. ASSUME NEW b \in Blocks, block_state'[b] = "Running"
        PROVE  \E u \in Threads : pc'[u] \in InFilter /\ current'[u] = b
    <3>1. CASE b # current[t]
      <4>1. PICK u \in Threads : pc[u] \in InFilter /\ current[u] = b
        BY <2>9, <2>1, <2>2, <3>1 DEF Ownership
      <4> QED
        BY <2>1, <2>2, <3>1, <4>1
    <3>2. CASE b = current[t]
      BY <2>9, <2>1, <2>2, <3>2 DEF Types, InFilter
    <3> QED
      BY <3>1, <3>2
  <2> QED
    BY <2>3, <2>4, <2>5, <2>6, <2>7, <2>8, <2>9 DEF Ownership
<1>24. ASSUME Pause PROVE Ownership'
  BY <1>24, SameOwners DEF Pause, Types, Actors, InFilter, Broadcast, NotifyAll, Asleep, Woken
<1>25. ASSUME Reset PROVE Ownership'
  <2>1. \A t \in Threads : pc[t] \in AtRest /\ claimed[t] = NoBlock
    BY <1>25 DEF Reset, Quiet, Types, Trying
  <2>2. claimed' = claimed /\ claimed[Main] = NoBlock
    BY <1>25 DEF Reset, At, Trying, TryThen
  <2>3. \A t \in Threads : pc'[t] = pc[t]
    BY <1>25 DEF Reset, TryThen, Go, Types, Actors
  <2>4. Contents(queue') = {} /\ Distinct(queue')
    <3>1. queue' = <<>>
      BY <1>25 DEF Reset
    <3> QED
      BY <3>1 DEF Contents, Distinct
  <2>5. block_state' = [b \in Blocks |-> "Idle"]
    BY <1>25 DEF Reset
  <2> QED
    BY <2>1, <2>2, <2>3, <2>4, <2>5 DEF Ownership, Holds, InFilter, AtRest, Actors
<1>26. ASSUME Resume PROVE Ownership'
  BY <1>26, SameOwners DEF Resume, Types, Actors, InFilter, Broadcast, NotifyAll, Asleep, Woken
<1>27. ASSUME Stop PROVE Ownership'
  BY <1>27, SameOwners DEF Stop, Types, Actors, InFilter, Broadcast, NotifyAll, Asleep, Woken
<1>28. ASSUME Wait PROVE Ownership'
  BY <1>28, SameOwners DEF Wait, Types, Actors, InFilter, Go
<1>29. ASSUME Finalize PROVE Ownership'
  BY <1>29, SameOwners DEF Finalize, Types, Actors, InFilter, Go
<1>30. CASE UNCHANGED vars
  BY <1>30, SameOwners DEF vars
<1> QED
  BY <1>1, <1>2, <1>3, <1>4, <1>5, <1>6, <1>7, <1>8, <1>9, <1>10, <1>11, <1>12, <1>13, <1>14,
     <1>15, <1>16, <1>17, <1>18, <1>19, <1>20, <1>21, <1>22, <1>23, <1>24, <1>25, <1>26, <1>27,
     <1>28, <1>29, <1>30
  DEF Next, Worker, Controller, TrySchedulingBlock, Terminated, Actors

(* Every block has one owner: OneOwner is what Ownership says of all kinds *)
(* of owners together.                                                     *)
LEMMA OwnershipMeansOneOwner == Types /\ Ownership => OneOwner
<1> SUFFICES ASSUME Types, Ownership, NEW b \in Blocks
             PROVE  IF block_state[b] = "Idle" THEN Owners(b) = {}
                                               ELSE \E o \in Owners(b) : Owners(b) = {o}
  BY DEF OneOwner
<1> USE DEF Owners
<1>1. \A i \in DOMAIN queue : queue[i] = b => block_state[b] = "Scheduled"
  BY DEF Ownership, Contents
<1>2. \A u \in Threads : pc[u] \in {"Start"} \cup InFilter /\ current[u] = b =>
        /\ pc[u] = "Start" => block_state[b] = "Scheduled" /\ b \notin Contents(queue)
        /\ pc[u] \in InFilter => block_state[b] = "Running"
        /\ block_state[b] \in {"Scheduled", "Running"}
  BY DEF Ownership
<1>3. \A u \in Actors : claimed[u] = b => block_state[b] = "Scheduling"
  BY GraphAssumption DEF Ownership
<1>4. CASE block_state[b] = "Idle"
  BY <1>1, <1>2, <1>3, <1>4
<1>5. CASE block_state[b] = "Scheduling"
  <2>1. PICK t \in Actors : claimed[t] = b
    BY <1>5 DEF Ownership
  <2>2. Owners(b) = {<<"claim", t>>}
    BY <1>1, <1>2, <1>5, <2>1, GraphAssumption DEF Ownership
  <2> QED
    BY <1>5, <2>2
<1>6. CASE block_state[b] = "Running"
  <2>1. PICK t \in Threads : pc[t] \in InFilter /\ current[t] = b
    BY <1>6 DEF Ownership
  <2>2. Owners(b) = {<<"worker", t>>}
    BY <1>1, <1>2, <1>3, <1>6, <2>1 DEF Ownership, Holds
  <2> QED
    BY <1>6, <2>2
<1>7. CASE block_state[b] = "Scheduled" /\ b \in Contents(queue)
  <2>1. PICK i \in DOMAIN queue : queue[i] = b
    BY <1>7 DEF Contents
  <2>2. Owners(b) = {<<"queue", i>>}
    BY <1>2, <1>3, <1>7, <2>1 DEF Ownership, Distinct, InFilter
  <2> QED
    BY <1>7, <2>2
<1>8. CASE block_state[b] = "Scheduled" /\ b \notin Contents(queue)
  <2>1. PICK t \in Threads : pc[t] = "Start" /\ current[t] = b
    BY <1>8 DEF Ownership
  <2>2. Owners(b) = {<<"worker", t>>}
    BY <1>2, <1>3, <1>8, <2>1 DEF Ownership, Holds, Contents
  <2> QED
    BY <1>8, <2>2
<1> QED
  BY <1>4, <1>5, <1>6, <1>7, <1>8 DEF Types

(* No block is ever run, queued or tried by two threads at the same time.  *)
THEOREM Exclusion ==
  ASSUME "reset" \notin Script
  PROVE  Spec => []OneOwner
<1>1. Init => Types /\ Ownership
  BY InitTypes, InitOwnership
<1>2. Types /\ Ownership /\ [Next]_vars => (Types /\ Ownership)'
  BY TypesStep, OwnershipStep
<1>3. Types /\ Ownership => OneOwner
  BY OwnershipMeansOneOwner
<1> QED
  BY <1>1, <1>2, <1>3, PTL DEF Spec
-----------------------------------------------------------------------------
(***************************************************************************)
(* No lost wake-up.  A block that could run and is Idle is on some         *)
(* thread's list; and so is a block that has come to be able to run while  *)
(* another thread, which has found it unable, still holds it.              *)
(***************************************************************************)
OnSomeList(b) == \E t \in Actors : b \in todo[t]

Awaited ==
  /\ failed = {} /\ exception => state = "Stopped"
  /\ failed = {} /\ state # "Stopped" =>
       /\ \A b \in Blocks :
            block_state[b] = "Idle" /\ Schedulable(b, Threshold) => OnSomeList(b)
       /\ \A t \in Actors :
            verdict[t] = "no" /\ Schedulable(claimed[t], Threshold) => OnSomeList(claimed[t])

(* A larger amount fits only where a smaller one does.                     *)
LEMMA SmallerFits ==
  ASSUME Types, NEW b \in Blocks, NEW m \in Int, NEW n \in Int, m <= n, Fits(b, n)
  PROVE  Fits(b, m)
BY BoundsAssumption DEF Types, Fits, Inputs, Outputs

(* Consuming makes room for the writers only ...                           *)
LEMMA RoomUpstream ==
  ASSUME Types, NEW c \in Blocks, NEW b \in Blocks, NEW n \in Nat, NEW m \in Nat,
         filled' = [e \in Edges |-> IF e \in Inputs(b) THEN filled[e] - n ELSE filled[e]],
         Fits(c, m)'
  PROVE  Fits(c, m) \/ c \in Upstream(b)
BY BoundsAssumption DEF Types, Fits, Inputs, Outputs, Upstream

(* ... and providing makes work for the readers only.                      *)
LEMMA WorkDownstream ==
  ASSUME Types, NEW c \in Blocks, NEW b \in Blocks, NEW n \in Nat, NEW m \in Nat,
         filled' = [e \in Edges |-> IF e \in Outputs(b) THEN filled[e] + n ELSE filled[e]],
         Fits(c, m)'
  PROVE  Fits(c, m) \/ (n # 0 /\ c \in Downstream(b))
BY BoundsAssumption DEF Types, Fits, Inputs, Outputs, Downstream

LEMMA InitAwaited == Init => Awaited
<1> SUFFICES ASSUME Init PROVE Awaited
  OBVIOUS
<1>1. exception = FALSE /\ relaxed_mode = FALSE /\ \A t \in Actors : verdict[t] = "unknown"
  BY DEF Init
<1>2. ASSUME NEW b \in Blocks, block_state[b] = "Idle" PROVE ~Schedulable(b, Threshold)
  <2>1. PICK e \in Inputs(b) : TRUE
    BY <1>2 DEF Init, Sources
  <2>2. filled[e] = 0
    BY <2>1 DEF Init, Inputs
  <2> QED
    BY <1>1, <2>1, <2>2, BoundsAssumption DEF Schedulable, Fits, Threshold
<1> QED
  BY <1>1, <1>2 DEF Awaited

(* A step after which nothing more can run but what is on some list.       *)
LEMMA StillAwaited ==
  ASSUME Awaited,
         UNCHANGED <<block_state, claimed, verdict>>,
         failed' = {} => failed = {},
         failed' = {} /\ state' # "Stopped" => state # "Stopped",
         failed' = {} /\ exception' => exception,
         \A u \in Actors : todo[u] \subseteq todo'[u],
         \A b \in Blocks : Schedulable(b, Threshold)' => Schedulable(b, Threshold) \/ OnSomeList(b)',
         Types
  PROVE  Awaited'
<1>1. \A b \in Blocks : OnSomeList(b) => OnSomeList(b)'
  BY DEF OnSomeList
<1>2. \A t \in Actors : verdict[t] = "no" => claimed[t] \in Blocks
  BY DEF Types
<1>3. failed' = {} /\ exception' => state' = "Stopped"
  BY DEF Awaited
<1> QED
  BY <1>1, <1>2, <1>3 DEF Awaited

LEMMA AwaitedStep ==
  ASSUME Types, Ownership, Awaited, [Next]_vars, "reset" \notin Script
  PROVE  Awaited'
<1> USE GraphAssumption, BoundsAssumption
<1> USE DEF pool, modes, data, trying, control
<1>1. ASSUME NEW t \in Actors, NEW b \in Blocks, Claim(t, b) PROVE Awaited'
  <2>1. /\ failed = {} /\ claimed[t] = NoBlock /\ block_state[b] = "Idle"
        /\ block_state'[b] = "Scheduling" /\ claimed'[t] = b /\ verdict' = verdict
        /\ \A c \in Blocks \ {b} : block_state'[c] = block_state[c]
        /\ \A u \in Actors \ {t} : claimed'[u] = claimed[u]
        /\ \A u \in Actors : todo[u] \ {b} \subseteq todo'[u]
        /\ UNCHANGED <<state, exception, failed, relaxed_mode, filled, eof>>
    BY <1>1 DEF Claim, Types
  <2>2. \A c \in Blocks : Schedulable(c, Threshold)' <=> Schedulable(c, Threshold)
    BY <2>1 DEF Schedulable, Fits, Threshold
  <2>3. \A c \in Blocks \ {b} : OnSomeList(c) => OnSomeList(c)'
    BY <2>1 DEF OnSomeList
  <2>4. \A u \in Actors : verdict'[u] = "no" => u # t /\ claimed[u] \in Blocks \ {b}
    BY <2>1 DEF Types, Ownership
  <2>5. \A c \in Blocks : block_state'[c] = "Idle" => c # b
    BY <2>1
  <2> QED
    BY <2>1, <2>2, <2>3, <2>4, <2>5 DEF Awaited
<1>2. ASSUME NEW t \in Actors, NEW b \in Blocks, Skip(t, b) PROVE Awaited'
  <2>1. /\ failed = {} /\ block_state[b] \in {"Running", "Scheduled"}
        /\ \A u \in Actors : todo[u] \ {b} \subseteq todo'[u]
        /\ UNCHANGED <<state, exception, failed, relaxed_mode, filled, eof, block_state, claimed,
                       verdict>>
    BY <1>2 DEF Skip, Types
  <2>2. \A c \in Blocks : Schedulable(c, Threshold)' <=> Schedulable(c, Threshold)
    BY <2>1 DEF Schedulable, Fits, Threshold
  <2>3. \A c \in Blocks \ {b} : OnSomeList(c) => OnSomeList(c)'
    BY <2>1 DEF OnSomeList
  <2>4. \A u \in Actors : verdict'[u] = "no" => claimed[u] \in Blocks \ {b}
    BY <2>1 DEF Types, Ownership
  <2> QED
    BY <2>1, <2>2, <2>3, <2>4 DEF Awaited
<1>3. ASSUME NEW t \in Actors, Evaluate(t) PROVE Awaited'
  <2>1. PICK threshold \in Thresholds :
           verdict' = [verdict EXCEPT ![t] =
                         IF Schedulable(claimed[t], threshold) THEN "yes" ELSE "no"]
    BY <1>3 DEF Evaluate
  <2>2. /\ claimed[t] \in Blocks
        /\ UNCHANGED <<state, exception, failed, relaxed_mode, filled, eof, block_state, claimed,
                       todo>>
    BY <1>3 DEF Evaluate, Types
  <2>3. \A c \in Blocks : /\ Schedulable(c, Threshold)' <=> Schedulable(c, Threshold)
                          /\ OnSomeList(c) <=> OnSomeList(c)'
    BY <2>2 DEF Schedulable, Fits, Threshold, OnSomeList
  <2>4. threshold \in Int /\ Threshold \in Int /\ threshold <= Threshold
    BY <2>1 DEF Thresholds, Threshold
  <2>5. verdict'[t] = "no" => ~Schedulable(claimed[t], Threshold)
    <3>1. verdict'[t] = "no" => ~Schedulable(claimed[t], threshold)
      BY <2>1 DEF Types
    <3> QED
      BY <2>2, <2>4, <3>1, SmallerFits DEF Schedulable
  <2>6. \A u \in Actors \ {t} : verdict'[u] = verdict[u]
    BY <2>1 DEF Types
  <2>7. \A u \in Actors : verdict[u] = "no" => claimed[u] \in Blocks
    BY DEF Types
  <2> QED
    BY <2>2, <2>3, <2>5, <2>6, <2>7 DEF Awaited
<1>4. ASSUME NEW t \in Actors, Commit(t) PROVE Awaited'
  <2> DEFINE b == claimed[t]
  <2>1. /\ b \in Blocks /\ failed = {} /\ verdict[t] \in {"yes", "no"}
        /\ block_state'[b] = IF verdict[t] = "yes" THEN "Scheduled" ELSE "Idle"
        /\ \A c \in Blocks \ {b} : block_state'[c] = block_state[c]
        /\ verdict'[t] = "unknown"
        /\ \A u \in Actors \ {t} : verdict'[u] = verdict[u] /\ claimed'[u] = claimed[u]
        /\ UNCHANGED <<state, exception, failed, relaxed_mode, filled, eof, todo>>
    BY <1>4 DEF Commit, Types
  <2>2. \A c \in Blocks : /\ Schedulable(c, Threshold)' <=> Schedulable(c, Threshold)
                          /\ OnSomeList(c) <=> OnSomeList(c)'
    BY <2>1 DEF Schedulable, Fits, Threshold, OnSomeList
  <2>3. \A u \in Actors : verdict[u] = "no" => claimed[u] \in Blocks
    BY DEF Types
  <2>4. block_state'[b] = "Idle" => verdict[t] = "no"
    BY <2>1
  <2> HIDE DEF b
  <2> QED
    BY <2>1, <2>2, <2>3, <2>4 DEF Awaited, b
<1>5. ASSUME NEW t \in Threads, Exit(t) PROVE Awaited'
  BY <1>5, StillAwaited
  DEF Exit, Types, Actors, Schedulable, Fits, Threshold, OnSomeList, At, Trying
<1>6. ASSUME NEW t \in Threads, EnterRelaxedMode(t) PROVE Awaited'
  <2>1. \A b \in Blocks : OnSomeList(b)'
    BY <1>6 DEF EnterRelaxedMode, TryThen, OnSomeList, Types, Actors
  <2>2. UNCHANGED <<state, exception, failed, claimed, verdict>>
    BY <1>6 DEF EnterRelaxedMode, TryThen
  <2>3. \A u \in Actors : verdict[u] = "no" => claimed[u] \in Blocks
    BY DEF Types
  <2> QED
    BY <2>1, <2>2, <2>3 DEF Awaited
<1>7. ASSUME NEW t \in Threads, BeginFinish(t) PROVE Awaited'
  <2>1. \A b \in Blocks : OnSomeList(b)'
    BY <1>7 DEF BeginFinish, TryThen, OnSomeList, Types, Actors
  <2>2. UNCHANGED <<state, exception, failed, claimed, verdict>>
    BY <1>7 DEF BeginFinish, TryThen
  <2>3. \A u \in Actors : verdict[u] = "no" => claimed[u] \in Blocks
    BY DEF Types
  <2> QED
    BY <2>1, <2>2, <2>3 DEF Awaited
<1>8. ASSUME NEW t \in Threads, Sleep(t) PROVE Awaited'
  BY <1>8, StillAwaited
  DEF Sleep, Types, Actors, Schedulable, Fits, Threshold, OnSomeList, At, Trying
<1>9. ASSUME NEW t \in Threads, Take(t) PROVE Awaited'
  BY <1>9, StillAwaited
  DEF Take, Types, Actors, Schedulable, Fits, Threshold, OnSomeList, At, Trying
<1>10. ASSUME NEW t \in Threads, TakeAndNotify(t) PROVE Awaited'
  BY <1>10, StillAwaited
  DEF TakeAndNotify, Types, Actors, Schedulable, Fits, Threshold, OnSomeList, At, Trying
<1>11. ASSUME NEW t \in Threads, WakeInVain(t) PROVE Awaited'
  BY <1>11, StillAwaited
  DEF WakeInVain, Types, Actors, Schedulable, Fits, Threshold, OnSomeList, At, Trying
<1>12. ASSUME NEW t \in Threads, WakeToExit(t) PROVE Awaited'
  BY <1>12, StillAwaited
  DEF WakeToExit, Types, Actors, Schedulable, Fits, Threshold, OnSomeList, At, Trying
<1>13. ASSUME NEW t \in Threads, WakeToTake(t) PROVE Awaited'
  BY <1>13, StillAwaited
  DEF WakeToTake, Types, Actors, Schedulable, Fits, Threshold, OnSomeList, At, Trying
<1>14. ASSUME NEW t \in Threads, WakeFromPause(t) PROVE Awaited'
  BY <1>14, StillAwaited
  DEF WakeFromPause, Types, Actors, Schedulable, Fits, Threshold, OnSomeList, At, Trying
<1>15. ASSUME NEW t \in Threads, SpuriousWakeup(t) PROVE Awaited'
  BY <1>15, StillAwaited
  DEF SpuriousWakeup, Types, Actors, Schedulable, Fits, Threshold, OnSomeList, At, Trying
<1>16. ASSUME NEW t \in Threads, Relaxed(t) PROVE Awaited'
  BY <1>16, StillAwaited
  DEF Relaxed, Types, Actors, Schedulable, Fits, Threshold, OnSomeList, At, Trying
<1>17. ASSUME NEW t \in Threads, Finish(t) PROVE Awaited'
  <2>1. state' = "Stopped"
    BY <1>17 DEF Finish, Broadcast
  <2> QED
    BY <2>1 DEF Awaited
<1>18. ASSUME NEW t \in Threads, Start(t) PROVE Awaited'
  <2>1. /\ failed = {} /\ pc[t] = "Start" /\ current[t] \in Blocks
        /\ block_state[current[t]] = "Scheduled"
    BY <1>18 DEF Start, At, Types, Ownership
  <2>2. block_state' = [block_state EXCEPT ![current[t]] = "Running"]
    BY <1>18 DEF Start
  <2>3. /\ \A c \in Blocks : block_state'[c] = "Idle" => block_state[c] = "Idle"
        /\ UNCHANGED <<state, exception, relaxed_mode, filled, eof, todo, claimed, verdict>>
    BY <1>18, <2>1, <2>2 DEF Start, Types
  <2>4. \A c \in Blocks : /\ Schedulable(c, Threshold)' <=> Schedulable(c, Threshold)
                          /\ OnSomeList(c) <=> OnSomeList(c)'
    BY <2>3 DEF Schedulable, Fits, Threshold, OnSomeList
  <2>5. \A u \in Actors : verdict[u] = "no" => claimed[u] \in Blocks
    BY DEF Types
  <2> QED
    BY <2>1, <2>3, <2>4, <2>5 DEF Awaited
<1>19. ASSUME NEW t \in Threads, NEW n \in 1 .. Capacity, Process(t, n) PROVE Awaited'
  <2>1. /\ failed = {} /\ current[t] \in Blocks /\ todo[t] = {}
        /\ todo'[t] = Upstream(current[t])
        /\ \A u \in Actors \ {t} : todo'[u] = todo[u]
        /\ filled' = [e \in Edges |-> IF e \in Inputs(current[t]) THEN filled[e] - n ELSE filled[e]]
        /\ UNCHANGED <<state, exception, relaxed_mode, eof, block_state, claimed, verdict>>
    BY <1>19 DEF Process, At, Trying, TryThen, Types, Actors, InFilter
  <2>2. ASSUME NEW c \in Blocks, Schedulable(c, Threshold)'
        PROVE  Schedulable(c, Threshold) \/ OnSomeList(c)'
    <3>1. Threshold \in Nat /\ Threshold' = Threshold /\ n \in Nat
      BY <2>1 DEF Threshold
    <3>2. Fits(c, Threshold)' => Fits(c, Threshold) \/ c \in Upstream(current[t])
      <4> DEFINE m == Threshold
      <4>1. m \in Nat /\ (Fits(c, Threshold)' => Fits(c, m)')
        BY <3>1 DEF Fits
      <4> QED
        BY <2>1, <3>1, <4>1, RoomUpstream
    <3> QED
      BY <2>1, <2>2, <3>1, <3>2 DEF Schedulable, OnSomeList, Actors
  <2> QED
    BY <2>1, <2>2, StillAwaited
<1>20. ASSUME NEW t \in Threads, ProcessEof(t) PROVE Awaited'
  BY <1>20, StillAwaited
  DEF ProcessEof, Types, Actors, Schedulable, Fits, Threshold, OnSomeList, At, Trying
<1>21. ASSUME NEW t \in Threads, Throw(t) PROVE Awaited'
  <2>1. failed' = {} => state' = "Stopped"
    BY <1>21 DEF Throw, Broadcast, At, Awaited
  <2> QED
    BY <2>1 DEF Awaited
<1>22. ASSUME NEW t \in Threads, Provide(t) PROVE Awaited'
  <2>1. /\ failed = {} /\ current[t] \in Blocks /\ todo[t] = {} /\ amount[t] \in Nat
        /\ todo'[t] = IF amount[t] = 0 THEN {} ELSE Downstream(current[t])
        /\ \A u \in Actors \ {t} : todo'[u] = todo[u]
        /\ filled' = [e \in Edges |-> IF e \in Outputs(current[t]) THEN filled[e] + amount[t]
                                                                  ELSE filled[e]]
        /\ UNCHANGED <<state, exception, failed, relaxed_mode, eof, block_state, claimed, verdict>>
    BY <1>22 DEF Provide, At, Trying, TryThen, Types, Actors, InFilter
  <2>2. ASSUME NEW c \in Blocks, Schedulable(c, Threshold)'
        PROVE  Schedulable(c, Threshold) \/ OnSomeList(c)'
    <3>1. Threshold \in Nat /\ Threshold' = Threshold
      BY <2>1 DEF Threshold
    <3>2. Fits(c, Threshold)' =>
            Fits(c, Threshold) \/ (amount[t] # 0 /\ c \in Downstream(current[t]))
      BY <2>1, <3>1, WorkDownstream
    <3> QED
      BY <2>1, <2>2, <3>1, <3>2 DEF Schedulable, OnSomeList, Actors
  <2> QED
    BY <2>1, <2>2, StillAwaited
<1>23. ASSUME NEW t \in Threads, Done(t) PROVE Awaited'
  <2>1. PICK b \in Blocks : b = current[t]
    BY <1>23 DEF Done, At, Types, InFilter
  <2>2. /\ failed = {} /\ todo[t] = {} /\ todo'[t] = {b}
        /\ \A u \in Actors \ {t} : todo'[u] = todo[u]
        /\ \A c \in Blocks \ {b} : block_state'[c] = block_state[c]
        /\ UNCHANGED <<state, exception, failed, relaxed_mode, filled, eof, claimed, verdict>>
    BY <1>23, <2>1 DEF Done, At, Trying, TryThen, Types, Actors
  <2>3. \A c \in Blocks : Schedulable(c, Threshold)' <=> Schedulable(c, Threshold)
    BY <2>2 DEF Schedulable, Fits, Threshold
  <2>4. OnSomeList(b)' /\ \A c \in Blocks : OnSomeList(c) => OnSomeList(c)'
    BY <2>2 DEF OnSomeList, Actors
  <2>5. \A u \in Actors : verdict[u] = "no" => claimed[u] \in Blocks
    BY DEF Types
  <2> QED
    BY <2>2, <2>3, <2>4, <2>5 DEF Awaited
<1>24. ASSUME Pause PROVE Awaited'
  BY <1>24, StillAwaited
  DEF Pause, Check, Broadcast, At, Types, Schedulable, Fits, Threshold, OnSomeList, Awaited
<1>25. ASSUME Reset PROVE Awaited'
  <2>1. \A b \in Blocks : OnSomeList(b)'
    BY <1>25 DEF Reset, TryThen, OnSomeList, Types, Actors
  <2>2. UNCHANGED <<state, exception, claimed, verdict>> /\ failed = {}
    BY <1>25 DEF Reset, TryThen, At
  <2>3. \A u \in Actors : verdict[u] = "no" => claimed[u] \in Blocks
    BY DEF Types
  <2> QED
    BY <2>1, <2>2, <2>3 DEF Awaited
<1>26. ASSUME Resume PROVE Awaited'
  BY <1>26, StillAwaited
  DEF Resume, Types, Actors, Schedulable, Fits, Threshold, OnSomeList, At, Trying
<1>27. ASSUME Stop PROVE Awaited'
  <2>1. state' = "Stopped"
    BY <1>27 DEF Stop, Broadcast
  <2> QED
    BY <2>1 DEF Awaited
<1>28. ASSUME Wait PROVE Awaited'
  BY <1>28, StillAwaited
  DEF Wait, Types, Actors, Schedulable, Fits, Threshold, OnSomeList, At, Trying
<1>29. ASSUME Finalize PROVE Awaited'
  BY <1>29, StillAwaited
  DEF Finalize, Types, Actors, Schedulable, Fits, Threshold, OnSomeList, At, Trying
<1>30. CASE UNCHANGED vars
  BY <1>30, StillAwaited DEF vars, Schedulable, Fits, Threshold
<1> QED
  BY <1>1, <1>2, <1>3, <1>4, <1>5, <1>6, <1>7, <1>8, <1>9, <1>10, <1>11, <1>12, <1>13, <1>14,
     <1>15, <1>16, <1>17, <1>18, <1>19, <1>20, <1>21, <1>22, <1>23, <1>24, <1>25, <1>26, <1>27,
     <1>28, <1>29, <1>30
  DEF Next, Worker, Controller, TrySchedulingBlock, Terminated, Actors

(* A block that could run is never forgotten: whoever finds it busy or     *)
(* reads stale sizes leaves it to somebody who has yet to look.            *)
THEOREM NoLostWakeup ==
  ASSUME "reset" \notin Script
  PROVE  Spec => []NoMissedBlock
<1>1. Init => Types /\ Ownership /\ Awaited
  BY InitTypes, InitOwnership, InitAwaited
<1>2. Types /\ Ownership /\ Awaited /\ [Next]_vars => (Types /\ Ownership /\ Awaited)'
  BY TypesStep, OwnershipStep, AwaitedStep
<1>3. Awaited => NoMissedBlock
  BY DEF Awaited, NoMissedBlock, OnSomeList
<1> QED
  BY <1>1, <1>2, <1>3, PTL DEF Spec
-----------------------------------------------------------------------------
(***************************************************************************)
(* Sizes.  They are read without a mutex and acted upon later: what a      *)
(* block has been scheduled for is still there when it runs, as only the   *)
(* block itself takes from its inputs or adds to its outputs.              *)
(***************************************************************************)
Sizes ==
  failed = {} =>
    /\ \A e \in Edges : filled[e] \in 0 .. Capacity
    /\ \A b \in Blocks : block_state[b] = "Scheduled" => Fits(b, 1)
    /\ \A t \in Actors : verdict[t] = "yes" => Fits(claimed[t], 1)
    /\ \A t \in Threads :
         /\ pc[t] = "Process" => Fits(current[t], 1)
         /\ pc[t] = "Consumed" =>
              \A e \in Outputs(current[t]) : filled[e] + amount[t] <= Capacity

LEMMA InitSizes == Init => Sizes
<1> SUFFICES ASSUME Init PROVE Sizes
  OBVIOUS
<1>1. filled = [e \in Edges |-> 0] /\ \A t \in Actors : verdict[t] = "unknown"
  BY DEF Init
<1>2. \A t \in Threads : pc[t] = "Top"
  BY GraphAssumption DEF Init, Actors
<1>3. ASSUME NEW b \in Blocks, block_state[b] = "Scheduled" PROVE Fits(b, 1)
  <2>1. Inputs(b) = {}
    BY <1>3 DEF Init, Sources
  <2> QED
    BY <1>1, <2>1, BoundsAssumption DEF Fits, Outputs
<1> QED
  BY <1>1, <1>2, <1>3, BoundsAssumption DEF Sizes

(* A step that moves no data and lets nobody go on to the filter.          *)
LEMMA StillFits ==
  ASSUME Sizes,
         UNCHANGED <<filled, claimed, verdict>>,
         failed' = {} => failed = {},
         \A b \in Blocks : block_state'[b] = "Scheduled" => block_state[b] = "Scheduled",
         \A u \in Threads :
           pc'[u] \in {"Process", "Consumed"} =>
             pc'[u] = pc[u] /\ current'[u] = current[u] /\ amount'[u] = amount[u]
  PROVE  Sizes'
BY DEF Sizes, Fits

LEMMA SizesStep ==
  ASSUME Types, Ownership, Sizes, [Next]_vars, "reset" \notin Script
  PROVE  Sizes'
<1> USE GraphAssumption, BoundsAssumption
<1> USE DEF pool, modes, data, trying, control
<1>1. ASSUME NEW t \in Actors, NEW b \in Blocks, Claim(t, b) PROVE Sizes'
  <2>1. /\ failed = {} /\ claimed[t] = NoBlock
        /\ block_state' = [block_state EXCEPT ![b] = "Scheduling"]
        /\ \A u \in Actors \ {t} : claimed'[u] = claimed[u]
        /\ UNCHANGED <<filled, failed, pc, current, amount, verdict>>
    BY <1>1 DEF Claim, Types
  <2>2. verdict'[t] = "unknown"
    BY <2>1 DEF Types
  <2> QED
    BY <2>1, <2>2 DEF Sizes, Fits, Types
<1>2. ASSUME NEW t \in Actors, NEW b \in Blocks, Skip(t, b) PROVE Sizes'
  BY <1>2, StillFits DEF Skip, Types, Actors, At, TryThen, Go, Check, Broadcast, NotifyAll,
     Asleep, Woken, TakeTask, PauseOrTake
<1>3. ASSUME NEW t \in Actors, Evaluate(t) PROVE Sizes'
  <2>1. PICK threshold \in Thresholds :
           verdict' = [verdict EXCEPT ![t] =
                         IF Schedulable(claimed[t], threshold) THEN "yes" ELSE "no"]
    BY <1>3 DEF Evaluate
  <2>2. /\ failed = {} /\ claimed[t] \in Blocks
        /\ UNCHANGED <<filled, failed, block_state, pc, current, amount, claimed>>
    BY <1>3 DEF Evaluate, Types
  <2>3. verdict'[t] = "yes" => Fits(claimed[t], 1)
    <3>1. verdict'[t] = "yes" => Fits(claimed[t], threshold)
      BY <2>1 DEF Types, Schedulable
    <3>2. threshold \in Int /\ 1 <= threshold
      BY <2>1 DEF Thresholds
    <3> QED
      BY <2>2, <3>1, <3>2, SmallerFits
  <2>4. \A u \in Actors \ {t} : verdict'[u] = verdict[u]
    BY <2>1 DEF Types
  <2>5. \A b : Fits(b, 1)' <=> Fits(b, 1)
    BY <2>2 DEF Fits
  <2> QED
    BY <2>2, <2>3, <2>4, <2>5 DEF Sizes
<1>4. ASSUME NEW t \in Actors, Commit(t) PROVE Sizes'
  <2>1. /\ failed = {} /\ claimed[t] \in Blocks /\ verdict[t] \in {"yes", "no"}
        /\ block_state'[claimed[t]] = IF verdict[t] = "yes" THEN "Scheduled" ELSE "Idle"
        /\ \A b \in Blocks \ {claimed[t]} : block_state'[b] = block_state[b]
        /\ verdict'[t] = "unknown"
        /\ \A u \in Actors \ {t} : verdict'[u] = verdict[u] /\ claimed'[u] = claimed[u]
        /\ UNCHANGED <<filled, failed, pc, current, amount>>
    BY <1>4 DEF Commit, Types
  <2>2. \A b : Fits(b, 1)' <=> Fits(b, 1)
    BY <2>1 DEF Fits
  <2> QED
    BY <2>1, <2>2 DEF Sizes
<1>5. ASSUME NEW t \in Threads, Exit(t) PROVE Sizes'
  BY <1>5, StillFits DEF Exit, Types, Actors, At, TryThen, Go, Check, Broadcast, NotifyAll,
     Asleep, Woken, TakeTask, PauseOrTake
<1>6. ASSUME NEW t \in Threads, EnterRelaxedMode(t) PROVE Sizes'
  BY <1>6, StillFits
  DEF EnterRelaxedMode, Types, Actors, At, TryThen, Go, Check, Broadcast, NotifyAll,
     Asleep, Woken, TakeTask, PauseOrTake
<1>7. ASSUME NEW t \in Threads, BeginFinish(t) PROVE Sizes'
  BY <1>7, StillFits DEF BeginFinish, Types, Actors, At, TryThen, Go, Check, Broadcast, NotifyAll,
     Asleep, Woken, TakeTask, PauseOrTake
<1>8. ASSUME NEW t \in Threads, Sleep(t) PROVE Sizes'
  BY <1>8, StillFits DEF Sleep, Types, Actors, At, TryThen, Go, Check, Broadcast, NotifyAll,
     Asleep, Woken, TakeTask, PauseOrTake
<1>9. ASSUME NEW t \in Threads, Take(t) PROVE Sizes'
  BY <1>9, StillFits DEF Take, Types, Actors, At, TryThen, Go, Check, Broadcast, NotifyAll,
     Asleep, Woken, TakeTask, PauseOrTake
<1>10. ASSUME NEW t \in Threads, TakeAndNotify(t) PROVE Sizes'
  BY <1>10, StillFits
  DEF TakeAndNotify, Types, Actors, At, TryThen, Go, Check, Broadcast, NotifyAll,
     Asleep, Woken, TakeTask, PauseOrTake
<1>11. ASSUME NEW t \in Threads, WakeInVain(t) PROVE Sizes'
  BY <1>11, StillFits DEF WakeInVain, Types, Actors, At, TryThen, Go, Check, Broadcast, NotifyAll,
     Asleep, Woken, TakeTask, PauseOrTake
<1>12. ASSUME NEW t \in Threads, WakeToExit(t) PROVE Sizes'
  BY <1>12, StillFits DEF WakeToExit, Types, Actors, At, TryThen, Go, Check, Broadcast, NotifyAll,
     Asleep, Woken, TakeTask, PauseOrTake
<1>13. ASSUME NEW t \in Threads, WakeToTake(t) PROVE Sizes'
  BY <1>13, StillFits DEF WakeToTake, Types, Actors, At, TryThen, Go, Check, Broadcast, NotifyAll,
     Asleep, Woken, TakeTask, PauseOrTake
<1>14. ASSUME NEW t \in Threads, WakeFromPause(t) PROVE Sizes'
  BY <1>14, StillFits
  DEF WakeFromPause, Types, Actors, At, TryThen, Go, Check, Broadcast, NotifyAll,
     Asleep, Woken, TakeTask, PauseOrTake
<1>15. ASSUME NEW t \in Threads, SpuriousWakeup(t) PROVE Sizes'
  BY <1>15, StillFits
  DEF SpuriousWakeup, Types, Actors, At, TryThen, Go, Check, Broadcast, NotifyAll,
     Asleep, Woken, TakeTask, PauseOrTake
<1>16. ASSUME NEW t \in Threads, Relaxed(t) PROVE Sizes'
  BY <1>16, StillFits DEF Relaxed, Types, Actors, At, TryThen, Go, Check, Broadcast, NotifyAll,
     Asleep, Woken, TakeTask, PauseOrTake
<1>17. ASSUME NEW t \in Threads, Finish(t) PROVE Sizes'
  BY <1>17, StillFits DEF Finish, Types, Actors, At, TryThen, Go, Check, Broadcast, NotifyAll,
     Asleep, Woken, TakeTask, PauseOrTake
<1>18. ASSUME NEW t \in Threads, Start(t) PROVE Sizes'
  <2>1. /\ failed = {} /\ pc[t] = "Start" /\ current[t] \in Blocks
        /\ block_state[current[t]] = "Scheduled"
    BY <1>18 DEF Start, At, Types, Ownership
  <2>2. /\ \A b \in Blocks : block_state'[b] = "Scheduled" => block_state[b] = "Scheduled"
        /\ \A u \in Threads \ {t} : pc'[u] = pc[u]
        /\ pc'[t] = "Process"
        /\ UNCHANGED <<filled, current, amount, claimed, verdict>>
    BY <1>18, <2>1 DEF Start, Go, Types, Actors
  <2>3. \A b : Fits(b, 1)' <=> Fits(b, 1)
    BY <2>2 DEF Fits
  <2> QED
    BY <2>1, <2>2, <2>3 DEF Sizes
<1>19. ASSUME NEW t \in Threads, NEW n \in 1 .. Capacity, Process(t, n) PROVE Sizes'
  <2>1. PICK b \in Blocks : b = current[t]
    BY <1>19 DEF Process, At, Types, InFilter
  <2>2. /\ failed = {} /\ pc[t] = "Process" /\ (failed' = {} => Fits(b, n))
        /\ filled' = [e \in Edges |-> IF e \in Inputs(b) THEN filled[e] - n ELSE filled[e]]
        /\ amount'[t] = n /\ \A u \in Threads \ {t} : amount'[u] = amount[u]
        /\ pc'[t] = "Consumed" /\ \A u \in Threads \ {t} : pc'[u] = pc[u]
        /\ UNCHANGED <<block_state, current, claimed, verdict>>
    BY <1>19, <2>1 DEF Process, At, Check, TryThen, Go, Types, Actors
  <2>3. /\ \A e \in Edges : filled[e] \in 0 .. Capacity
        /\ failed' = {} => \A e \in Edges : filled'[e] \in 0 .. Capacity
    BY <2>2 DEF Sizes, Fits, Inputs
  <2>4. ASSUME NEW c \in Blocks, c # b, Fits(c, 1) PROVE Fits(c, 1)'
    BY <2>2, <2>3, <2>4 DEF Fits, Inputs, Outputs
  <2>5. block_state[b] = "Running"
    BY <2>1, <2>2 DEF Ownership, InFilter
  <2>6. \A u \in Threads \ {t} : pc[u] \in InFilter => current[u] \in Blocks \ {b}
    BY <2>1, <2>2 DEF Types, Ownership, Holds, InFilter
  <2>7. \A u \in Actors : verdict[u] = "yes" => claimed[u] \in Blocks \ {b}
    BY <2>5 DEF Types, Ownership
  <2>8. ASSUME NEW u \in Threads, pc'[u] = "Consumed", failed' = {}
        PROVE  \A e \in Outputs(current'[u]) : filled'[e] + amount'[u] <= Capacity
    <3>1. CASE u = t
      BY <2>1, <2>2, <2>3, <2>8, <3>1 DEF Fits, Outputs
    <3>2. CASE u # t
      <4>1. \A e \in Outputs(current[u]) : filled[e] + amount[u] <= Capacity
        BY <2>2, <2>8, <3>2 DEF Sizes
      <4>2. \A e \in Edges : filled'[e] <= filled[e] /\ filled'[e] \in Int
        BY <2>2, <2>3
      <4> QED
        BY <2>2, <2>3, <3>2, <4>1, <4>2 DEF Outputs, Types
    <3> QED
      BY <3>1, <3>2
  <2>9. \A u \in Threads : pc'[u] = "Process" => u # t /\ pc[u] = "Process"
    BY <2>2
  <2> QED
    BY <2>2, <2>3, <2>4, <2>5, <2>6, <2>7, <2>8, <2>9 DEF Sizes, InFilter
<1>20. ASSUME NEW t \in Threads, ProcessEof(t) PROVE Sizes'
  <2>1. /\ failed = {} /\ amount'[t] = 0 /\ pc'[t] = "Consumed"
        /\ \A u \in Threads \ {t} : pc'[u] = pc[u] /\ amount'[u] = amount[u]
        /\ UNCHANGED <<filled, failed, block_state, current, claimed, verdict>>
    BY <1>20 DEF ProcessEof, At, Go, Types, Actors
  <2>2. \A b : Fits(b, 1)' <=> Fits(b, 1)
    BY <2>1 DEF Fits
  <2>3. \A e \in Outputs(current[t]) : filled[e] + 0 <= Capacity
    BY <2>1 DEF Sizes, Outputs
  <2> QED
    BY <2>1, <2>2, <2>3 DEF Sizes
<1>21. ASSUME NEW t \in Threads, Throw(t) PROVE Sizes'
  BY <1>21, StillFits DEF Throw, Types, Actors, At, TryThen, Go, Check, Broadcast, NotifyAll,
     Asleep, Woken, TakeTask, PauseOrTake
<1>22. ASSUME NEW t \in Threads, Provide(t) PROVE Sizes'
  <2>1. PICK b \in Blocks : b = current[t]
    BY <1>22 DEF Provide, At, Types, InFilter
  <2>2. /\ failed = {} /\ pc[t] = "Consumed" /\ amount[t] \in Nat
        /\ filled' = [e \in Edges |-> IF e \in Outputs(b) THEN filled[e] + amount[t] ELSE filled[e]]
        /\ pc'[t] = "Provided" /\ \A u \in Threads \ {t} : pc'[u] = pc[u]
        /\ UNCHANGED <<failed, block_state, current, amount, claimed, verdict>>
    BY <1>22, <2>1 DEF Provide, At, TryThen, Go, Types, Actors
  <2>3. /\ \A e \in Edges : filled[e] \in 0 .. Capacity
        /\ \A e \in Edges : filled'[e] \in 0 .. Capacity /\ filled'[e] >= filled[e]
    BY <2>1, <2>2 DEF Sizes, Outputs
  <2>4. ASSUME NEW c \in Blocks, c # b, Fits(c, 1) PROVE Fits(c, 1)'
    BY <2>2, <2>3, <2>4 DEF Fits, Inputs, Outputs
  <2>5. block_state[b] = "Running"
    BY <2>1, <2>2 DEF Ownership, InFilter
  <2>6. \A u \in Threads \ {t} : pc[u] \in InFilter => current[u] \in Blocks \ {b}
    BY <2>1, <2>2 DEF Types, Ownership, Holds, InFilter
  <2>7. \A u \in Actors : verdict[u] = "yes" => claimed[u] \in Blocks \ {b}
    BY <2>5 DEF Types, Ownership
  <2>8. ASSUME NEW u \in Threads, pc'[u] = "Consumed"
        PROVE  \A e \in Outputs(current'[u]) : filled'[e] + amount'[u] <= Capacity
    <3>1. u # t /\ pc[u] = "Consumed" /\ current[u] # b
      BY <2>2, <2>6, <2>8 DEF InFilter
    <3> QED
      BY <2>2, <3>1 DEF Sizes, Outputs
  <2>9. \A u \in Threads : pc'[u] = "Process" => u # t /\ pc[u] = "Process"
    BY <2>2
  <2> QED
    BY <2>2, <2>3, <2>4, <2>5, <2>6, <2>7, <2>8, <2>9 DEF Sizes, InFilter
<1>23. ASSUME NEW t \in Threads, Done(t) PROVE Sizes'
  BY <1>23, StillFits DEF Done, Types, Actors, At, TryThen, Go, Check, Broadcast, NotifyAll,
     Asleep, Woken, TakeTask, PauseOrTake
<1>24. ASSUME Pause PROVE Sizes'
  BY <1>24, StillFits DEF Pause, Types, Actors, At, TryThen, Go, Check, Broadcast, NotifyAll,
     Asleep, Woken, TakeTask, PauseOrTake
<1>25. ASSUME Reset PROVE Sizes'
  <2>1. \A t \in Threads : pc[t] \in AtRest /\ claimed[t] = NoBlock
    BY <1>25 DEF Reset, Quiet, Types, Trying
  <2>2. claimed[Main] = NoBlock /\ verdict' = verdict
    BY <1>25 DEF Reset, At, Trying, TryThen
  <2>3. \A t \in Threads : pc'[t] \in AtRest
    BY <1>25, <2>1 DEF Reset, TryThen, Go, Types, Actors
  <2>4. filled' = [e \in Edges |-> 0] /\ block_state' = [b \in Blocks |-> "Idle"]
    BY <1>25 DEF Reset
  <2>5. \A u \in Actors : verdict[u] = "unknown"
    BY <2>1, <2>2 DEF Types, Actors
  <2> QED
    BY <2>2, <2>3, <2>4, <2>5 DEF Sizes, AtRest
<1>26. ASSUME Resume PROVE Sizes'
  BY <1>26, StillFits DEF Resume, Types, Actors, At, TryThen, Go, Check, Broadcast, NotifyAll,
     Asleep, Woken, TakeTask, PauseOrTake
<1>27. ASSUME Stop PROVE Sizes'
  BY <1>27, StillFits DEF Stop, Types, Actors, At, TryThen, Go, Check, Broadcast, NotifyAll,
     Asleep, Woken, TakeTask, PauseOrTake
<1>28. ASSUME Wait PROVE Sizes'
  BY <1>28, StillFits DEF Wait, Types, Actors, At, TryThen, Go, Check, Broadcast, NotifyAll,
     Asleep, Woken, TakeTask, PauseOrTake
<1>29. ASSUME Finalize PROVE Sizes'
  BY <1>29, StillFits DEF Finalize, Types, Actors, At, TryThen, Go, Check, Broadcast, NotifyAll,
     Asleep, Woken, TakeTask, PauseOrTake
<1>30. CASE UNCHANGED vars
  BY <1>30, StillFits DEF vars
<1> QED
  BY <1>1, <1>2, <1>3, <1>4, <1>5, <1>6, <1>7, <1>8, <1>9, <1>10, <1>11, <1>12, <1>13, <1>14,
     <1>15, <1>16, <1>17, <1>18, <1>19, <1>20, <1>21, <1>22, <1>23, <1>24, <1>25, <1>26, <1>27,
     <1>28, <1>29, <1>30
  DEF Next, Worker, Controller, TrySchedulingBlock, Terminated, Actors

(* What may fail when a worker goes on to run a block: neither CHECK of    *)
(* pipeline.cpp:373 and block.cpp:173-186 ever does.                       *)
RunsAsScheduled == RunsOnlyScheduled /\ "slice is large enough" \notin failed

LEMMA RunsAsScheduledStep ==
  ASSUME Types, Ownership, Sizes, RunsAsScheduled, [Next]_vars
  PROVE  RunsAsScheduled'
<1> USE DEF RunsAsScheduled, RunsOnlyScheduled
<1>1. ASSUME NEW t \in Threads, Start(t) PROVE RunsAsScheduled'
  BY <1>1 DEF Start, At, Check, Ownership
<1>2. ASSUME NEW t \in Threads, NEW n \in 1 .. Capacity, Process(t, n) PROVE RunsAsScheduled'
  <2>1. Fits(current[t], n)
    BY <1>2 DEF Process, At, Sizes
  <2> QED
    BY <1>2, <2>1 DEF Process, Check
<1>3. ASSUME NEW t \in Threads, Finish(t) PROVE RunsAsScheduled'
  BY <1>3 DEF Finish, Check
<1>4. ASSUME Pause \/ Reset \/ Stop \/ Finalize PROVE RunsAsScheduled'
  BY <1>4 DEF Pause, Reset, Stop, Finalize, Check
<1>5. ASSUME UNCHANGED failed PROVE RunsAsScheduled'
  BY <1>5
<1> QED
  <2> USE DEF control
  <2>1. ASSUME NEW t \in Actors, TrySchedulingBlock(t) PROVE UNCHANGED failed
    BY <2>1 DEF TrySchedulingBlock, Claim, Skip, Evaluate, Commit
  <2>2. ASSUME NEW t \in Threads,
               Exit(t) \/ EnterRelaxedMode(t) \/ BeginFinish(t) \/ Sleep(t) \/ Take(t)
                 \/ TakeAndNotify(t) \/ WakeInVain(t) \/ WakeToExit(t) \/ WakeToTake(t)
                 \/ WakeFromPause(t) \/ Relaxed(t) \/ SpuriousWakeup(t)
        PROVE  UNCHANGED failed
    BY <2>2 DEF Exit, EnterRelaxedMode, BeginFinish, Sleep, Take, TakeAndNotify, WakeInVain,
       WakeToExit, WakeToTake, WakeFromPause, Relaxed, SpuriousWakeup
  <2>3. ASSUME NEW t \in Threads, ProcessEof(t) \/ Throw(t) \/ Provide(t) \/ Done(t)
        PROVE  UNCHANGED failed
    BY <2>3 DEF ProcessEof, Throw, Provide, Done
  <2>4. ASSUME Resume \/ Wait \/ UNCHANGED vars PROVE UNCHANGED failed
    BY <2>4 DEF Resume, Wait, vars
  <2> QED
    BY <1>1, <1>2, <1>3, <1>4, <1>5, <2>1, <2>2, <2>3, <2>4
    DEF Next, Worker, Controller, Terminated, Actors

(* A worker that takes a block finds it Scheduled, and with the slices it  *)
(* needs, whoever else reads sizes and schedules blocks meanwhile.         *)
THEOREM BlocksRunAsScheduled ==
  ASSUME "reset" \notin Script
  PROVE  Spec => []RunsAsScheduled
<1>1. Init => Types /\ Ownership /\ Sizes /\ RunsAsScheduled
  BY InitTypes, InitOwnership, InitSizes DEF Init, RunsAsScheduled, RunsOnlyScheduled
<1>2. Types /\ Ownership /\ Sizes /\ RunsAsScheduled /\ [Next]_vars
        => (Types /\ Ownership /\ Sizes /\ RunsAsScheduled)'
  BY TypesStep, OwnershipStep, SizesStep, RunsAsScheduledStep
<1> QED
  BY <1>1, <1>2, PTL DEF Spec
-----------------------------------------------------------------------------
(***************************************************************************)
(* The counters of the pool of workers, and what is decided from them.     *)
(*                                                                         *)
(* The pipeline has run dry when the queue is empty, one thread is counted *)
(* as running and nobody is scheduling.  That this is the truth rests on   *)
(* three facts: the counter is the number of workers that run (Counted),   *)
(* whoever looks for blocks without being counted is known to do so        *)
(* (Relaxation, MainTries), and a block that could run is on the list of   *)
(* somebody who is looking (Awaited, above).                               *)
(***************************************************************************)
(***************************************************************************)
(* threads_running_.  A worker that an exception has ended is never        *)
(* counted out, but then the pipeline has stopped.                         *)
(***************************************************************************)
ActivePlaces == {"Top", "Start", "Process", "Consumed", "Provided"}

ExitedThreads == {t \in Threads : pc[t] = "Exited"}

Counted ==
  /\ \E S \in SUBSET ExitedThreads : threads_running = Cardinality(Active \cup S)
  /\ failed = {} /\ state # "Stopped" => ExitedThreads = {}
  /\ failed = {} /\ exception => state = "Stopped"

LEMMA SetOfThreads ==
  ASSUME NEW S \in SUBSET Threads
  PROVE  /\ IsFiniteSet(S) /\ Cardinality(S) \in Nat
         /\ Cardinality(S) <= Cardinality(Threads) /\ Cardinality(Threads) \in Nat
         /\ \A t \in Threads :
              /\ t \notin S => Cardinality(S \cup {t}) = Cardinality(S) + 1
              /\ t \in S => Cardinality(S \ {t}) = Cardinality(S) - 1
<1>1. IsFiniteSet(S) /\ Cardinality(S) <= Cardinality(Threads)
  BY FS_Subset, GraphAssumption
<1>2. Cardinality(S) \in Nat /\ Cardinality(Threads) \in Nat
  BY <1>1, FS_CardinalityType, GraphAssumption
<1>3. ASSUME NEW t \in Threads
      PROVE  /\ t \notin S => Cardinality(S \cup {t}) = Cardinality(S) + 1
             /\ t \in S => Cardinality(S \ {t}) = Cardinality(S) - 1
  <2>1. Cardinality(S \cup {t}) = IF t \in S THEN Cardinality(S) ELSE Cardinality(S) + 1
    BY <1>1, FS_AddElement
  <2>2. Cardinality(S \ {t}) = IF t \in S THEN Cardinality(S) - 1 ELSE Cardinality(S)
    BY <1>1, FS_RemoveElement
  <2> QED
    BY <2>1, <2>2
<1> QED
  BY <1>1, <1>2, <1>3

LEMMA InitCounted == Init => Counted
<1> SUFFICES ASSUME Init PROVE Counted
  OBVIOUS
<1>1. \A t \in Threads : pc[t] = "Top"
  BY GraphAssumption DEF Init, Actors
<1>2. Active = Threads /\ ExitedThreads = {}
  BY <1>1 DEF Active, ExitedThreads
<1>3. Active \cup {} = Threads
  BY <1>2
<1> QED
  BY <1>2, <1>3 DEF Init, Counted

(* Nobody joins or leaves the workers that run ...                         *)
LEMMA SameCount ==
  ASSUME Counted, threads_running' = threads_running,
         \A t \in Threads : /\ pc'[t] \in ActivePlaces <=> pc[t] \in ActivePlaces
                            /\ pc[t] = "Exited" => pc'[t] = "Exited",
         failed' = {} /\ state' # "Stopped" =>
           /\ failed = {} /\ state # "Stopped"
           /\ \A t \in Threads : pc'[t] = "Exited" => pc[t] = "Exited",
         failed' = {} /\ exception' => state' = "Stopped"
  PROVE  Counted'
<1>1. Active' = Active
  BY DEF Active, ActivePlaces
<1>2. ExitedThreads \subseteq ExitedThreads'
  BY DEF ExitedThreads
<1>3. PICK S \in SUBSET ExitedThreads : threads_running = Cardinality(Active \cup S)
  BY DEF Counted
<1>4. S \in SUBSET ExitedThreads' /\ threads_running' = Cardinality(Active' \cup S)
  BY <1>1, <1>2, <1>3
<1>5. failed' = {} /\ state' # "Stopped" => ExitedThreads' = {}
  BY DEF Counted, ExitedThreads
<1> QED
  BY <1>4, <1>5 DEF Counted

(* ... one joins ...                                                       *)
LEMMA OneJoins ==
  ASSUME Counted, NEW t \in Threads, threads_running' = threads_running + 1,
         pc[t] \notin ActivePlaces, pc[t] # "Exited", pc'[t] \in ActivePlaces,
         \A u \in Threads \ {t} : /\ pc'[u] \in ActivePlaces <=> pc[u] \in ActivePlaces
                                  /\ pc'[u] = "Exited" <=> pc[u] = "Exited",
         UNCHANGED <<state, exception, failed>>
  PROVE  Counted'
<1>1. Active' = Active \cup {t} /\ t \notin Active
  BY DEF Active, ActivePlaces
<1>2. ExitedThreads' = ExitedThreads /\ t \notin ExitedThreads
  BY DEF ExitedThreads, ActivePlaces
<1>3. PICK S \in SUBSET ExitedThreads : threads_running = Cardinality(Active \cup S)
  BY DEF Counted
<1>4. /\ Active \cup S \in SUBSET Threads /\ t \notin Active \cup S
      /\ Active' \cup S = (Active \cup S) \cup {t}
  BY <1>1, <1>2, <1>3 DEF Active, ExitedThreads
<1>5. threads_running' = Cardinality(Active' \cup S)
  BY <1>3, <1>4, SetOfThreads
<1> QED
  BY <1>2, <1>3, <1>5 DEF Counted

(* ... or one leaves.                                                      *)
LEMMA OneLeaves ==
  ASSUME Counted, NEW t \in Threads, threads_running' = threads_running - 1,
         pc[t] \in ActivePlaces, pc'[t] \notin ActivePlaces,
         state = "Stopped" \/ pc'[t] # "Exited",
         \A u \in Threads \ {t} : /\ pc'[u] \in ActivePlaces <=> pc[u] \in ActivePlaces
                                  /\ pc'[u] = "Exited" <=> pc[u] = "Exited",
         UNCHANGED <<state, exception, failed>>
  PROVE  Counted'
<1>1. Active' = Active \ {t} /\ t \in Active
  BY DEF Active, ActivePlaces
<1>2. ExitedThreads \subseteq ExitedThreads' /\ t \notin ExitedThreads
      /\ (state # "Stopped" => ExitedThreads' = ExitedThreads)
  BY DEF ExitedThreads, ActivePlaces
<1>3. PICK S \in SUBSET ExitedThreads : threads_running = Cardinality(Active \cup S)
  BY DEF Counted
<1>4. /\ Active \cup S \in SUBSET Threads /\ t \in Active \cup S
      /\ Active' \cup S = (Active \cup S) \ {t}
  BY <1>1, <1>2, <1>3 DEF Active, ExitedThreads
<1>5. threads_running' = Cardinality(Active' \cup S)
  BY <1>3, <1>4, SetOfThreads
<1> QED
  BY <1>2, <1>3, <1>5 DEF Counted

(* ... or an exception ends one.                                           *)
LEMMA OneThrows ==
  ASSUME Counted, NEW t \in Threads, threads_running' = threads_running,
         pc[t] \in ActivePlaces, pc'[t] = "Exited",
         \A u \in Threads \ {t} : /\ pc'[u] \in ActivePlaces <=> pc[u] \in ActivePlaces
                                  /\ pc'[u] = "Exited" <=> pc[u] = "Exited",
         state' = "Stopped"
  PROVE  Counted'
<1>1. Active' = Active \ {t} /\ t \in Active
  BY DEF Active, ActivePlaces
<1>2. ExitedThreads' = ExitedThreads \cup {t}
  BY DEF ExitedThreads
<1>3. PICK S \in SUBSET ExitedThreads : threads_running = Cardinality(Active \cup S)
  BY DEF Counted
<1> DEFINE S2 == S \cup {t}
<1>4. S2 \in SUBSET ExitedThreads' /\ Active' \cup S2 = Active \cup S
  BY <1>1, <1>2, <1>3
<1>5. threads_running' = Cardinality(Active' \cup S2)
  BY <1>3, <1>4
<1> HIDE DEF S2
<1> QED
  BY <1>4, <1>5 DEF Counted

LEMMA CountedStep ==
  ASSUME Types, Counted, [Next]_vars PROVE Counted'
<1> USE GraphAssumption
<1> USE DEF pool, modes, trying, control
<1>0. /\ Actors = Threads \cup {Main} /\ Main \notin Threads
      /\ pc \in [Actors -> Places \cup MainPlaces]
      /\ failed = {} /\ exception => state = "Stopped"
  BY DEF Types, Actors, Counted
<1>1. ASSUME NEW t \in Actors, TrySchedulingBlock(t) PROVE Counted'
  BY <1>0, <1>1, SameCount DEF TrySchedulingBlock, Claim, Skip, Evaluate, Commit
<1>2. ASSUME NEW t \in Threads, Exit(t) PROVE Counted'
  BY <1>0, <1>2, OneLeaves DEF Exit, At, Go, ActivePlaces
<1>3. ASSUME NEW t \in Threads, EnterRelaxedMode(t) PROVE Counted'
  BY <1>0, <1>3, OneLeaves DEF EnterRelaxedMode, At, TryThen, Go, ActivePlaces
<1>4. ASSUME NEW t \in Threads, BeginFinish(t) PROVE Counted'
  BY <1>0, <1>4, OneLeaves DEF BeginFinish, At, TryThen, Go, ActivePlaces
<1>5. ASSUME NEW t \in Threads, Sleep(t) PROVE Counted'
  BY <1>0, <1>5, OneLeaves DEF Sleep, At, Go, ActivePlaces
<1>6. ASSUME NEW t \in Threads, NEW places \in [Actors -> Places \cup MainPlaces],
             At(t, "Top"), PauseOrTake(t, threads_running - 1, places),
             \A u \in Threads : /\ places[u] \in ActivePlaces <=> pc[u] \in ActivePlaces
                                /\ places[u] = "Exited" <=> pc[u] = "Exited",
             UNCHANGED <<state, exception, failed>>
      PROVE  Counted'
  <2>1. CASE state = "Paused"
    <3>1. threads_running' = threads_running - 1 /\ pc' = [places EXCEPT ![t] = "Pausing"]
      BY <1>6, <2>1 DEF PauseOrTake
    <3> QED
      BY <1>0, <1>6, <3>1, OneLeaves DEF At, ActivePlaces
  <2>2. CASE state # "Paused"
    <3>1. /\ threads_running' = (threads_running - 1) + 1
          /\ pc' = [places EXCEPT ![t] = "Start"]
      BY <1>6, <2>2 DEF PauseOrTake, TakeTask
    <3>2. threads_running' = threads_running
      <4>1. PICK S \in SUBSET ExitedThreads : threads_running = Cardinality(Active \cup S)
        BY DEF Counted
      <4>2. Active \cup S \in SUBSET Threads
        BY DEF Active, ExitedThreads
      <4>3. threads_running \in Nat
        BY <4>1, <4>2, SetOfThreads
      <4> QED
        BY <3>1, <4>3
    <3> QED
      BY <1>0, <1>6, <3>1, <3>2, SameCount DEF At, ActivePlaces
  <2> QED
    BY <2>1, <2>2
<1>7. ASSUME NEW t \in Threads, Take(t) PROVE Counted'
  BY <1>0, <1>6, <1>7 DEF Take
<1>8. ASSUME NEW t \in Threads, TakeAndNotify(t) PROVE Counted'
  <2>1. CASE PauseOrTake(t, threads_running - 1, pc)
    BY <1>0, <1>6, <1>8, <2>1 DEF TakeAndNotify
  <2>2. ASSUME NEW u \in Asleep, PauseOrTake(t, threads_running - 1, [pc EXCEPT ![u] = Woken(pc[u])])
        PROVE  Counted'
    <3> DEFINE places == [pc EXCEPT ![u] = Woken(pc[u])]
    <3>1. places \in [Actors -> Places \cup MainPlaces]
      BY <1>0 DEF Asleep, Woken, Places, AtRest
    <3>2. \A v \in Threads : /\ places[v] \in ActivePlaces <=> pc[v] \in ActivePlaces
                             /\ places[v] = "Exited" <=> pc[v] = "Exited"
      BY <1>0 DEF Asleep, Woken, ActivePlaces
    <3> HIDE DEF places
    <3>3. PauseOrTake(t, threads_running - 1, places)
      BY <2>2 DEF places
    <3> QED
      BY <1>6, <1>8, <3>1, <3>2, <3>3 DEF TakeAndNotify
  <2> QED
    BY <1>8, <2>1, <2>2 DEF TakeAndNotify
<1>9. ASSUME NEW t \in Threads, WakeInVain(t) PROVE Counted'
  BY <1>0, <1>9, SameCount DEF WakeInVain, At, Go, ActivePlaces
<1>10. ASSUME NEW t \in Threads, WakeToExit(t) PROVE Counted'
  BY <1>0, <1>10, SameCount DEF WakeToExit, At, Go, ActivePlaces
<1>11. ASSUME NEW t \in Threads, WakeToTake(t) PROVE Counted'
  <2>1. CASE state = "Paused"
    <3>1. threads_running' = threads_running /\ pc' = [pc EXCEPT ![t] = "Pausing"]
      BY <1>11, <2>1 DEF WakeToTake, PauseOrTake
    <3> QED
      BY <1>0, <1>11, <3>1, SameCount DEF WakeToTake, At, ActivePlaces
  <2>2. CASE state # "Paused"
    <3>1. threads_running' = threads_running + 1 /\ pc' = [pc EXCEPT ![t] = "Start"]
      BY <1>11, <2>2 DEF WakeToTake, PauseOrTake, TakeTask
    <3> QED
      BY <1>0, <1>11, <3>1, OneJoins DEF WakeToTake, At, ActivePlaces
  <2> QED
    BY <2>1, <2>2
<1>12. ASSUME NEW t \in Threads, WakeFromPause(t) PROVE Counted'
  <2>1. CASE state = "Paused"
    BY <1>0, <1>12, <2>1, SameCount DEF WakeFromPause, At, Go, ActivePlaces
  <2>2. CASE state # "Paused"
    BY <1>0, <1>12, <2>2, OneJoins DEF WakeFromPause, At, Go, ActivePlaces
  <2> QED
    BY <2>1, <2>2
<1>13. ASSUME NEW t \in Threads, SpuriousWakeup(t) PROVE Counted'
  BY <1>0, <1>13, SameCount DEF SpuriousWakeup, Go, Asleep, Woken, ActivePlaces
<1>14. ASSUME NEW t \in Threads, Relaxed(t) PROVE Counted'
  BY <1>0, <1>14, OneJoins DEF Relaxed, At, Go, ActivePlaces
<1>15. ASSUME NEW t \in Threads, Finish(t) PROVE Counted'
  BY <1>0, <1>15, SameCount DEF Finish, At, Broadcast, NotifyAll, Asleep, Woken, ActivePlaces
<1>16. ASSUME NEW t \in Threads, Start(t) PROVE Counted'
  BY <1>0, <1>16, SameCount DEF Start, At, Go, ActivePlaces
<1>17. ASSUME NEW t \in Threads, NEW n \in 1 .. Capacity, Process(t, n) PROVE Counted'
  BY <1>0, <1>17, SameCount DEF Process, At, TryThen, Go, ActivePlaces
<1>18. ASSUME NEW t \in Threads, ProcessEof(t) PROVE Counted'
  BY <1>0, <1>18, SameCount DEF ProcessEof, At, Go, ActivePlaces
<1>19. ASSUME NEW t \in Threads, Throw(t) PROVE Counted'
  <2>1. pc[t] = "Process" /\ threads_running' = threads_running /\ state' = "Stopped"
    BY <1>0, <1>19 DEF Throw, At, Broadcast
  <2>2. \/ pc' = [pc EXCEPT ![t] = "Exited"]
        \/ pc' = NotifyAll([pc EXCEPT ![t] = "Exited"])
    BY <1>19 DEF Throw, Broadcast
  <2>3. /\ pc'[t] = "Exited"
        /\ \A u \in Threads \ {t} : /\ pc'[u] \in ActivePlaces <=> pc[u] \in ActivePlaces
                                    /\ pc'[u] = "Exited" <=> pc[u] = "Exited"
    BY <1>0, <2>1, <2>2 DEF NotifyAll, Asleep, Woken, ActivePlaces
  <2> QED
    BY <2>1, <2>3, OneThrows DEF ActivePlaces
<1>20. ASSUME NEW t \in Threads, Provide(t) PROVE Counted'
  BY <1>0, <1>20, SameCount DEF Provide, At, TryThen, Go, ActivePlaces
<1>21. ASSUME NEW t \in Threads, Done(t) PROVE Counted'
  BY <1>0, <1>21, SameCount DEF Done, At, TryThen, Go, ActivePlaces
<1>22. CASE Pause
  <2>1. failed' = {} => state = "Running"
    BY <1>22 DEF Pause, Check
  <2> QED
    BY <1>0, <1>22, <2>1, SameCount DEF Pause, At, Broadcast, NotifyAll, Asleep, Woken, ActivePlaces
<1>23. CASE Reset
  BY <1>0, <1>23, SameCount DEF Reset, At, TryThen, Go, ActivePlaces
<1>24. CASE Resume
  BY <1>0, <1>24, SameCount DEF Resume, Broadcast, NotifyAll, Asleep, Woken, ActivePlaces
<1>25. CASE Stop
  BY <1>0, <1>25, SameCount DEF Stop, Broadcast, NotifyAll, Asleep, Woken, ActivePlaces
<1>26. CASE Wait
  BY <1>0, <1>26, SameCount DEF Wait, Go, ActivePlaces
<1>27. CASE Finalize
  BY <1>0, <1>27, SameCount DEF Finalize, At, Go, ActivePlaces
<1>28. CASE UNCHANGED vars
  BY <1>0, <1>28, SameCount DEF vars, ActivePlaces
<1> QED
  BY <1>1, <1>2, <1>3, <1>4, <1>5, <1>7, <1>8, <1>9, <1>10, <1>11, <1>12, <1>13, <1>14,
     <1>15, <1>16, <1>17, <1>18, <1>19, <1>20, <1>21, <1>22, <1>23, <1>24, <1>25, <1>26,
     <1>27, <1>28
  DEF Next, Worker, Controller, Terminated, Actors

(***************************************************************************)
(* A worker decides that it is the last one from the truth.                *)
(***************************************************************************)
LEMMA CountedRunning ==
  ASSUME Counted, failed = {}, state # "Stopped"
  PROVE  threads_running = Cardinality(Active)
<1>1. PICK S \in SUBSET ExitedThreads : threads_running = Cardinality(Active \cup S)
  BY DEF Counted
<1>2. Active \cup S = Active
  BY <1>1 DEF Counted
<1> QED
  BY <1>1, <1>2

LEMMA OnlyActive ==
  ASSUME Counted, failed = {}, state # "Stopped", NEW t \in Active
  PROVE  threads_running = 1 <=> Active = {t}
<1>1. threads_running = Cardinality(Active)
  BY CountedRunning
<1>2. Active \in SUBSET Threads /\ IsFiniteSet(Active)
  BY SetOfThreads DEF Active
<1>3. Cardinality(Active) = 1 <=> \E u : Active = {u}
  BY <1>2, FS_Singleton
<1> QED
  BY <1>1, <1>3

(* While the pipeline goes on, threads_running_ is the number of workers   *)
(* that run, however they go to sleep, are woken, pause or retry blocks    *)
(* with relaxed sizes (pipeline.cpp:279-341).                              *)
THEOREM RunningIsCounted == Spec => [](NoCheckFails => RunningCounted)
<1>1. Init => Types /\ Counted
  BY InitTypes, InitCounted
<1>2. Types /\ Counted /\ [Next]_vars => Types' /\ Counted'
  BY TypesStep, CountedStep
<1>3. Counted => (NoCheckFails => RunningCounted)
  BY CountedRunning DEF NoCheckFails, RunningCounted
<1> QED
  BY <1>1, <1>2, <1>3, PTL DEF Spec
-----------------------------------------------------------------------------
(***************************************************************************)
(* threads_waiting_ and threads_waking_up_ never count more workers than   *)
(* there are in the idle wait: with a stopped pipeline nobody is counted   *)
(* as waiting, so a worker that leaves the wait without a wake-up leaves   *)
(* none behind.                                                            *)
(***************************************************************************)
IdleWait == {t \in Threads : pc[t] \in {"Sleeping", "Woken"}}

WaitersKnown ==
  /\ threads_waiting \in Nat /\ threads_waking_up \in Nat
  /\ state = "Stopped" => threads_waiting = 0
  /\ threads_waiting + threads_waking_up <= Cardinality(IdleWait)

LEMMA InitWaitersKnown == Init => WaitersKnown
<1>1. IdleWait \in SUBSET Threads
  BY DEF IdleWait
<1> QED
  BY <1>1, SetOfThreads DEF Init, WaitersKnown

(* Nobody comes or goes.                                                   *)
LEMMA SameWaiters ==
  ASSUME WaitersKnown,
         \A t \in Threads : pc'[t] \in {"Sleeping", "Woken"} <=> pc[t] \in {"Sleeping", "Woken"},
         \/ UNCHANGED <<threads_waiting, threads_waking_up>> /\ (state' = "Stopped" => state = "Stopped")
         \/ threads_waiting' = 0 /\ threads_waking_up' = threads_waking_up
         \/ /\ threads_waiting' \in Nat /\ threads_waking_up' \in Nat
            /\ threads_waiting' + threads_waking_up' = threads_waiting + threads_waking_up
            /\ state' # "Stopped"
  PROVE  WaitersKnown'
<1>1. IdleWait' = IdleWait
  BY DEF IdleWait
<1>2. Cardinality(IdleWait) \in Nat
  BY SetOfThreads DEF IdleWait
<1> QED
  BY <1>1, <1>2 DEF WaitersKnown

LEMMA WaitersKnownStep ==
  ASSUME Types, WaitersKnown, [Next]_vars PROVE WaitersKnown'
<1> USE GraphAssumption
<1> USE DEF pool, modes, trying, control
<1>0. /\ Actors = Threads \cup {Main} /\ Main \notin Threads
      /\ pc \in [Actors -> Places \cup MainPlaces]
      /\ threads_waiting \in Nat /\ threads_waking_up \in Nat
  BY DEF Types, Actors, WaitersKnown
<1>1. ASSUME NEW t \in Actors, TrySchedulingBlock(t) PROVE WaitersKnown'
  BY <1>0, <1>1, SameWaiters DEF TrySchedulingBlock, Claim, Skip, Evaluate, Commit
<1>2. ASSUME NEW t \in Threads, Exit(t) PROVE WaitersKnown'
  BY <1>0, <1>2, SameWaiters DEF Exit, At, Go
<1>3. ASSUME NEW t \in Threads, EnterRelaxedMode(t) PROVE WaitersKnown'
  BY <1>0, <1>3, SameWaiters DEF EnterRelaxedMode, At, TryThen, Go
<1>4. ASSUME NEW t \in Threads, BeginFinish(t) PROVE WaitersKnown'
  BY <1>0, <1>4, SameWaiters DEF BeginFinish, At, TryThen, Go
<1>5. ASSUME NEW t \in Threads, Sleep(t) PROVE WaitersKnown'
  <2>1. IdleWait' = IdleWait \cup {t} /\ t \notin IdleWait /\ IdleWait \in SUBSET Threads
    BY <1>0, <1>5 DEF Sleep, At, Go, IdleWait
  <2>2. Cardinality(IdleWait') = Cardinality(IdleWait) + 1 /\ Cardinality(IdleWait) \in Nat
    BY <2>1, SetOfThreads
  <2>3. /\ threads_waiting' \in Nat /\ threads_waking_up' \in Nat
        /\ threads_waiting' + threads_waking_up' = threads_waiting + threads_waking_up + 1
        /\ state' # "Stopped"
    BY <1>0, <1>5 DEF Sleep, StolenWakeup
  <2>4. threads_waiting + threads_waking_up <= Cardinality(IdleWait)
    BY DEF WaitersKnown
  <2>5. threads_waiting + threads_waking_up + 1 <= Cardinality(IdleWait) + 1
    BY <1>0, <2>2, <2>4
  <2>6. threads_waiting' + threads_waking_up' <= Cardinality(IdleWait')
    BY <2>2, <2>3, <2>5
  <2> QED
    BY <2>3, <2>6 DEF WaitersKnown
<1>6. ASSUME NEW t \in Threads, Take(t) PROVE WaitersKnown'
  <2>1. UNCHANGED <<state, threads_waiting, threads_waking_up>>
    BY <1>6 DEF Take
  <2>2. \A u \in Threads : pc'[u] \in {"Sleeping", "Woken"} <=> pc[u] \in {"Sleeping", "Woken"}
    BY <1>0, <1>6 DEF Take, PauseOrTake, TakeTask, At
  <2> QED
    BY <2>1, <2>2, SameWaiters
<1>7. ASSUME NEW t \in Threads, TakeAndNotify(t) PROVE WaitersKnown'
  <2>1. /\ threads_waiting' \in Nat /\ threads_waking_up' \in Nat
        /\ threads_waiting' + threads_waking_up' = threads_waiting + threads_waking_up
        /\ state' # "Stopped"
    BY <1>0, <1>7 DEF TakeAndNotify, Overloaded
  <2>2. \A u \in Threads : pc'[u] \in {"Sleeping", "Woken"} <=> pc[u] \in {"Sleeping", "Woken"}
    BY <1>0, <1>7 DEF TakeAndNotify, PauseOrTake, TakeTask, At, Asleep, Woken
  <2> QED
    BY <2>1, <2>2, SameWaiters
<1>8. ASSUME NEW t \in Threads, WakeInVain(t) PROVE WaitersKnown'
  BY <1>0, <1>8, SameWaiters DEF WakeInVain, ConsumeWakeup, Ready, At, Go
<1>9. ASSUME NEW t \in Threads, WakeToExit(t) \/ WakeToTake(t) PROVE WaitersKnown'
  <2>1. IdleWait' = IdleWait \ {t} /\ t \in IdleWait /\ IdleWait \in SUBSET Threads
    BY <1>0, <1>9 DEF WakeToExit, WakeToTake, PauseOrTake, TakeTask, At, Go, IdleWait
  <2>2. Cardinality(IdleWait') = Cardinality(IdleWait) - 1 /\ Cardinality(IdleWait) \in Nat
    BY <2>1, SetOfThreads
  <2>3. Cardinality(IdleWait) # 0
    BY <2>1, FS_EmptySet, SetOfThreads
  <2>4. \/ threads_waking_up' = threads_waking_up - 1 /\ threads_waiting' = threads_waiting
           /\ threads_waking_up > 0
        \/ UNCHANGED <<threads_waiting, threads_waking_up>> /\ state = "Stopped"
           /\ threads_waking_up = 0
    BY <1>0, <1>9 DEF WakeToExit, WakeToTake, ConsumeWakeup, Ready
  <2>5. state' = state
    BY <1>9 DEF WakeToExit, WakeToTake
  <2> QED
    BY <1>0, <2>2, <2>3, <2>4, <2>5 DEF WaitersKnown
<1>10. ASSUME NEW t \in Threads, WakeFromPause(t) PROVE WaitersKnown'
  BY <1>0, <1>10, SameWaiters DEF WakeFromPause, At, Go
<1>11. ASSUME NEW t \in Threads, SpuriousWakeup(t) PROVE WaitersKnown'
  BY <1>0, <1>11, SameWaiters DEF SpuriousWakeup, Go, Asleep, Woken
<1>12. ASSUME NEW t \in Threads, Relaxed(t) PROVE WaitersKnown'
  BY <1>0, <1>12, SameWaiters DEF Relaxed, At, Go
<1>13. ASSUME NEW t \in Threads, Finish(t) PROVE WaitersKnown'
  BY <1>0, <1>13, SameWaiters DEF Finish, At, Broadcast, NotifyAll, Asleep, Woken
<1>14. ASSUME NEW t \in Threads, Start(t) PROVE WaitersKnown'
  BY <1>0, <1>14, SameWaiters DEF Start, At, Go
<1>15. ASSUME NEW t \in Threads, NEW n \in 1 .. Capacity, Process(t, n) PROVE WaitersKnown'
  BY <1>0, <1>15, SameWaiters DEF Process, At, TryThen, Go
<1>16. ASSUME NEW t \in Threads, ProcessEof(t) PROVE WaitersKnown'
  BY <1>0, <1>16, SameWaiters DEF ProcessEof, At, Go
<1>17. ASSUME NEW t \in Threads, Throw(t) PROVE WaitersKnown'
  BY <1>0, <1>17, SameWaiters DEF Throw, At, Broadcast, NotifyAll, Asleep, Woken
<1>18. ASSUME NEW t \in Threads, Provide(t) PROVE WaitersKnown'
  BY <1>0, <1>18, SameWaiters DEF Provide, At, TryThen, Go
<1>19. ASSUME NEW t \in Threads, Done(t) PROVE WaitersKnown'
  BY <1>0, <1>19, SameWaiters DEF Done, At, TryThen, Go
<1>20. ASSUME Pause \/ Resume \/ Stop PROVE WaitersKnown'
  BY <1>0, <1>20, SameWaiters DEF Pause, Resume, Stop, Broadcast, NotifyAll, Asleep, Woken
<1>21. ASSUME Reset \/ Wait \/ Finalize PROVE WaitersKnown'
  BY <1>0, <1>21, SameWaiters DEF Reset, Wait, Finalize, At, TryThen, Go
<1>22. CASE UNCHANGED vars
  BY <1>0, <1>22, SameWaiters DEF vars
<1> QED
  BY <1>1, <1>2, <1>3, <1>4, <1>5, <1>6, <1>7, <1>8, <1>9, <1>10, <1>11, <1>12, <1>13, <1>14,
     <1>15, <1>16, <1>17, <1>18, <1>19, <1>20, <1>21, <1>22
  DEF Next, Worker, Controller, Terminated, Actors

(* A wake-up is never given to more workers than there are in the idle     *)
(* wait (pipeline.cpp:310-343).                                            *)
THEOREM WaitersAreCounted == Spec => []WaitersCounted
<1>1. Init => Types /\ WaitersKnown
  BY InitTypes, InitWaitersKnown
<1>2. Types /\ WaitersKnown /\ [Next]_vars => Types' /\ WaitersKnown'
  BY TypesStep, WaitersKnownStep
<1>3. WaitersKnown => WaitersCounted
  BY DEF WaitersKnown, WaitersCounted, IdleWait
<1> QED
  BY <1>1, <1>2, <1>3, PTL DEF Spec
-----------------------------------------------------------------------------
(***************************************************************************)
(* The relaxed mode: one worker at most retries the blocks, is known to do *)
(* so by scheduling_, and only it may be missing in threads_running_.      *)
(***************************************************************************)
Relaxation ==
  /\ \A t \in Threads : pc[t] = "Relaxing" => scheduling /\ relaxed_mode
  /\ \A t, u \in Threads : pc[t] = "Relaxing" /\ pc[u] = "Relaxing" => t = u
  /\ scheduling => \E t \in Threads : pc[t] = "Relaxing"
  /\ \A t \in Threads : pc[t] = "Finishing" => relaxed_mode

LEMMA InitRelaxation == Init => Relaxation
<1> SUFFICES ASSUME Init PROVE Relaxation
  OBVIOUS
<1>1. \A t \in Threads : pc[t] = "Top"
  BY GraphAssumption DEF Init, Actors
<1>2. scheduling = FALSE
  BY DEF Init
<1> QED
  BY <1>1, <1>2 DEF Relaxation

LEMMA SameRelaxation ==
  ASSUME Relaxation, UNCHANGED <<scheduling, relaxed_mode>>,
         \A t \in Threads : /\ pc'[t] = "Relaxing" <=> pc[t] = "Relaxing"
                            /\ pc'[t] = "Finishing" => pc[t] = "Finishing" \/ relaxed_mode
  PROVE  Relaxation'
BY DEF Relaxation

LEMMA RelaxationStep ==
  ASSUME Types, Relaxation, [Next]_vars PROVE Relaxation'
<1> USE GraphAssumption
<1> USE DEF pool, modes, trying, control
<1>0. /\ Actors = Threads \cup {Main} /\ Main \notin Threads
      /\ pc \in [Actors -> Places \cup MainPlaces]
  BY DEF Types, Actors
<1>1. ASSUME NEW t \in Actors, TrySchedulingBlock(t) PROVE Relaxation'
  BY <1>0, <1>1, SameRelaxation DEF TrySchedulingBlock, Claim, Skip, Evaluate, Commit
<1>2. ASSUME NEW t \in Threads, Exit(t) \/ Sleep(t) PROVE Relaxation'
  BY <1>0, <1>2, SameRelaxation DEF Exit, Sleep, At, Go
<1>3. ASSUME NEW t \in Threads, EnterRelaxedMode(t) PROVE Relaxation'
  <2>1. /\ pc' = [pc EXCEPT ![t] = "Relaxing"] /\ relaxed_mode' = TRUE /\ scheduling' = TRUE
        /\ ~scheduling
    BY <1>3 DEF EnterRelaxedMode, TryThen, Go, Last
  <2> QED
    BY <1>0, <2>1 DEF Relaxation
<1>4. ASSUME NEW t \in Threads, BeginFinish(t) PROVE Relaxation'
  BY <1>0, <1>4, SameRelaxation DEF BeginFinish, At, TryThen, Go
<1>5. ASSUME NEW t \in Threads, Take(t) PROVE Relaxation'
  <2>1. /\ pc[t] = "Top" /\ UNCHANGED <<scheduling, relaxed_mode>>
        /\ \/ pc' = [pc EXCEPT ![t] = "Pausing"]
           \/ pc' = [pc EXCEPT ![t] = "Start"]
    BY <1>5 DEF Take, PauseOrTake, TakeTask, At
  <2> QED
    BY <1>0, <2>1, SameRelaxation
<1>6. ASSUME NEW t \in Threads, TakeAndNotify(t) PROVE Relaxation'
  <2>1. \A u \in Threads :
          \/ pc'[u] = pc[u]
          \/ pc[u] = "Top" /\ pc'[u] \in {"Start", "Pausing"}
          \/ pc[u] \in {"Sleeping", "Pausing"} /\ pc'[u] \in {"Woken", "PauseWoken"}
    BY <1>0, <1>6 DEF TakeAndNotify, PauseOrTake, TakeTask, At, Asleep, Woken
  <2> QED
    BY <1>6, <2>1, SameRelaxation DEF TakeAndNotify
<1>7. ASSUME NEW t \in Threads, WakeInVain(t) \/ WakeToExit(t) \/ WakeFromPause(t)
      PROVE  Relaxation'
  BY <1>0, <1>7, SameRelaxation DEF WakeInVain, WakeToExit, WakeFromPause, At, Go
<1>8. ASSUME NEW t \in Threads, WakeToTake(t) PROVE Relaxation'
  BY <1>0, <1>8, SameRelaxation DEF WakeToTake, PauseOrTake, TakeTask, At
<1>9. ASSUME NEW t \in Threads, SpuriousWakeup(t) PROVE Relaxation'
  BY <1>0, <1>9, SameRelaxation DEF SpuriousWakeup, Go, Asleep, Woken
<1>10. ASSUME NEW t \in Threads, Relaxed(t) PROVE Relaxation'
  <2>1. /\ pc' = [pc EXCEPT ![t] = "Top"] /\ pc[t] = "Relaxing" /\ scheduling' = FALSE
        /\ relaxed_mode' = relaxed_mode
    BY <1>10 DEF Relaxed, At, Go
  <2> QED
    BY <1>0, <2>1 DEF Relaxation
<1>11. ASSUME NEW t \in Threads, Finish(t) PROVE Relaxation'
  BY <1>0, <1>11, SameRelaxation DEF Finish, At, Broadcast, NotifyAll, Asleep, Woken
<1>12. ASSUME NEW t \in Threads, Start(t) PROVE Relaxation'
  BY <1>0, <1>12, SameRelaxation DEF Start, At, Go
<1>13. ASSUME NEW t \in Threads, NEW n \in 1 .. Capacity, Process(t, n) PROVE Relaxation'
  BY <1>0, <1>13, SameRelaxation DEF Process, At, TryThen, Go
<1>14. ASSUME NEW t \in Threads, ProcessEof(t) \/ Provide(t) \/ Done(t) PROVE Relaxation'
  BY <1>0, <1>14, SameRelaxation DEF ProcessEof, Provide, Done, At, TryThen, Go
<1>15. ASSUME NEW t \in Threads, Throw(t) PROVE Relaxation'
  BY <1>0, <1>15, SameRelaxation DEF Throw, At, Broadcast, NotifyAll, Asleep, Woken
<1>16. ASSUME Pause \/ Resume \/ Stop PROVE Relaxation'
  BY <1>0, <1>16, SameRelaxation DEF Pause, Resume, Stop, Broadcast, NotifyAll, Asleep, Woken
<1>17. ASSUME Reset \/ Wait \/ Finalize PROVE Relaxation'
  BY <1>0, <1>17, SameRelaxation DEF Reset, Wait, Finalize, At, TryThen, Go
<1>18. CASE UNCHANGED vars
  BY <1>0, <1>18, SameRelaxation DEF vars
<1> QED
  BY <1>1, <1>2, <1>3, <1>4, <1>5, <1>6, <1>7, <1>8, <1>9, <1>10, <1>11, <1>12, <1>13, <1>14,
     <1>15, <1>16, <1>17, <1>18
  DEF Next, Worker, Controller, Terminated, Actors
-----------------------------------------------------------------------------
(***************************************************************************)
(* Somebody is awake: the last worker never joins the idle wait, and a     *)
(* pause is left by everybody when the pipeline goes on.                   *)
(***************************************************************************)
Awake ==
  failed = {} =>
    /\ state # "Stopped" => \E t \in Threads : pc[t] \notin {"Sleeping", "Woken"}
    /\ state = "Running" => \A t \in Threads : pc[t] # "Pausing"

LEMMA InitAwake == Init => Awake
<1> SUFFICES ASSUME Init PROVE Awake
  OBVIOUS
<1>1. \A t \in Threads : pc[t] = "Top"
  BY GraphAssumption DEF Init, Actors
<1> QED
  BY <1>1, GraphAssumption DEF Awake

(* Nobody joins the idle wait, and who pauses is allowed to.               *)
LEMMA StillAwake ==
  ASSUME Awake,
         failed' = {} /\ state' # "Stopped" => failed = {} /\ state # "Stopped",
         failed' = {} => failed = {},
         \A t \in Threads : pc'[t] \in {"Sleeping", "Woken"} => pc[t] \in {"Sleeping", "Woken"},
         state' = "Running" => \A t \in Threads : pc'[t] = "Pausing" =>
                                                    state = "Running" /\ pc[t] = "Pausing"
  PROVE  Awake'
BY DEF Awake

LEMMA AwakeStep ==
  ASSUME Types, Counted, Relaxation, Awake, [Next]_vars PROVE Awake'
<1> USE GraphAssumption
<1> USE DEF pool, modes, trying, control
<1>0. /\ Actors = Threads \cup {Main} /\ Main \notin Threads
      /\ pc \in [Actors -> Places \cup MainPlaces]
  BY DEF Types, Actors
<1>1. ASSUME NEW t \in Actors, TrySchedulingBlock(t) PROVE Awake'
  BY <1>0, <1>1, StillAwake DEF TrySchedulingBlock, Claim, Skip, Evaluate, Commit
<1>2. ASSUME NEW t \in Threads, Exit(t) PROVE Awake'
  BY <1>0, <1>2, StillAwake DEF Exit, At, Go
<1>3. ASSUME NEW t \in Threads, EnterRelaxedMode(t) \/ BeginFinish(t) PROVE Awake'
  BY <1>0, <1>3, StillAwake DEF EnterRelaxedMode, BeginFinish, At, TryThen, Go
<1>4. ASSUME NEW t \in Threads, Sleep(t) PROVE Awake'
  <2>1. /\ pc[t] = "Top" /\ pc' = [pc EXCEPT ![t] = "Sleeping"]
        /\ failed = {} /\ state # "Stopped" /\ queue = <<>> /\ ~Last
        /\ UNCHANGED <<state, failed>>
    BY <1>4 DEF Sleep, At, Go
  <2>2. \E u \in Threads \ {t} : pc[u] \notin {"Sleeping", "Woken"}
    <3>1. CASE scheduling
      BY <2>1, <3>1 DEF Relaxation
    <3>2. CASE ~scheduling
      <4>1. t \in Active
        BY <2>1 DEF Active
      <4>2. Active # {t}
        BY <2>1, <3>2, <4>1, OnlyActive DEF Last
      <4>3. PICK u \in Active : u # t
        BY <4>1, <4>2
      <4> QED
        BY <4>3 DEF Active
    <3> QED
      BY <3>1, <3>2
  <2> QED
    BY <1>0, <2>1, <2>2 DEF Awake
<1>5. ASSUME NEW t \in Threads, Take(t) PROVE Awake'
  <2>1. \A u \in Threads :
          \/ pc'[u] = pc[u]
          \/ pc'[u] = "Start"
          \/ pc'[u] = "Pausing" /\ state = "Paused"
    BY <1>0, <1>5 DEF Take, PauseOrTake, TakeTask
  <2> QED
    BY <1>5, <2>1, StillAwake DEF Take
<1>6. ASSUME NEW t \in Threads, TakeAndNotify(t) PROVE Awake'
  <2>1. \A u \in Threads :
          \/ pc'[u] = pc[u]
          \/ pc'[u] = "Start"
          \/ pc'[u] = "Pausing" /\ state = "Paused"
          \/ pc[u] = "Sleeping" /\ pc'[u] = "Woken"
          \/ pc[u] = "Pausing" /\ pc'[u] = "PauseWoken"
    BY <1>0, <1>6 DEF TakeAndNotify, PauseOrTake, TakeTask, Asleep, Woken
  <2> QED
    BY <1>6, <2>1, StillAwake DEF TakeAndNotify
<1>7. ASSUME NEW t \in Threads, WakeInVain(t) \/ WakeToExit(t) PROVE Awake'
  BY <1>0, <1>7, StillAwake DEF WakeInVain, WakeToExit, At, Go
<1>8. ASSUME NEW t \in Threads, WakeToTake(t) PROVE Awake'
  BY <1>0, <1>8, StillAwake DEF WakeToTake, PauseOrTake, TakeTask
<1>9. ASSUME NEW t \in Threads, WakeFromPause(t) PROVE Awake'
  <2>1. \/ pc' = [pc EXCEPT ![t] = "Pausing"] /\ state = "Paused"
        \/ pc' = [pc EXCEPT ![t] = "Top"]
    BY <1>9 DEF WakeFromPause, Go
  <2>2. \A u \in Threads :
          \/ pc'[u] = pc[u]
          \/ pc'[u] = "Top"
          \/ pc'[u] = "Pausing" /\ state = "Paused"
    BY <1>0, <2>1
  <2> QED
    BY <1>9, <2>2, StillAwake DEF WakeFromPause
<1>10. ASSUME NEW t \in Threads, SpuriousWakeup(t) PROVE Awake'
  BY <1>0, <1>10, StillAwake DEF SpuriousWakeup, Go, Asleep, Woken
<1>11. ASSUME NEW t \in Threads, Relaxed(t) PROVE Awake'
  BY <1>0, <1>11, StillAwake DEF Relaxed, At, Go
<1>12. ASSUME NEW t \in Threads, Finish(t) PROVE Awake'
  BY <1>0, <1>12, StillAwake DEF Finish, At, Broadcast, NotifyAll, Asleep, Woken
<1>13. ASSUME NEW t \in Threads, Start(t) PROVE Awake'
  BY <1>0, <1>13, StillAwake DEF Start, At, Go
<1>14. ASSUME NEW t \in Threads, NEW n \in 1 .. Capacity, Process(t, n) PROVE Awake'
  BY <1>0, <1>14, StillAwake DEF Process, At, TryThen, Go
<1>15. ASSUME NEW t \in Threads, ProcessEof(t) \/ Provide(t) \/ Done(t) PROVE Awake'
  BY <1>0, <1>15, StillAwake DEF ProcessEof, Provide, Done, At, TryThen, Go
<1>16. ASSUME NEW t \in Threads, Throw(t) PROVE Awake'
  <2>1. failed' = {} => failed = {} /\ state' = "Stopped"
    BY <1>16 DEF Throw, At, Broadcast, Counted
  <2> QED
    BY <2>1 DEF Awake
<1>17. ASSUME Pause PROVE Awake'
  <2>1. failed' = {} => failed = {} /\ state = "Running"
    BY <1>17 DEF Pause, At, Check
  <2>2. state' = "Paused"
    BY <1>17 DEF Pause, Broadcast
  <2>3. \A t \in Threads : pc'[t] \in {"Sleeping", "Woken"} => pc[t] \in {"Sleeping", "Woken"}
    BY <1>0, <1>17 DEF Pause, Broadcast, NotifyAll, Asleep, Woken
  <2> QED
    BY <2>1, <2>2, <2>3, StillAwake
<1>18. ASSUME Resume PROVE Awake'
  <2>1. state = "Paused" /\ UNCHANGED failed
    BY <1>18 DEF Resume
  <2>2. \A t \in Threads : /\ pc'[t] \in {"Sleeping", "Woken"} => pc[t] \in {"Sleeping", "Woken"}
                           /\ pc'[t] # "Pausing"
    BY <1>0, <1>18 DEF Resume, Broadcast, NotifyAll, Asleep, Woken
  <2> QED
    BY <2>1, <2>2, StillAwake
<1>19. ASSUME Stop PROVE Awake'
  <2>1. state' = "Stopped"
    BY <1>19 DEF Stop, Broadcast
  <2> QED
    BY <2>1 DEF Awake
<1>20. ASSUME Reset \/ Wait \/ Finalize PROVE Awake'
  BY <1>0, <1>20, StillAwake DEF Reset, Wait, Finalize, Check, At, TryThen, Go
<1>21. CASE UNCHANGED vars
  BY <1>0, <1>21, StillAwake DEF vars
<1> QED
  BY <1>1, <1>2, <1>3, <1>4, <1>5, <1>6, <1>7, <1>8, <1>9, <1>10, <1>11, <1>12, <1>13, <1>14,
     <1>15, <1>16, <1>17, <1>18, <1>19, <1>20, <1>21
  DEF Next, Worker, Controller, Terminated, Actors

(* As long as the pipeline is running, some worker is not asleep: nobody   *)
(* else would ever wake the others (pipeline.cpp:279-341).                 *)
THEOREM NotAllAsleep == Spec => [](NoCheckFails => SomebodyAwake)
<1>1. Init => Types /\ Counted /\ Relaxation /\ Awake
  BY InitTypes, InitCounted, InitRelaxation, InitAwake
<1>2. Types /\ Counted /\ Relaxation /\ Awake /\ [Next]_vars
        => Types' /\ Counted' /\ Relaxation' /\ Awake'
  BY TypesStep, CountedStep, RelaxationStep, AwakeStep
<1>3. Counted /\ Awake => (NoCheckFails => SomebodyAwake)
  BY DEF Counted, Awake, NoCheckFails, SomebodyAwake, ExitedThreads
<1> QED
  BY <1>1, <1>2, <1>3, PTL DEF Spec
-----------------------------------------------------------------------------
(***************************************************************************)
(* The program schedules blocks itself only between reset() and resume(),  *)
(* when all workers are at rest.                                           *)
(***************************************************************************)
MainTries == failed = {} /\ Trying(Main) => pc[Main] = "Reset" /\ state = "Paused" /\ Quiet

LEMMA InitMainTries == Init => MainTries
BY DEF Init, MainTries, Trying, Actors

LEMMA MainTriesStep ==
  ASSUME Types, MainTries, [Next]_vars, "reset" \notin Script PROVE MainTries'
<1> USE GraphAssumption
<1> USE DEF pool, modes, trying, control
<1>0. /\ Actors = Threads \cup {Main} /\ Main \notin Threads
      /\ pc \in [Actors -> Places \cup MainPlaces]
      /\ todo \in [Actors -> SUBSET Blocks] /\ claimed \in [Actors -> Blocks \cup {NoBlock}]
      /\ \A t \in Threads : pc[t] \in AtRest => ~Trying(t)
  BY DEF Types, Actors
<1> SUFFICES ASSUME failed' = {}, Trying(Main)'
             PROVE  pc'[Main] = "Reset" /\ state' = "Paused" /\ Quiet'
  BY DEF MainTries
<1>1. CASE Reset
  <2>1. /\ state = "Paused" /\ Quiet /\ state' = state
        /\ pc' = [pc EXCEPT ![Main] = "Reset"]
    BY <1>1 DEF Reset, Check, TryThen, Go
  <2> QED
    BY <1>0, <2>1 DEF Quiet
<1>2. CASE ~Reset
  <2>1. ASSUME NEW t \in Threads, Worker(t) \/ SpuriousWakeup(t)
        PROVE  (Trying(Main)' <=> Trying(Main)) /\ pc'[Main] = pc[Main] /\ failed = {}
    <3>1. ASSUME TrySchedulingBlock(t) PROVE (Trying(Main)' <=> Trying(Main)) /\ UNCHANGED <<pc, failed>>
      BY <1>0, <3>1 DEF TrySchedulingBlock, Claim, Skip, Evaluate, Commit, Trying
    <3>2. ASSUME ~TrySchedulingBlock(t)
          PROVE  /\ \A u \in Actors \ {t} : todo'[u] = todo[u] /\ claimed'[u] = claimed[u]
                 /\ failed = {}
      <4>1. CASE \/ Exit(t) \/ EnterRelaxedMode(t) \/ BeginFinish(t) \/ Sleep(t)
                 \/ Take(t) \/ TakeAndNotify(t)
        BY <1>0, <4>1 DEF Exit, EnterRelaxedMode, BeginFinish, Sleep, Take, TakeAndNotify,
           At, TryThen
      <4>2. CASE \/ WakeInVain(t) \/ WakeToExit(t) \/ WakeToTake(t) \/ WakeFromPause(t)
                 \/ Relaxed(t) \/ Finish(t) \/ Start(t) \/ SpuriousWakeup(t)
        BY <1>0, <4>2 DEF WakeInVain, WakeToExit, WakeToTake, WakeFromPause, Relaxed, Finish,
           Start, SpuriousWakeup, At
      <4>3. CASE \E n \in 1 .. Capacity : Process(t, n)
        BY <1>0, <4>3 DEF Process, At, TryThen
      <4>4. CASE ProcessEof(t) \/ Throw(t) \/ Provide(t) \/ Done(t)
        BY <1>0, <4>4 DEF ProcessEof, Throw, Provide, Done, At, TryThen
      <4> QED
        BY <2>1, <3>2, <4>1, <4>2, <4>3, <4>4 DEF Worker
    <3>3. pc'[Main] = pc[Main]
      <4>1. CASE \/ Exit(t) \/ EnterRelaxedMode(t) \/ BeginFinish(t) \/ Sleep(t)
        BY <1>0, <4>1 DEF Exit, EnterRelaxedMode, BeginFinish, Sleep, TryThen, Go
      <4>2. CASE Take(t) \/ TakeAndNotify(t) \/ WakeToTake(t)
        BY <1>0, <4>2 DEF Take, TakeAndNotify, WakeToTake, PauseOrTake, TakeTask, Asleep
      <4>3. CASE WakeInVain(t) \/ WakeToExit(t) \/ WakeFromPause(t)
        BY <1>0, <4>3 DEF WakeInVain, WakeToExit, WakeFromPause, Go
      <4>4. CASE Relaxed(t) \/ Start(t) \/ SpuriousWakeup(t) \/ ProcessEof(t)
        BY <1>0, <4>4 DEF Relaxed, Start, SpuriousWakeup, ProcessEof, Go
      <4>5. CASE Finish(t) \/ Throw(t)
        BY <1>0, <4>5 DEF Finish, Throw, Broadcast, NotifyAll, Asleep
      <4>6. CASE \E n \in 1 .. Capacity : Process(t, n)
        BY <1>0, <4>6 DEF Process, TryThen, Go
      <4>7. CASE Provide(t) \/ Done(t)
        BY <1>0, <4>7 DEF Provide, Done, TryThen, Go
      <4> QED
        BY <2>1, <3>1, <4>1, <4>2, <4>3, <4>4, <4>5, <4>6, <4>7 DEF Worker
    <3>4. CASE TrySchedulingBlock(t)
      <4>1. failed = {}
        BY <3>4 DEF TrySchedulingBlock, Claim, Skip, Evaluate, Commit
      <4> QED
        BY <3>1, <3>3, <3>4, <4>1
    <3>5. CASE ~TrySchedulingBlock(t)
      BY <1>0, <3>2, <3>3, <3>5 DEF Trying
    <3> QED
      BY <3>4, <3>5
  <2>2. ASSUME NEW t \in Threads, Worker(t) \/ SpuriousWakeup(t)
        PROVE  pc'[Main] = "Reset" /\ state' = "Paused" /\ Quiet'
    <3>1. failed = {} /\ Trying(Main) /\ pc'[Main] = "Reset" /\ state = "Paused" /\ Quiet
      BY <2>1, <2>2 DEF MainTries
    <3>2. pc[t] \in AtRest /\ ~Trying(t)
      BY <1>0, <3>1 DEF Quiet
    <3>3. \/ WakeInVain(t) \/ WakeToExit(t) \/ WakeToTake(t) \/ WakeFromPause(t)
          \/ SpuriousWakeup(t)
      <4>1. ~TrySchedulingBlock(t)
        <5>1. verdict[t] = "unknown"
          BY <1>0, <3>2 DEF Types, Trying
        <5> QED
          BY <3>2, <5>1 DEF TrySchedulingBlock, Claim, Skip, Evaluate, Commit, Trying
      <4>2. /\ ~Exit(t) /\ ~EnterRelaxedMode(t) /\ ~BeginFinish(t) /\ ~Sleep(t)
            /\ ~Take(t) /\ ~TakeAndNotify(t) /\ ~Relaxed(t) /\ ~Finish(t) /\ ~Start(t)
        BY <3>2 DEF AtRest, At, Exit, EnterRelaxedMode, BeginFinish, Sleep, Take, TakeAndNotify,
           Relaxed, Finish, Start
      <4>3. /\ \A n \in 1 .. Capacity : ~Process(t, n)
            /\ ~ProcessEof(t) /\ ~Throw(t) /\ ~Provide(t) /\ ~Done(t)
        BY <3>2 DEF AtRest, At, Process, ProcessEof, Throw, Provide, Done
      <4> QED
        BY <2>2, <4>1, <4>2, <4>3 DEF Worker
    <3>4. state' = state
      BY <3>3 DEF WakeInVain, WakeToExit, WakeToTake, WakeFromPause, SpuriousWakeup
    <3>5. \A u \in Threads \ {t} : pc'[u] = pc[u]
      BY <1>0, <3>3 DEF WakeInVain, WakeToExit, WakeToTake, WakeFromPause, SpuriousWakeup, Go,
         PauseOrTake, TakeTask
    <3>6. pc'[t] \in AtRest
      BY <1>0, <3>1, <3>3 DEF WakeInVain, WakeToExit, WakeToTake, WakeFromPause, SpuriousWakeup,
         Go, PauseOrTake, TakeTask, AtRest, Asleep, Woken
    <3> QED
      BY <3>1, <3>4, <3>5, <3>6 DEF Quiet
  <2>3. CASE TrySchedulingBlock(Main)
    <3>1. failed = {} /\ Trying(Main) /\ UNCHANGED <<pc, state>>
      <4>1. failed = {} /\ UNCHANGED <<pc, state>>
        BY <2>3 DEF TrySchedulingBlock, Claim, Skip, Evaluate, Commit
      <4>2. claimed[Main] = NoBlock => verdict[Main] = "unknown"
        BY <1>0 DEF Types
      <4>3. Trying(Main)
        BY <2>3, <4>2 DEF TrySchedulingBlock, Claim, Skip, Evaluate, Commit, Trying
      <4> QED
        BY <4>1, <4>3
    <3> QED
      BY <3>1 DEF MainTries, Quiet
  <2>4. CASE Pause \/ Resume \/ Stop \/ Wait \/ Finalize
    <3>1. ~Trying(Main) /\ UNCHANGED <<todo, claimed>>
      BY <2>4 DEF Pause, Resume, Stop, Wait, Finalize, At
    <3> QED
      BY <3>1 DEF Trying
  <2>5. CASE UNCHANGED vars
    BY <2>5 DEF vars, MainTries, Trying, Quiet
  <2> QED
    BY <1>2, <2>2, <2>3, <2>4, <2>5 DEF Next, Controller, Terminated
<1> QED
  BY <1>1, <1>2
-----------------------------------------------------------------------------
(***************************************************************************)
(* The variables Types says nothing of.                                    *)
(***************************************************************************)
OtherTypes ==
  /\ {scheduling, finished, exception} \subseteq BOOLEAN
  /\ supply \in [Sources -> 0 .. Supply]
  /\ amount \in [Threads -> 0 .. Capacity]
  /\ found \in [Actors -> BOOLEAN]
  /\ pauses \in 0 .. MaxPauses
  /\ failed \subseteq Checks

LEMMA Updated ==
  ASSUME NEW D, NEW S, NEW f \in [D -> S], NEW x, NEW y \in S
  PROVE  [f EXCEPT ![x] = y] \in [D -> S]
OBVIOUS

LEMMA InitOtherTypes == Init => OtherTypes
<1> SUFFICES ASSUME Init PROVE OtherTypes
  OBVIOUS
<1>1. 0 \in 0 .. Capacity /\ 0 \in 0 .. MaxPauses /\ Supply \in 0 .. Supply
  BY BoundsAssumption
<1>2. supply \in [Sources -> 0 .. Supply]
  BY <1>1 DEF Init
<1>3. amount \in [Threads -> 0 .. Capacity]
  BY <1>1, Zenon DEF Init
<1>4. {scheduling, finished, exception} \subseteq BOOLEAN /\ found \in [Actors -> BOOLEAN]
  BY DEF Init
<1> QED
  BY <1>1, <1>2, <1>3, <1>4 DEF Init, OtherTypes

LEMMA OtherTypesStep ==
  ASSUME Types, OtherTypes, [Next]_vars PROVE OtherTypes'
<1> USE BoundsAssumption
<1> USE DEF pool, modes, data, trying, control, OtherTypes
<1>1. ASSUME NEW t \in Actors, TrySchedulingBlock(t) PROVE OtherTypes'
  BY <1>1 DEF TrySchedulingBlock, Claim, Skip, Evaluate, Commit
<1>2. ASSUME NEW t \in Threads,
             Exit(t) \/ EnterRelaxedMode(t) \/ BeginFinish(t) \/ Sleep(t) \/ Take(t)
               \/ TakeAndNotify(t)
      PROVE  OtherTypes'
  BY <1>2 DEF Exit, EnterRelaxedMode, BeginFinish, Sleep, Take, TakeAndNotify, TryThen
<1>3. ASSUME NEW t \in Threads,
             WakeInVain(t) \/ WakeToExit(t) \/ WakeToTake(t) \/ WakeFromPause(t) \/ Relaxed(t)
               \/ SpuriousWakeup(t)
      PROVE  OtherTypes'
  BY <1>3 DEF WakeInVain, WakeToExit, WakeToTake, WakeFromPause, Relaxed, SpuriousWakeup
<1>4. ASSUME NEW t \in Threads, Finish(t) \/ Start(t) PROVE OtherTypes'
  BY <1>4 DEF Finish, Start, Check, Checks
<1>5. ASSUME NEW t \in Threads, NEW n \in 1 .. Capacity, Process(t, n) PROVE OtherTypes'
  <2>1. supply' \in [Sources -> 0 .. Supply]
    <3>1. CASE current[t] \in Sources /\ ~Endless
      <4>1. n <= supply[current[t]] /\ supply' = [supply EXCEPT ![current[t]] = @ - n]
        BY <1>5, <3>1 DEF Process
      <4>2. supply[current[t]] - n \in 0 .. Supply
        BY <3>1, <4>1
      <4> QED
        BY <4>1, <4>2
    <3>2. CASE ~(current[t] \in Sources /\ ~Endless)
      BY <1>5, <3>2 DEF Process
    <3> QED
      BY <3>1, <3>2
  <2>2. amount' \in [Threads -> 0 .. Capacity]
    <3>1. n \in 0 .. Capacity
      OBVIOUS
    <3>2. amount' = [amount EXCEPT ![t] = n]
      BY <1>5 DEF Process
    <3> QED
      BY <3>1, <3>2, Updated
  <2>3. failed' \subseteq Checks
    BY <1>5 DEF Process, Check, Checks
  <2>4. found' \in [Actors -> BOOLEAN]
    BY <1>5 DEF Process, TryThen
  <2> QED
    BY <1>5, <2>1, <2>2, <2>3, <2>4 DEF Process
<1>6. ASSUME NEW t \in Threads, ProcessEof(t) \/ Throw(t) \/ Provide(t) \/ Done(t)
      PROVE  OtherTypes'
  <2>1. 0 \in 0 .. Capacity /\ (amount' = amount \/ amount' = [amount EXCEPT ![t] = 0])
    BY <1>6 DEF ProcessEof, Throw, Provide, Done
  <2>2. amount' \in [Threads -> 0 .. Capacity]
    BY <2>1, Updated
  <2>3. /\ {scheduling, finished, exception}' \subseteq BOOLEAN
        /\ found' \in [Actors -> BOOLEAN]
        /\ UNCHANGED <<supply, pauses, failed>>
    BY <1>6 DEF ProcessEof, Throw, Provide, Done, TryThen
  <2> QED
    BY <2>2, <2>3
<1>7. ASSUME Pause \/ Reset \/ Resume \/ Stop \/ Wait \/ Finalize PROVE OtherTypes'
  <2>1. UNCHANGED <<supply, amount, scheduling, finished, exception>>
    <3>1. CASE Pause \/ Resume \/ Stop
      BY <3>1 DEF Pause, Resume, Stop
    <3>2. CASE Reset \/ Wait \/ Finalize
      BY <3>2 DEF Reset, Wait, Finalize
    <3> QED
      BY <1>7, <3>1, <3>2
  <2>2. pauses' \in 0 .. MaxPauses
    <3>1. pauses' = pauses \/ (pauses' = pauses + 1 /\ pauses < MaxPauses)
      BY <1>7 DEF Pause, Reset, Resume, Stop, Wait, Finalize
    <3> QED
      BY <3>1
  <2>3. found' \in [Actors -> BOOLEAN]
    BY <1>7 DEF Pause, Reset, Resume, Stop, Wait, Finalize, TryThen
  <2>4. failed' \subseteq Checks
    BY <1>7 DEF Pause, Reset, Resume, Stop, Wait, Finalize, Check, Checks
  <2> QED
    BY <2>1, <2>2, <2>3, <2>4
<1>8. CASE UNCHANGED vars
  BY <1>8 DEF vars
<1> QED
  BY <1>1, <1>2, <1>3, <1>4, <1>5, <1>6, <1>7, <1>8
  DEF Next, Worker, Controller, Terminated, Actors
-----------------------------------------------------------------------------
(***************************************************************************)
(* The pipeline has run dry.  The worker that finds itself to be the last  *)
(* knows that nobody holds a block or is about to try one, so every block  *)
(* is Idle; and an Idle block that could run would be on some list.        *)
(***************************************************************************)
Known ==
  /\ Types /\ OtherTypes
  /\ Ownership /\ Awaited /\ Sizes
  /\ Counted /\ Relaxation /\ MainTries

NobodyFinishes == \A t \in Threads : pc[t] # "Finishing"

LEMMA LastMeansDry ==
  ASSUME Known, NEW t \in Threads, At(t, "Top"), state # "Stopped", Last, NobodyFinishes
  PROVE  /\ \A b \in Blocks : block_state[b] = "Idle" /\ ~Schedulable(b, Threshold)
         /\ \A u \in Threads : ~Holds(u)
         /\ \A u \in Actors : verdict[u] = "unknown"
<1> USE GraphAssumption
<1>0. failed = {} /\ pc[t] = "Top" /\ Actors = Threads \cup {Main}
  BY DEF At, Actors
<1>1. Active = {t}
  <2>1. t \in Active
    BY <1>0 DEF Active
  <2> QED
    BY <1>0, <2>1, OnlyActive DEF Known, Last
<1>2. \A u \in Threads : ~Holds(u)
  <2>1. ASSUME NEW u \in Threads, Holds(u) PROVE u \in Active
    BY <2>1 DEF Holds, InFilter, Active
  <2> QED
    BY <1>0, <1>1, <2>1 DEF Holds, InFilter
<1>3. ~Trying(Main)
  <2>1. pc[t] \notin AtRest
    BY <1>0 DEF AtRest
  <2> QED
    BY <1>0, <2>1 DEF Known, MainTries, Quiet
<1>4. \A u \in Threads : ~Trying(u)
  <2> TAKE u \in Threads
  <2>1. CASE u = t
    BY <2>1 DEF At
  <2>2. CASE u # t
    <3>1. pc[u] \in Places /\ u \notin Active
      BY <1>1, <2>2 DEF Known, Types
    <3>2. pc[u] \in AtRest \cup {"Relaxing", "Finishing"}
      BY <3>1 DEF Places, Active
    <3>3. pc[u] # "Relaxing"
      BY DEF Known, Relaxation, Last
    <3>4. pc[u] \in AtRest
      BY <3>2, <3>3 DEF NobodyFinishes
    <3> QED
      BY <3>4 DEF Known, Types
  <2> QED
    BY <2>1, <2>2
<1>5. \A u \in Actors : todo[u] = {} /\ claimed[u] = NoBlock /\ verdict[u] = "unknown"
  BY <1>0, <1>3, <1>4 DEF Trying, Known, Types
<1>6. \A b \in Blocks : block_state[b] = "Idle"
  <2> TAKE b \in Blocks
  <2>1. block_state[b] # "Scheduling"
    BY <1>5 DEF Known, Ownership
  <2>2. block_state[b] # "Scheduled"
    <3>1. Contents(queue) = {}
      BY DEF Last, Contents
    <3> QED
      BY <1>2, <3>1 DEF Known, Ownership, Holds
  <2>3. block_state[b] # "Running"
    BY <1>2 DEF Known, Ownership, Holds
  <2> QED
    BY <2>1, <2>2, <2>3 DEF Known, Types
<1>7. \A b \in Blocks : ~Schedulable(b, Threshold)
  BY <1>0, <1>5, <1>6 DEF Known, Awaited, OnSomeList
<1> QED
  BY <1>2, <1>5, <1>6, <1>7

(* The relaxed sizes are not used while some block could go on without     *)
(* (pipeline.cpp:281-286).                                                 *)
LEMMA RelaxedStep ==
  ASSUME Known, [Next]_vars
  PROVE  relaxed_mode' # relaxed_mode =>
           \A b \in Blocks : ~Schedulable(b, SuggestedSize) /\ block_state[b] = "Idle"
<1> USE DEF pool, modes, trying, control
<1>1. ASSUME NEW t \in Threads, EnterRelaxedMode(t)
      PROVE  \A b \in Blocks : ~Schedulable(b, SuggestedSize) /\ block_state[b] = "Idle"
  <2>1. At(t, "Top") /\ state # "Stopped" /\ Last /\ ~relaxed_mode
    BY <1>1 DEF EnterRelaxedMode
  <2>2. NobodyFinishes
    BY <2>1 DEF NobodyFinishes, Known, Relaxation
  <2>3. Threshold = SuggestedSize
    BY <2>1 DEF Threshold
  <2> QED
    BY <2>1, <2>2, <2>3, LastMeansDry
<1>2. ASSUME NEW t \in Actors, TrySchedulingBlock(t) PROVE UNCHANGED relaxed_mode
  BY <1>2 DEF TrySchedulingBlock, Claim, Skip, Evaluate, Commit
<1>3. ASSUME NEW t \in Threads,
             Exit(t) \/ BeginFinish(t) \/ Sleep(t) \/ Take(t) \/ TakeAndNotify(t)
               \/ WakeInVain(t) \/ WakeToExit(t) \/ WakeToTake(t) \/ WakeFromPause(t)
               \/ Relaxed(t) \/ Finish(t) \/ SpuriousWakeup(t)
      PROVE  UNCHANGED relaxed_mode
  BY <1>3 DEF Exit, BeginFinish, Sleep, Take, TakeAndNotify, WakeInVain, WakeToExit,
     WakeToTake, WakeFromPause, Relaxed, Finish, SpuriousWakeup
<1>4. ASSUME NEW t \in Threads,
             Start(t) \/ (\E n \in 1 .. Capacity : Process(t, n)) \/ ProcessEof(t) \/ Throw(t)
               \/ Provide(t) \/ Done(t)
      PROVE  UNCHANGED relaxed_mode
  BY <1>4 DEF Start, Process, ProcessEof, Throw, Provide, Done
<1>5. ASSUME Pause \/ Reset \/ Resume \/ Stop \/ Wait \/ Finalize \/ UNCHANGED vars
      PROVE  UNCHANGED relaxed_mode
  BY <1>5 DEF Pause, Reset, Resume, Stop, Wait, Finalize, vars
<1> QED
  BY <1>1, <1>2, <1>3, <1>4, <1>5 DEF Next, Worker, Controller, Terminated, Actors

LEMMA KnownInvariant ==
  ASSUME "reset" \notin Script
  PROVE  /\ Init => Known
         /\ Known /\ [Next]_vars => Known'
<1>1. Init => Known
  BY InitTypes, InitOtherTypes, InitOwnership, InitAwaited, InitSizes, InitCounted,
     InitRelaxation, InitMainTries
  DEF Known
<1>2. Known /\ [Next]_vars => Known'
  BY TypesStep, OtherTypesStep, OwnershipStep, AwaitedStep, SizesStep, CountedStep,
     RelaxationStep, MainTriesStep
  DEF Known
<1> QED
  BY <1>1, <1>2

THEOREM RelaxedWhenDry ==
  ASSUME "reset" \notin Script
  PROVE  Spec => RelaxedOnlyWhenDry
<1>1. Init => Known
  BY KnownInvariant
<1>2. Known /\ [Next]_vars => Known'
  BY KnownInvariant
<1>3. Known /\ [Next]_vars =>
        [relaxed_mode' # relaxed_mode =>
           \A b \in Blocks : ~Schedulable(b, SuggestedSize) /\ block_state[b] = "Idle"]_vars
  BY RelaxedStep
<1> QED
  BY <1>1, <1>2, <1>3, PTL DEF Spec, RelaxedOnlyWhenDry
-----------------------------------------------------------------------------
(***************************************************************************)
(* The end.  A pipeline that has run dry with relaxed sizes stays so while *)
(* the last worker makes sure of it, and after.                            *)
(***************************************************************************)
Dry ==
  /\ relaxed_mode
  /\ queue = <<>>
  /\ \A t \in Threads : ~Holds(t)
  /\ \A t \in Actors : verdict[t] # "yes"
  /\ \A b \in Blocks : ~Schedulable(b, 1)
  /\ \A t \in Threads : pc[t] = "Finishing" => ~found[t]

Ending ==
  failed = {} =>
    /\ finished => state = "Stopped"
    /\ finished \/ ~NobodyFinishes => Dry

LEMMA InitEnding == Init => Ending
<1> SUFFICES ASSUME Init PROVE Ending
  OBVIOUS
<1>1. \A t \in Threads : pc[t] = "Top"
  BY GraphAssumption DEF Init, Actors
<1>2. finished = FALSE
  BY DEF Init
<1> QED
  BY <1>1, <1>2 DEF Ending, NobodyFinishes

(* Nothing happens to what is dry.                                         *)
LEMMA SameEnding ==
  ASSUME Known, Ending,
         failed' = {} => failed = {},
         UNCHANGED <<finished, relaxed_mode, queue, filled, eof>>,
         failed' = {} /\ state = "Stopped" => state' = "Stopped",
         \A t \in Threads : /\ pc'[t] = "Finishing" => pc[t] = "Finishing" /\ found'[t] = found[t]
                            /\ Holds(t)' => Holds(t),
         \A t \in Actors : verdict'[t] = "yes" => verdict[t] = "yes"
  PROVE  Ending'
<1> SUFFICES ASSUME failed' = {} PROVE Ending'
  BY DEF Ending
<1>1. finished' => state' = "Stopped"
  BY DEF Ending
<1>2. ASSUME finished' \/ ~NobodyFinishes' PROVE Dry'
  <2>1. Dry
    BY <1>2 DEF Ending, NobodyFinishes
  <2>2. \A b \in Blocks : ~Schedulable(b, 1)'
    BY <2>1 DEF Dry, Schedulable, Fits
  <2> QED
    BY <2>1, <2>2 DEF Dry
<1> QED
  BY <1>1, <1>2 DEF Ending

(* What is not dry has no end near.                                        *)
LEMMA NotEnding ==
  ASSUME Ending, failed = {}, ~Dry, finished' = finished,
         \A t \in Threads : pc'[t] = "Finishing" => pc[t] = "Finishing"
  PROVE  Ending'
BY DEF Ending, NobodyFinishes

LEMMA EndingStep ==
  ASSUME Known, Ending, [Next]_vars, "reset" \notin Script PROVE Ending'
<1> USE GraphAssumption
<1> USE DEF pool, modes, data, trying, control
<1>0. /\ Actors = Threads \cup {Main} /\ Main \notin Threads
      /\ pc \in [Actors -> Places \cup MainPlaces]
      /\ verdict \in [Actors -> {"unknown", "yes", "no"}]
      /\ \A t \in Actors : (claimed[t] = NoBlock) => verdict[t] = "unknown"
      /\ claimed \in [Actors -> Blocks \cup {NoBlock}]
      /\ found \in [Actors -> BOOLEAN]
  BY DEF Known, Types, OtherTypes, Actors
<1>1. ASSUME NEW t \in Actors, NEW b \in Blocks, Claim(t, b) \/ Skip(t, b) PROVE Ending'
  BY <1>0, <1>1, SameEnding DEF Claim, Skip, Holds
<1>2. ASSUME NEW t \in Actors, Evaluate(t) PROVE Ending'
  <2>1. CASE Dry
    <3>1. claimed[t] \in Blocks /\ Thresholds = {1}
      BY <1>0, <1>2, <2>1 DEF Evaluate, Dry, Thresholds
    <3>2. verdict' = [verdict EXCEPT ![t] = "no"]
      BY <1>2, <2>1, <3>1 DEF Evaluate, Dry
    <3> QED
      BY <1>0, <1>2, <3>2, SameEnding DEF Evaluate, Holds
  <2>2. CASE ~Dry
    BY <1>2, <2>2, NotEnding DEF Evaluate
  <2> QED
    BY <2>1, <2>2
<1>3. ASSUME NEW t \in Actors, Commit(t) PROVE Ending'
  <2>1. CASE Dry
    <3>1. verdict[t] = "no"
      BY <1>0, <1>3, <2>1 DEF Commit, Dry
    <3>2. UNCHANGED <<queue, pc, finished, relaxed_mode, filled, eof, state, failed, current>>
      BY <1>3, <3>1 DEF Commit
    <3>3. /\ \A u \in Threads : pc[u] = "Finishing" => found'[u] = found[u]
          /\ \A u \in Actors : verdict'[u] = "yes" => verdict[u] = "yes"
      <4>1. found' = [found EXCEPT ![t] = @ \/ FALSE]
        BY <1>3, <3>1 DEF Commit
      <4>2. verdict' = [verdict EXCEPT ![t] = "unknown"]
        BY <1>3 DEF Commit
      <4> QED
        BY <1>0, <4>1, <4>2
    <3> QED
      BY <3>2, <3>3, SameEnding DEF Holds
  <2>2. CASE ~Dry
    BY <1>3, <2>2, NotEnding DEF Commit
  <2> QED
    BY <2>1, <2>2
<1>4. ASSUME NEW t \in Threads, Exit(t) \/ Sleep(t) PROVE Ending'
  BY <1>0, <1>4, SameEnding DEF Exit, Sleep, At, Go, Holds, InFilter
<1>5. ASSUME NEW t \in Threads, EnterRelaxedMode(t) PROVE Ending'
  BY <1>0, <1>5, NotEnding DEF EnterRelaxedMode, At, TryThen, Go, Dry
<1>6. ASSUME NEW t \in Threads, BeginFinish(t) PROVE Ending'
  <2>1. /\ At(t, "Top") /\ failed = {} /\ state # "Stopped" /\ Last /\ relaxed_mode
        /\ pc' = [pc EXCEPT ![t] = "Finishing"] /\ found' = [found EXCEPT ![t] = FALSE]
        /\ UNCHANGED <<state, queue, modes, filled, eof, current, verdict, failed>>
    BY <1>6 DEF BeginFinish, At, TryThen, Go
  <2>2. Dry
    <3>1. CASE NobodyFinishes
      <4>1. Threshold = 1
        BY <2>1 DEF Threshold
      <4>2. \A u \in Threads : pc[u] # "Finishing"
        BY <3>1 DEF NobodyFinishes
      <4>3. /\ \A b \in Blocks : ~Schedulable(b, 1)
            /\ \A u \in Threads : ~Holds(u)
            /\ \A u \in Actors : verdict[u] = "unknown"
        BY <2>1, <3>1, <4>1, LastMeansDry
      <4> QED
        BY <2>1, <4>2, <4>3 DEF Dry, Last
    <3>2. CASE ~NobodyFinishes
      BY <2>1, <3>2 DEF Ending
    <3> QED
      BY <3>1, <3>2
  <2>3. \A u \in Threads : /\ Holds(u)' => Holds(u)
                           /\ pc'[u] = "Finishing" /\ u # t => pc[u] = "Finishing" /\ found'[u] = found[u]
                           /\ ~found'[t]
    BY <1>0, <2>1 DEF Holds, InFilter
  <2>4. \A b \in Blocks : ~Schedulable(b, 1)'
    BY <2>1, <2>2 DEF Dry, Schedulable, Fits
  <2>5. Dry'
    BY <2>1, <2>2, <2>3, <2>4 DEF Dry
  <2> QED
    BY <2>1, <2>5 DEF Ending
<1>7. ASSUME NEW t \in Threads, Take(t) \/ TakeAndNotify(t) \/ WakeToTake(t) PROVE Ending'
  <2>1. ~Dry /\ failed = {} /\ finished' = finished
    BY <1>7 DEF Take, TakeAndNotify, WakeToTake, Ready, At, Dry
  <2>2. \A u \in Threads : pc'[u] = "Finishing" => pc[u] = "Finishing"
    <3>1. CASE Take(t) \/ WakeToTake(t)
      BY <1>0, <3>1 DEF Take, WakeToTake, PauseOrTake, TakeTask
    <3>2. CASE TakeAndNotify(t)
      BY <1>0, <3>2 DEF TakeAndNotify, PauseOrTake, TakeTask, Asleep, Woken
    <3> QED
      BY <1>7, <3>1, <3>2
  <2> QED
    BY <2>1, <2>2, NotEnding
<1>8. ASSUME NEW t \in Threads, WakeInVain(t) \/ WakeToExit(t) PROVE Ending'
  BY <1>0, <1>8, SameEnding DEF WakeInVain, WakeToExit, At, Go, Holds, InFilter
<1>9. ASSUME NEW t \in Threads, WakeFromPause(t) PROVE Ending'
  <2>1. /\ pc' = [pc EXCEPT ![t] = "Pausing"] \/ pc' = [pc EXCEPT ![t] = "Top"]
        /\ UNCHANGED <<state, queue, modes, filled, eof, current, verdict, found, failed>>
    BY <1>9 DEF WakeFromPause, Go
  <2> QED
    BY <1>0, <2>1, SameEnding DEF Holds, InFilter
<1>10. ASSUME NEW t \in Threads, SpuriousWakeup(t) PROVE Ending'
  BY <1>0, <1>10, SameEnding DEF SpuriousWakeup, Go, Asleep, Woken, Holds, InFilter
<1>11. ASSUME NEW t \in Threads, Relaxed(t) PROVE Ending'
  BY <1>0, <1>11, SameEnding DEF Relaxed, At, Go, Holds, InFilter
<1>12. ASSUME NEW t \in Threads, Finish(t) PROVE Ending'
  <2>1. /\ failed = {} /\ pc[t] = "Finishing" /\ state' = "Stopped"
        /\ UNCHANGED <<queue, relaxed_mode, filled, eof, current, verdict, found>>
        /\ \A u \in Threads : pc'[u] \in {pc[u], "Exited", "Woken", "PauseWoken"}
    BY <1>0, <1>12 DEF Finish, At, Broadcast, NotifyAll, Asleep, Woken
  <2>2. Dry
    BY <2>1 DEF Ending, NobodyFinishes
  <2>3. \A b \in Blocks : ~Schedulable(b, 1)'
    BY <2>1, <2>2 DEF Dry, Schedulable, Fits
  <2>4. Dry'
    BY <2>1, <2>2, <2>3 DEF Dry, Holds, InFilter
  <2> QED
    BY <2>1, <2>4 DEF Ending
<1>13. ASSUME NEW t \in Threads, Start(t) PROVE Ending'
  BY <1>0, <1>13, NotEnding DEF Start, At, Go, Dry, Holds
<1>14. ASSUME NEW t \in Threads, NEW n \in 1 .. Capacity, Process(t, n) PROVE Ending'
  BY <1>0, <1>14, NotEnding DEF Process, At, TryThen, Go, Dry, Holds, InFilter
<1>15. ASSUME NEW t \in Threads, ProcessEof(t) \/ Provide(t) \/ Done(t) PROVE Ending'
  BY <1>0, <1>15, NotEnding DEF ProcessEof, Provide, Done, At, TryThen, Go, Dry, Holds, InFilter
<1>16. ASSUME NEW t \in Threads, Throw(t) PROVE Ending'
  BY <1>0, <1>16, NotEnding DEF Throw, At, Broadcast, NotifyAll, Asleep, Woken, Dry, Holds, InFilter
<1>17. ASSUME Pause PROVE Ending'
  <2>1. failed' = {} => failed = {} /\ state = "Running"
    BY <1>17 DEF Pause, At, Check
  <2>2. /\ UNCHANGED <<queue, modes, filled, eof, current, verdict, found>>
        /\ \A u \in Threads : pc'[u] \in {pc[u], "Woken", "PauseWoken"}
    BY <1>0, <1>17 DEF Pause, Broadcast, NotifyAll, Asleep, Woken
  <2> QED
    BY <2>1, <2>2, SameEnding DEF Holds, InFilter
<1>18. ASSUME Reset PROVE Ending'
  <2>1. failed' = {} => failed = {} /\ state = "Paused"
    BY <1>18 DEF Reset, At, Check
  <2>2. Quiet /\ finished' = finished
    BY <1>18 DEF Reset
  <2>3. \A u \in Threads : pc'[u] = pc[u] /\ pc[u] # "Finishing"
    BY <1>0, <1>18, <2>2 DEF Reset, TryThen, Go, Quiet, AtRest
  <2> QED
    BY <2>1, <2>2, <2>3 DEF Ending, NobodyFinishes
<1>19. ASSUME Resume \/ Stop PROVE Ending'
  <2>1. /\ failed' = {} => failed = {}
        /\ state = "Stopped" => state' = "Stopped"
        /\ UNCHANGED <<queue, modes, filled, eof, current, verdict, found>>
        /\ \A u \in Threads : pc'[u] \in {pc[u], "Woken", "PauseWoken"}
    BY <1>0, <1>19 DEF Resume, Stop, At, Broadcast, NotifyAll, Asleep, Woken
  <2> QED
    BY <2>1, SameEnding DEF Holds, InFilter
<1>20. ASSUME Wait \/ Finalize PROVE Ending'
  BY <1>0, <1>20, SameEnding DEF Wait, Finalize, At, Go, Holds
<1>21. CASE UNCHANGED vars
  BY <1>21, SameEnding DEF vars, Holds
<1> QED
  BY <1>1, <1>2, <1>3, <1>4, <1>5, <1>6, <1>7, <1>8, <1>9, <1>10, <1>11, <1>12, <1>13, <1>14,
     <1>15, <1>16, <1>17, <1>18, <1>19, <1>20, <1>21
  DEF Next, Worker, Controller, TrySchedulingBlock, Terminated, Actors

(***************************************************************************)
(* The CHECKs.                                                             *)
(***************************************************************************)
EndChecks == {"nothing left to schedule", "finished blocks are Idle"}

ProgramChecks == {"pause while Running", "reset while Paused", "stop while Running or Paused"}

LEMMA DryMeansIdle ==
  ASSUME Known, Dry, \A t \in Actors : claimed[t] = NoBlock
  PROVE  \A b \in Blocks : block_state[b] = "Idle"
<1> TAKE b \in Blocks
<1>1. block_state[b] # "Scheduling"
  BY GraphAssumption DEF Known, Ownership
<1>2. block_state[b] # "Scheduled"
  <2>1. Contents(queue) = {}
    BY DEF Dry, Contents
  <2> QED
    BY <2>1 DEF Dry, Known, Ownership, Holds
<1>3. block_state[b] # "Running"
  BY DEF Dry, Known, Ownership, Holds
<1> QED
  BY <1>1, <1>2, <1>3 DEF Known, Types

LEMMA EndChecksStep ==
  ASSUME Known, Ending, EndChecks \cap failed = {}, [Next]_vars
  PROVE  EndChecks \cap failed' = {}
<1> USE DEF EndChecks
<1>1. ASSUME NEW t \in Threads, Finish(t) PROVE EndChecks \cap failed' = {}
  <2>1. failed = {} /\ pc[t] = "Finishing"
    BY <1>1 DEF Finish, At
  <2>2. ~found[t]
    BY <2>1 DEF Ending, Dry, NobodyFinishes
  <2> QED
    BY <1>1, <2>1, <2>2 DEF Finish, Check
<1>2. CASE Finalize
  <2>1. failed = {} /\ AllExited /\ ~Trying(Main)
    BY <1>2 DEF Finalize, At
  <2>2. ASSUME finished, NEW b \in Blocks PROVE block_state[b] = "Idle"
    <3>1. Dry
      BY <2>1, <2>2 DEF Ending
    <3>2. \A t \in Actors : claimed[t] = NoBlock
      BY <2>1 DEF Known, Types, Actors, AllExited, AtRest, Trying
    <3> QED
      BY <3>1, <3>2, DryMeansIdle
  <2> QED
    BY <1>2, <2>1, <2>2 DEF Finalize, Check
<1>3. ASSUME NEW t \in Threads,
             Start(t) \/ \E n \in 1 .. Capacity : Process(t, n)
      PROVE  EndChecks \cap failed' = {}
  BY <1>3 DEF Start, Process, Check
<1>4. CASE Pause \/ Reset \/ Stop
  BY <1>4 DEF Pause, Reset, Stop, Check
<1>5. ASSUME UNCHANGED failed PROVE EndChecks \cap failed' = {}
  BY <1>5
<1> USE DEF control
<1>6. ASSUME NEW t \in Actors, TrySchedulingBlock(t) PROVE UNCHANGED failed
  BY <1>6 DEF TrySchedulingBlock, Claim, Skip, Evaluate, Commit
<1>7. ASSUME NEW t \in Threads,
             Exit(t) \/ EnterRelaxedMode(t) \/ BeginFinish(t) \/ Sleep(t) \/ Take(t)
               \/ TakeAndNotify(t) \/ WakeInVain(t) \/ WakeToExit(t) \/ WakeToTake(t)
               \/ WakeFromPause(t) \/ Relaxed(t) \/ SpuriousWakeup(t)
      PROVE  UNCHANGED failed
  BY <1>7 DEF Exit, EnterRelaxedMode, BeginFinish, Sleep, Take, TakeAndNotify, WakeInVain,
     WakeToExit, WakeToTake, WakeFromPause, Relaxed, SpuriousWakeup
<1>8. ASSUME NEW t \in Threads, ProcessEof(t) \/ Throw(t) \/ Provide(t) \/ Done(t)
      PROVE  UNCHANGED failed
  BY <1>8 DEF ProcessEof, Throw, Provide, Done
<1>9. ASSUME Resume \/ Wait \/ UNCHANGED vars PROVE UNCHANGED failed
  BY <1>9 DEF Resume, Wait, vars
<1> QED
  BY <1>1, <1>2, <1>3, <1>4, <1>5, <1>6, <1>7, <1>8, <1>9
  DEF Next, Worker, Controller, Terminated, Actors

Sound == Known /\ Ending /\ RunsAsScheduled /\ EndChecks \cap failed = {}

LEMMA SoundInvariant ==
  ASSUME "reset" \notin Script
  PROVE  /\ Init => Sound
         /\ Sound /\ [Next]_vars => Sound'
<1>1. Init => Sound
  BY KnownInvariant, InitEnding DEF Init, Sound, RunsAsScheduled, RunsOnlyScheduled
<1>2. Sound /\ [Next]_vars => Sound'
  BY KnownInvariant, EndingStep, EndChecksStep, RunsAsScheduledStep DEF Sound, Known
<1> QED
  BY <1>1, <1>2

(* The CHECKs that the pipeline makes on itself never fail, in particular  *)
(* CHECK(!scheduleAllBlocks()): only those on what the program asks for    *)
(* may (pipeline.cpp:233, 305, 373, block.cpp:173, 186).                   *)
THEOREM OwnChecksHold ==
  ASSUME "reset" \notin Script
  PROVE  Spec => [](failed \subseteq ProgramChecks)
<1>1. Init => Sound
  BY SoundInvariant
<1>2. Sound /\ [Next]_vars => Sound'
  BY SoundInvariant
<1>3. Sound => failed \subseteq ProgramChecks
  BY DEF Sound, Known, OtherTypes, Checks, ProgramChecks, EndChecks, RunsAsScheduled,
     RunsOnlyScheduled
<1> QED
  BY <1>1, <1>2, <1>3, PTL DEF Spec

(* Nothing aborts a pipeline that is only run to its end.                  *)
THEOREM RunNeverAborts ==
  ASSUME Script = {}
  PROVE  Spec => []NoCheckFails
<1> DEFINE Uncalled == ProgramChecks \cap failed = {}
<1>1. Init => Sound /\ Uncalled
  BY SoundInvariant DEF Init
<1>2. Sound /\ [Next]_vars => Sound'
  BY SoundInvariant
<1>3. Uncalled /\ [Next]_vars => Uncalled'
  <2> SUFFICES ASSUME Uncalled, [Next]_vars PROVE Uncalled'
    OBVIOUS
  <2> USE DEF ProgramChecks, control
  <2>1. ASSUME NEW t \in Actors, TrySchedulingBlock(t) PROVE Uncalled'
    BY <2>1 DEF TrySchedulingBlock, Claim, Skip, Evaluate, Commit
  <2>2. ASSUME NEW t \in Threads,
               Exit(t) \/ EnterRelaxedMode(t) \/ BeginFinish(t) \/ Sleep(t) \/ Take(t)
                 \/ TakeAndNotify(t) \/ WakeInVain(t) \/ WakeToExit(t) \/ WakeToTake(t)
                 \/ WakeFromPause(t) \/ Relaxed(t) \/ SpuriousWakeup(t)
        PROVE  Uncalled'
    BY <2>2 DEF Exit, EnterRelaxedMode, BeginFinish, Sleep, Take, TakeAndNotify, WakeInVain,
       WakeToExit, WakeToTake, WakeFromPause, Relaxed, SpuriousWakeup
  <2>3. ASSUME NEW t \in Threads, ProcessEof(t) \/ Throw(t) \/ Provide(t) \/ Done(t)
        PROVE  Uncalled'
    BY <2>3 DEF ProcessEof, Throw, Provide, Done
  <2>4. ASSUME NEW t \in Threads,
               Finish(t) \/ Start(t) \/ \E n \in 1 .. Capacity : Process(t, n)
        PROVE  Uncalled'
    BY <2>4 DEF Finish, Start, Process, Check
  <2>5. ~Pause /\ ~Reset /\ ~Stop
    BY DEF Pause, Reset, Stop
  <2>6. ASSUME Resume \/ Wait \/ UNCHANGED vars PROVE Uncalled'
    BY <2>6 DEF Resume, Wait, vars
  <2>7. CASE Finalize
    BY <2>7 DEF Finalize, Check
  <2> QED
    BY <2>1, <2>2, <2>3, <2>4, <2>5, <2>6, <2>7 DEF Next, Worker, Controller, Terminated, Actors
<1>4. Sound /\ Uncalled => NoCheckFails
  BY DEF Sound, Known, OtherTypes, Checks, ProgramChecks, EndChecks, RunsAsScheduled,
     RunsOnlyScheduled, NoCheckFails
<1> QED
  BY <1>1, <1>2, <1>3, <1>4, PTL DEF Spec
-----------------------------------------------------------------------------
(***************************************************************************)
(* Types, with the counters and the contents of the buffers.               *)
(***************************************************************************)
Contained == filled \in [Edges -> 0 .. Capacity]

LEMMA ContainedStep ==
  ASSUME Known, Contained, [Next]_vars PROVE Contained'
<1> USE DEF Contained, data
<1>1. ASSUME NEW t \in Threads, NEW n \in 1 .. Capacity, Process(t, n) PROVE Contained'
  <2>1. filled' = [e \in Edges |-> IF e \in Inputs(current[t]) THEN filled[e] - n ELSE filled[e]]
    BY <1>1 DEF Process
  <2>2. Fits(current[t], n)
    BY <1>1 DEF Process, At, Known, Sizes
  <2>3. \A e \in Inputs(current[t]) : filled[e] - n \in 0 .. Capacity
    BY <2>2, BoundsAssumption DEF Fits, Inputs
  <2>4. \A e \in Edges : filled'[e] \in 0 .. Capacity
    BY <2>1, <2>3
  <2> HIDE DEF Contained
  <2> QED
    BY <2>1, <2>4 DEF Contained
<1>2. ASSUME NEW t \in Threads, Provide(t) PROVE Contained'
  <2>1. /\ failed = {} /\ pc[t] = "Consumed" /\ amount[t] \in Nat
        /\ filled' = [e \in Edges |-> IF e \in Outputs(current[t]) THEN filled[e] + amount[t]
                                                                  ELSE filled[e]]
    BY <1>2 DEF Provide, At, Known, Types
  <2>2. \A e \in Outputs(current[t]) : filled[e] + amount[t] <= Capacity
    BY <2>1 DEF Known, Sizes
  <2>3. \A e \in Outputs(current[t]) : filled[e] + amount[t] \in 0 .. Capacity
    BY <2>1, <2>2, BoundsAssumption DEF Outputs
  <2>4. \A e \in Edges : filled'[e] \in 0 .. Capacity
    BY <2>1, <2>3
  <2> QED
    BY <2>1, <2>4
<1>3. CASE Reset
  <2>1. filled' = [e \in Edges |-> 0]
    BY <1>3 DEF Reset
  <2>2. 0 \in 0 .. Capacity
    BY BoundsAssumption
  <2> QED
    BY <2>1, <2>2, Zenon
<1>4. ASSUME NEW t \in Actors, TrySchedulingBlock(t) PROVE UNCHANGED filled
  BY <1>4 DEF TrySchedulingBlock, Claim, Skip, Evaluate, Commit
<1>5. ASSUME NEW t \in Threads,
             Exit(t) \/ EnterRelaxedMode(t) \/ BeginFinish(t) \/ Sleep(t) \/ Take(t)
               \/ TakeAndNotify(t) \/ WakeInVain(t) \/ WakeToExit(t) \/ WakeToTake(t)
               \/ WakeFromPause(t) \/ Relaxed(t) \/ SpuriousWakeup(t)
      PROVE  UNCHANGED filled
  BY <1>5 DEF Exit, EnterRelaxedMode, BeginFinish, Sleep, Take, TakeAndNotify, WakeInVain,
     WakeToExit, WakeToTake, WakeFromPause, Relaxed, SpuriousWakeup
<1>6. ASSUME NEW t \in Threads, Finish(t) \/ Start(t) \/ ProcessEof(t) \/ Throw(t) \/ Done(t)
      PROVE  UNCHANGED filled
  BY <1>6 DEF Finish, Start, ProcessEof, Throw, Done
<1>7. ASSUME Pause \/ Resume \/ Stop \/ Wait \/ Finalize \/ UNCHANGED vars
      PROVE  UNCHANGED filled
  BY <1>7 DEF Pause, Resume, Stop, Wait, Finalize, vars
<1> QED
  BY <1>1, <1>2, <1>3, <1>4, <1>5, <1>6, <1>7 DEF Next, Worker, Controller, Terminated, Actors

LEMMA PartsOfTypeOK ==
  ASSUME Known, Contained, WaitersKnown PROVE TypeOK
<1>1. threads_running \in 0 .. Cardinality(Threads)
  <2>1. PICK S \in SUBSET ExitedThreads : threads_running = Cardinality(Active \cup S)
    BY DEF Known, Counted
  <2>2. Active \cup S \in SUBSET Threads
    BY DEF Active, ExitedThreads
  <2> QED
    BY <2>1, <2>2, SetOfThreads
<1>2. threads_waiting \in 0 .. Cardinality(Threads) /\ threads_waking_up \in 0 .. Cardinality(Threads)
  <2>1. IdleWait \in SUBSET Threads
    BY DEF IdleWait
  <2>2. /\ Cardinality(IdleWait) \in Nat /\ Cardinality(Threads) \in Nat
        /\ Cardinality(IdleWait) <= Cardinality(Threads)
    BY <2>1, SetOfThreads
  <2> QED
    BY <2>2 DEF WaitersKnown
<1>3. relaxed_mode \in BOOLEAN
  BY DEF Known, Types
<1> QED
  BY <1>1, <1>2, <1>3 DEF TypeOK, Known, Types, OtherTypes, Contained

THEOREM PipelineTypes ==
  ASSUME "reset" \notin Script
  PROVE  Spec => []TypeOK
<1>1. Init => Known /\ Contained /\ WaitersKnown
  <2>1. Init => Contained
    <3>1. 0 \in 0 .. Capacity
      BY BoundsAssumption
    <3> QED
      BY <3>1 DEF Init, Contained
  <2> QED
    BY <2>1, KnownInvariant, InitWaitersKnown
<1>2. Known /\ Contained /\ WaitersKnown /\ [Next]_vars => (Known /\ Contained /\ WaitersKnown)'
  BY KnownInvariant, ContainedStep, WaitersKnownStep DEF Known
<1>3. Known /\ Contained /\ WaitersKnown => TypeOK
  BY PartsOfTypeOK
<1> QED
  BY <1>1, <1>2, <1>3, PTL DEF Spec
-----------------------------------------------------------------------------
(***************************************************************************)
(* Nothing is lost and nothing is left.  Counting what every block has     *)
(* consumed and provided, a dry graph without cycles is one in which all   *)
(* blocks have got as far as their sources, and the sources to their end.  *)
(***************************************************************************)
Acyclic == \E rank \in [Blocks -> Nat] : \A e \in Edges : rank[e[1]] < rank[e[2]]

(* A reset discards what is on its way: with several sources one may then  *)
(* come to its end while the others are not heard any more.                *)
ResetTogether == "quiet reset" \in Script => \A a, b \in Sources : a = b

Flow(consumed, provided) ==
  /\ \A e \in Edges : filled[e] = provided[e[1]] - consumed[e[2]]
  /\ ~Endless => \A s \in Sources : supply[s] = Supply - consumed[s]
  /\ \A b \in Blocks :
       consumed[b] = provided[b] \/ \E t \in Threads : pc[t] = "Consumed" /\ current[t] = b
  /\ \A t \in Threads :
       pc[t] = "Consumed" => consumed[current[t]] = provided[current[t]] + amount[t]

Conserved ==
  failed = {} =>
    /\ \A b \in Blocks : eof[b] => b \in Sources /\ ~Endless /\ supply[b] = 0
    /\ \E consumed, provided \in [Blocks -> Nat] : Flow(consumed, provided)

LEMMA InitConserved == Init => Conserved
<1> SUFFICES ASSUME Init PROVE Conserved
  OBVIOUS
<1> DEFINE none == [b \in Blocks |-> 0]
<1>1. none \in [Blocks -> Nat]
  OBVIOUS
<1>2. \A t \in Threads : pc[t] = "Top"
  BY GraphAssumption DEF Init, Actors
<1>3. /\ filled = [e \in Edges |-> 0] /\ supply = [b \in Sources |-> Supply]
      /\ eof = [b \in Blocks |-> FALSE] /\ Supply \in Nat
  BY BoundsAssumption DEF Init
<1>4. Flow(none, none)
  BY <1>2, <1>3, GraphAssumption DEF Flow, Sources
<1> QED
  BY <1>1, <1>3, <1>4 DEF Conserved

(* A step that moves no data.                                              *)
LEMMA SameFlow ==
  ASSUME Conserved, UNCHANGED <<filled, supply, eof>>, failed' = {} => failed = {},
         \A t \in Threads :
           /\ pc'[t] = "Consumed" <=> pc[t] = "Consumed"
           /\ pc[t] = "Consumed" => current'[t] = current[t] /\ amount'[t] = amount[t]
  PROVE  Conserved'
<1> SUFFICES ASSUME failed = {}, failed' = {} PROVE Conserved'
  BY DEF Conserved
<1>1. PICK c \in [Blocks -> Nat], p \in [Blocks -> Nat] : Flow(c, p)
  BY DEF Conserved
<1>2. Flow(c, p)'
  BY <1>1 DEF Flow
<1> QED
  BY <1>1, <1>2 DEF Conserved

LEMMA ConservedStep ==
  ASSUME Known, Conserved, [Next]_vars, "reset" \notin Script, ResetTogether PROVE Conserved'
<1> USE GraphAssumption
<1> USE DEF pool, modes, data, trying, control
<1>0. /\ Actors = Threads \cup {Main} /\ Main \notin Threads
      /\ pc \in [Actors -> Places \cup MainPlaces]
      /\ current \in [Threads -> Blocks \cup {NoBlock}]
      /\ amount \in [Threads -> Nat] /\ filled \in [Edges -> Int]
      /\ supply \in [Sources -> 0 .. Supply] /\ Supply \in Nat
      /\ eof \in [Blocks -> BOOLEAN]
  BY BoundsAssumption DEF Known, Types, OtherTypes, Actors
<1>1. ASSUME NEW t \in Actors, TrySchedulingBlock(t) PROVE Conserved'
  BY <1>1, SameFlow DEF TrySchedulingBlock, Claim, Skip, Evaluate, Commit
<1>2. ASSUME NEW t \in Threads,
             Exit(t) \/ EnterRelaxedMode(t) \/ BeginFinish(t) \/ Sleep(t)
      PROVE  Conserved'
  BY <1>0, <1>2, SameFlow DEF Exit, EnterRelaxedMode, BeginFinish, Sleep, At, TryThen, Go
<1>3. ASSUME NEW t \in Threads, Take(t) \/ TakeAndNotify(t) \/ WakeToTake(t) PROVE Conserved'
  <2>1. /\ UNCHANGED <<filled, supply, eof, failed, amount>> /\ pc[t] # "Consumed"
        /\ current' = current \/ current' = [current EXCEPT ![t] = Head(queue)]
    BY <1>0, <1>3 DEF Take, TakeAndNotify, WakeToTake, At, PauseOrTake, TakeTask
  <2>2. \A u \in Threads : pc'[u] = "Consumed" <=> pc[u] = "Consumed"
    <3>1. CASE Take(t) \/ WakeToTake(t)
      BY <1>0, <3>1 DEF Take, WakeToTake, At, PauseOrTake, TakeTask
    <3>2. CASE TakeAndNotify(t)
      BY <1>0, <3>2 DEF TakeAndNotify, At, PauseOrTake, TakeTask, Asleep, Woken
    <3> QED
      BY <1>3, <3>1, <3>2
  <2> QED
    BY <1>0, <2>1, <2>2, SameFlow
<1>4. ASSUME NEW t \in Threads,
             WakeInVain(t) \/ WakeToExit(t) \/ WakeFromPause(t) \/ Relaxed(t)
      PROVE  Conserved'
  BY <1>0, <1>4, SameFlow DEF WakeInVain, WakeToExit, WakeFromPause, Relaxed, At, Go
<1>5. ASSUME NEW t \in Threads, SpuriousWakeup(t) PROVE Conserved'
  BY <1>0, <1>5, SameFlow DEF SpuriousWakeup, Go, Asleep, Woken
<1>6. ASSUME NEW t \in Threads, Finish(t) \/ Throw(t) PROVE Conserved'
  <2>1. failed = {} /\ pc[t] # "Consumed" /\ UNCHANGED <<filled, supply, eof, current, amount>>
    BY <1>6 DEF Finish, Throw, At
  <2> DEFINE exited == [pc EXCEPT ![t] = "Exited"]
  <2>2. pc' = exited \/ pc' = NotifyAll(exited)
    BY <1>6 DEF Finish, Throw, Broadcast
  <2>3. \A u \in Threads : pc'[u] = "Consumed" <=> pc[u] = "Consumed"
    BY <1>0, <2>1, <2>2 DEF NotifyAll, Asleep, Woken
  <2> QED
    BY <2>1, <2>3, SameFlow
<1>7. ASSUME NEW t \in Threads, Start(t) \/ Done(t) PROVE Conserved'
  BY <1>0, <1>7, SameFlow DEF Start, Done, At, TryThen, Go, Check
<1>8. ASSUME NEW t \in Threads, NEW n \in 1 .. Capacity, Process(t, n) PROVE Conserved'
  <2> DEFINE b == current[t]
  <2>0. SUFFICES ASSUME failed' = {} PROVE Conserved'
    BY DEF Conserved
  <2>1. /\ failed = {} /\ pc[t] = "Process" /\ b \in Blocks
        /\ pc' = [pc EXCEPT ![t] = "Consumed"] /\ amount' = [amount EXCEPT ![t] = n]
        /\ UNCHANGED <<current, eof>>
        /\ filled' = [e \in Edges |-> IF e \in Inputs(b) THEN filled[e] - n ELSE filled[e]]
        /\ b \in Sources /\ ~Endless => n <= supply[b]
        /\ supply' = IF b \in Sources /\ ~Endless THEN [supply EXCEPT ![b] = @ - n] ELSE supply
    BY <1>0, <1>8 DEF Process, At, TryThen, Go, Known, Types, InFilter
  <2>2. \A u \in Threads : pc[u] = "Consumed" => current[u] # b
    BY <2>1 DEF Known, Ownership, Holds, InFilter
  <2>3. PICK c \in [Blocks -> Nat], p \in [Blocks -> Nat] : Flow(c, p)
    BY <2>1 DEF Conserved
  <2>4. c[b] = p[b] /\ n \in Nat
    BY <2>1, <2>2, <2>3, BoundsAssumption DEF Flow
  <2>5. PICK d \in [Blocks -> Nat] : d[b] = p[b] + n /\ \A a \in Blocks \ {b} : d[a] = c[a]
    <3>1. [c EXCEPT ![b] = c[b] + n] \in [Blocks -> Nat]
      BY <2>1, <2>3, <2>4
    <3> QED
      BY <2>1, <2>3, <2>4, <3>1
  <2>6. /\ \A u \in Threads : pc'[u] = "Consumed" <=> pc[u] = "Consumed" \/ u = t
        /\ amount'[t] = n /\ \A u \in Threads \ {t} : amount'[u] = amount[u]
    BY <1>0, <2>1
  <2>7. Flow(d, p)'
    <3>1. \A e \in Edges : filled'[e] = p[e[1]] - d[e[2]]
      <4> TAKE e \in Edges
      <4>1. e[1] \in Blocks /\ e[2] \in Blocks /\ filled[e] = p[e[1]] - c[e[2]]
        BY <2>3 DEF Flow
      <4>2. p[e[1]] \in Nat /\ c[e[2]] \in Nat
        BY <2>3, <4>1
      <4>3. CASE e[2] = b
        BY <2>1, <2>4, <2>5, <4>1, <4>2, <4>3 DEF Inputs
      <4>4. CASE e[2] # b
        BY <2>1, <2>5, <4>1, <4>4 DEF Inputs
      <4> QED
        BY <4>3, <4>4
    <3>2. ASSUME ~Endless, NEW s \in Sources PROVE supply'[s] = Supply - d[s]
      <4>1. supply[s] = Supply - c[s] /\ s \in Blocks /\ c[s] \in Nat
        BY <2>3, <3>2 DEF Flow, Sources
      <4>2. CASE s = b
        BY <1>0, <2>1, <2>4, <2>5, <3>2, <4>1, <4>2
      <4>3. CASE s # b
        BY <1>0, <2>1, <2>5, <3>2, <4>1, <4>3
      <4> QED
        BY <4>2, <4>3
    <3>3. \A a \in Blocks : d[a] = p[a] \/ \E u \in Threads : pc'[u] = "Consumed" /\ current'[u] = a
      BY <2>1, <2>3, <2>5, <2>6 DEF Flow
    <3>4. \A u \in Threads : pc'[u] = "Consumed" => d[current'[u]] = p[current'[u]] + amount'[u]
      <4> TAKE u \in Threads
      <4>1. CASE u = t
        BY <2>1, <2>5, <2>6, <4>1
      <4>2. ASSUME u # t, pc[u] = "Consumed" PROVE d[current[u]] = p[current[u]] + amount[u]
        <5>1. current[u] \in Blocks \ {b}
          BY <2>2, <4>2 DEF Known, Types, InFilter
        <5> QED
          BY <2>3, <2>5, <4>2, <5>1 DEF Flow
      <4> QED
        BY <2>1, <2>6, <4>1, <4>2
    <3> QED
      BY <3>1, <3>2, <3>3, <3>4 DEF Flow
  <2>8. \A a \in Blocks : eof'[a] => a \in Sources /\ ~Endless /\ supply'[a] = 0
    <3> SUFFICES ASSUME NEW a \in Blocks, eof[a] PROVE a \in Sources /\ ~Endless /\ supply'[a] = 0
      BY <2>1
    <3>1. a \in Sources /\ ~Endless /\ supply[a] = 0
      BY <2>1 DEF Conserved
    <3>2. a # b
      BY <2>1, <3>1
    <3> QED
      BY <1>0, <2>1, <3>1, <3>2
  <2> QED
    BY <2>3, <2>5, <2>7, <2>8 DEF Conserved
<1>9. ASSUME NEW t \in Threads, ProcessEof(t) PROVE Conserved'
  <2> DEFINE b == current[t]
  <2>1. /\ failed = {} /\ pc[t] = "Process" /\ b \in Blocks
        /\ pc' = [pc EXCEPT ![t] = "Consumed"] /\ amount' = [amount EXCEPT ![t] = 0]
        /\ UNCHANGED <<current, filled, supply>>
        /\ b \in Sources /\ ~Endless /\ supply[b] = 0 /\ eof' = [eof EXCEPT ![b] = TRUE]
    BY <1>0, <1>9 DEF ProcessEof, At, Go, Known, Types, InFilter
  <2>2. \A u \in Threads : pc[u] = "Consumed" => current[u] # b
    BY <2>1 DEF Known, Ownership, Holds, InFilter
  <2>3. PICK c \in [Blocks -> Nat], p \in [Blocks -> Nat] : Flow(c, p)
    BY <2>1 DEF Conserved
  <2>4. c[b] = p[b] /\ p[b] \in Nat
    BY <2>1, <2>2, <2>3 DEF Flow
  <2>5. \A u \in Threads : /\ pc'[u] = "Consumed" <=> pc[u] = "Consumed" \/ u = t
                           /\ amount'[u] = IF u = t THEN 0 ELSE amount[u]
    BY <1>0, <2>1
  <2>6. Flow(c, p)'
    BY <2>1, <2>3, <2>4, <2>5 DEF Flow
  <2>7. \A a \in Blocks : eof'[a] => a \in Sources /\ ~Endless /\ supply'[a] = 0
    BY <1>0, <2>1 DEF Conserved
  <2> QED
    BY <2>3, <2>6, <2>7 DEF Conserved
<1>10. ASSUME NEW t \in Threads, Provide(t) PROVE Conserved'
  <2> DEFINE b == current[t]
  <2>1. /\ failed = {} /\ pc[t] = "Consumed" /\ b \in Blocks
        /\ pc' = [pc EXCEPT ![t] = "Provided"]
        /\ UNCHANGED <<current, amount, eof, supply>>
        /\ filled' = [e \in Edges |-> IF e \in Outputs(b) THEN filled[e] + amount[t] ELSE filled[e]]
    BY <1>0, <1>10 DEF Provide, At, TryThen, Go, Known, Types, InFilter
  <2>2. \A u \in Threads : pc[u] = "Consumed" /\ u # t => current[u] # b
    BY <2>1 DEF Known, Ownership, Holds, InFilter
  <2>3. PICK c \in [Blocks -> Nat], p \in [Blocks -> Nat] : Flow(c, p)
    BY <2>1 DEF Conserved
  <2>4. c[b] = p[b] + amount[t] /\ amount[t] \in Nat /\ p[b] \in Nat
    BY <1>0, <2>1, <2>3 DEF Flow
  <2>5. PICK q \in [Blocks -> Nat] :
          q[b] = p[b] + amount[t] /\ \A a \in Blocks \ {b} : q[a] = p[a]
    <3>1. [p EXCEPT ![b] = p[b] + amount[t]] \in [Blocks -> Nat]
      BY <2>1, <2>3, <2>4
    <3> QED
      BY <2>1, <2>3, <2>4, <3>1
  <2>6. \A u \in Threads : pc'[u] = "Consumed" <=> pc[u] = "Consumed" /\ u # t
    BY <1>0, <2>1
  <2>7. Flow(c, q)'
    <3>1. \A e \in Edges : filled'[e] = q[e[1]] - c[e[2]]
      <4> TAKE e \in Edges
      <4>1. e[1] \in Blocks /\ e[2] \in Blocks /\ filled[e] = p[e[1]] - c[e[2]]
        BY <2>3 DEF Flow
      <4>2. p[e[1]] \in Nat /\ c[e[2]] \in Nat
        BY <2>3, <4>1
      <4>3. CASE e[1] = b
        BY <2>1, <2>4, <2>5, <4>1, <4>2, <4>3 DEF Outputs
      <4>4. CASE e[1] # b
        BY <2>1, <2>5, <4>1, <4>4 DEF Outputs
      <4> QED
        BY <4>3, <4>4
    <3>2. \A a \in Blocks : c[a] = q[a] \/ \E u \in Threads : pc'[u] = "Consumed" /\ current'[u] = a
      BY <2>1, <2>3, <2>4, <2>5, <2>6 DEF Flow
    <3>3. \A u \in Threads : pc'[u] = "Consumed" => c[current'[u]] = q[current'[u]] + amount'[u]
      <4> SUFFICES ASSUME NEW u \in Threads, u # t, pc[u] = "Consumed"
                   PROVE  c[current[u]] = q[current[u]] + amount[u]
        BY <2>1, <2>6
      <4>1. current[u] \in Blocks \ {b}
        BY <2>2 DEF Known, Types, InFilter
      <4> QED
        BY <2>3, <2>5, <4>1 DEF Flow
    <3> QED
      BY <2>1, <2>3, <3>1, <3>2, <3>3 DEF Flow
  <2> QED
    BY <2>1, <2>3, <2>5, <2>7 DEF Conserved
<1>11. CASE Pause \/ Resume \/ Stop
  <2>1. /\ failed' = {} => failed = {}
        /\ UNCHANGED <<filled, supply, eof, current, amount>>
    BY <1>11 DEF Pause, Resume, Stop, At
  <2>2. \A u \in Threads : pc'[u] = "Consumed" <=> pc[u] = "Consumed"
    BY <1>0, <1>11 DEF Pause, Resume, Stop, Broadcast, NotifyAll, Asleep, Woken
  <2> QED
    BY <2>1, <2>2, SameFlow
<1>12. CASE Reset
  <2>1. /\ failed = {} /\ "quiet reset" \in Script /\ Quiet
        /\ UNCHANGED <<current, amount, eof, supply>>
        /\ filled' = [e \in Edges |-> 0] /\ \A u \in Threads : pc'[u] = pc[u]
    BY <1>0, <1>12 DEF Reset, At, TryThen, Go
  <2>2. \A u \in Threads : pc[u] # "Consumed"
    BY <2>1 DEF Quiet, AtRest
  <2>3. PICK k \in Nat : ~Endless => \A s \in Sources : supply[s] = Supply - k
    <3>1. CASE Endless \/ Sources = {}
      BY <3>1
    <3>2. ASSUME NEW s \in Sources PROVE \E k \in Nat : \A r \in Sources : supply[r] = Supply - k
      <4>1. Supply - supply[s] \in Nat /\ supply[s] = Supply - (Supply - supply[s])
        BY <1>0, <3>2
      <4>2. \A r \in Sources : r = s
        BY <2>1, <3>2 DEF ResetTogether
      <4> QED
        BY <4>1, <4>2
    <3> QED
      BY <3>1, <3>2
  <2> DEFINE m == [b \in Blocks |-> k]
  <2>4. m \in [Blocks -> Nat] /\ \A b \in Blocks : m[b] = k
    OBVIOUS
  <2> HIDE DEF m
  <2>5. Flow(m, m)'
    <3>1. \A e \in Edges : filled'[e] = m[e[1]] - m[e[2]]
      <4>1. \A e \in Edges : m[e[1]] = k /\ m[e[2]] = k
        BY <2>4
      <4>2. \A e \in Edges : filled'[e] = 0
        BY <2>1
      <4>3. k \in Nat
        BY <2>3
      <4> QED
        BY <4>1, <4>2, <4>3
    <3>2. ~Endless => \A s \in Sources : supply'[s] = Supply - m[s]
      BY <2>1, <2>3, <2>4 DEF Sources
    <3> QED
      BY <2>1, <2>2, <3>1, <3>2 DEF Flow
  <2> QED
    BY <2>1, <2>4, <2>5 DEF Conserved
<1>13. CASE Wait \/ Finalize
  BY <1>0, <1>13, SameFlow DEF Wait, Finalize, At, Go
<1>14. CASE UNCHANGED vars
  BY <1>14, SameFlow DEF vars
<1> QED
  BY <1>1, <1>2, <1>3, <1>4, <1>5, <1>6, <1>7, <1>8, <1>9, <1>10, <1>11, <1>12, <1>13, <1>14
  DEF Next, Worker, Controller, Terminated, Actors

(* Who is least is dry because of a source that is least as well, and has  *)
(* come to its end; nobody is ahead of the end of the sources.             *)
Drained == supply = [b \in Sources |-> 0] /\ filled = [e \in Edges |-> 0]

LEMMA DryMeansDrained == Acyclic /\ Known /\ Conserved /\ Dry /\ failed = {} => Drained
<1> SUFFICES ASSUME Acyclic, Known, Conserved, Dry, failed = {} PROVE Drained
  OBVIOUS
<1>0. /\ Edges \subseteq Blocks \X Blocks /\ Supply \in Nat /\ Capacity \in Nat /\ Capacity >= 1
      /\ filled \in [Edges -> Int] /\ supply \in [Sources -> 0 .. Supply]
      /\ Sources \subseteq Blocks /\ Blocks # {}
  BY GraphAssumption, BoundsAssumption DEF Known, Types, OtherTypes, Sources
<1>1. PICK c \in [Blocks -> Nat], p \in [Blocks -> Nat] : Flow(c, p)
  BY DEF Conserved
<1>2. \A b \in Blocks : c[b] = p[b] /\ p[b] \in Nat
  BY <1>1 DEF Flow, Dry, Holds, InFilter
<1>3. \A e \in Edges : /\ e[1] \in Blocks /\ e[2] \in Blocks
                       /\ filled[e] = p[e[1]] - p[e[2]] /\ filled[e] >= 0
  BY <1>0, <1>1, <1>2 DEF Flow, Known, Sizes
<1>4. PICK rank \in [Blocks -> Nat] : \A e \in Edges : rank[e[1]] < rank[e[2]]
  BY DEF Acyclic
<1>5. ASSUME NEW S \in SUBSET Blocks, S # {}
      PROVE  \E b \in S : \A e \in Edges : e[2] = b => e[1] \notin S
  <2> DEFINE R == {rank[b] : b \in S}
  <2>1. R \subseteq Nat /\ R # {}
    BY <1>4, <1>5
  <2>2. PICK r \in R : \A q \in R : r <= q
    BY <2>1, LeastMember
  <2>3. PICK b \in S : r = rank[b]
    OBVIOUS
  <2>4. ASSUME NEW e \in Edges, e[2] = b, e[1] \in S PROVE FALSE
    <3>1. rank[e[1]] < rank[b] /\ rank[e[1]] \in Nat /\ rank[b] \in Nat
      BY <1>3, <1>4, <2>4
    <3>2. r <= rank[e[1]]
      BY <2>2, <2>4
    <3> QED
      BY <2>3, <3>1, <3>2
  <2> QED
    BY <2>4
<1>6. PICK m \in Nat : (\E b \in Blocks : p[b] = m) /\ \A b \in Blocks : m <= p[b]
  <2> DEFINE P == {p[b] : b \in Blocks}
  <2>1. P \subseteq Nat /\ P # {}
    BY <1>0, <1>2
  <2>2. PICK m \in P : \A q \in P : m <= q
    BY <2>1, LeastMember
  <2> QED
    BY <2>1, <2>2
<1>7. ~Endless /\ m = Supply
  <2> DEFINE S == {b \in Blocks : p[b] = m}
  <2>1. PICK b \in S : \A e \in Edges : e[2] = b => e[1] \notin S
    BY <1>5, <1>6
  <2>2. \A e \in Outputs(b) : filled[e] + 1 <= Capacity
    <3> TAKE e \in Outputs(b)
    <3>1. e \in Edges /\ p[e[1]] = m
      BY <2>1 DEF Outputs
    <3>2. m <= p[e[2]] /\ p[e[2]] \in Nat /\ filled[e] = m - p[e[2]]
      BY <1>2, <1>3, <1>6, <3>1
    <3> QED
      BY <1>0, <3>2
  <2>3. \A e \in Inputs(b) : filled[e] >= 1
    <3> TAKE e \in Inputs(b)
    <3>1. e \in Edges /\ e[2] = b /\ e[1] \in Blocks /\ e[1] \notin S
      BY <1>3, <2>1 DEF Inputs
    <3>2. m <= p[e[1]] /\ p[e[1]] # m /\ p[e[1]] \in Nat /\ filled[e] = p[e[1]] - m
      BY <1>2, <1>3, <1>6, <2>1, <3>1
    <3> QED
      BY <3>2
  <2>4. eof[b]
    BY <2>1, <2>2, <2>3 DEF Dry, Schedulable, Fits
  <2>5. b \in Sources /\ ~Endless /\ supply[b] = 0
    BY <2>1, <2>4 DEF Conserved
  <2>6. supply[b] = Supply - m
    BY <1>1, <1>2, <2>1, <2>5 DEF Flow
  <2> QED
    BY <1>0, <2>5, <2>6
<1>8. \A b \in Blocks : p[b] = Supply
  <2> DEFINE S == {b \in Blocks : p[b] > Supply}
  <2>1. SUFFICES ASSUME S # {} PROVE FALSE
    BY <1>0, <1>2, <1>6, <1>7
  <2>2. PICK b \in S : \A e \in Edges : e[2] = b => e[1] \notin S
    BY <1>5, <2>1
  <2>3. CASE b \in Sources
    <3>1. supply[b] = Supply - p[b] /\ supply[b] \in 0 .. Supply
      BY <1>0, <1>1, <1>2, <1>7, <2>3 DEF Flow
    <3> QED
      BY <1>0, <1>2, <2>2, <3>1
  <2>4. CASE b \notin Sources
    <3>1. PICK e \in Edges : e[2] = b
      BY <2>2, <2>4 DEF Sources, Inputs
    <3>2. /\ p[e[1]] \in Nat /\ p[b] \in Nat /\ p[b] > Supply /\ p[e[1]] <= Supply
          /\ filled[e] = p[e[1]] - p[b] /\ filled[e] >= 0
      BY <1>0, <1>2, <1>3, <2>2, <3>1
    <3> QED
      BY <1>0, <3>2
  <2> QED
    BY <2>3, <2>4
<1>9. \A e \in Edges : filled[e] = 0
  BY <1>0, <1>3, <1>8
<1>10. \A b \in Sources : supply[b] = 0
  BY <1>0, <1>1, <1>2, <1>7, <1>8 DEF Flow
<1> QED
  BY <1>0, <1>9, <1>10 DEF Drained

(* A failed CHECK, after which nothing happens, comes with no end.         *)
LEMMA DrainedStep ==
  ASSUME Sound, Conserved, FinishedMeansDrained, [Next]_vars,
         "reset" \notin Script, ResetTogether, Acyclic
  PROVE  FinishedMeansDrained'
<1> USE DEF pool, modes, data, trying, control
<1>1. Sound' /\ Conserved'
  BY SoundInvariant, ConservedStep DEF Sound
<1>2. CASE failed' = {}
  <2> SUFFICES ASSUME finished' PROVE Drained'
    BY DEF FinishedMeansDrained, Drained
  <2>1. Dry' /\ Known'
    BY <1>1, <1>2 DEF Sound, Ending
  <2>2. Acyclic' /\ Known' /\ Conserved' /\ Dry' /\ (failed = {})' => Drained'
    BY DryMeansDrained, PTL
  <2>3. Acyclic'
    BY DEF Acyclic
  <2> QED
    BY <1>1, <1>2, <2>1, <2>2, <2>3
<1>3. CASE failed' # {}
  <2>1. ASSUME UNCHANGED <<finished, exception, supply, filled>> PROVE FinishedMeansDrained'
    BY <2>1 DEF FinishedMeansDrained
  <2>2. ASSUME NEW t \in Threads, Finish(t) PROVE failed' = {}
    BY <2>2 DEF Finish, At, Check, Sound, Ending, Dry, NobodyFinishes
  <2>3. ASSUME NEW t \in Threads, NEW n \in 1 .. Capacity, Process(t, n) PROVE failed' = {}
    BY <2>3 DEF Process, At, Check, Sound, Known, Sizes
  <2>4. ASSUME NEW t \in Threads, ProcessEof(t) \/ Throw(t) \/ Provide(t) PROVE failed' = {}
    BY <2>4 DEF ProcessEof, Throw, Provide, At
  <2>5. ASSUME Reset PROVE FinishedMeansDrained'
    BY <2>5 DEF Reset, FinishedMeansDrained
  <2>6. ASSUME NEW t \in Actors, TrySchedulingBlock(t) PROVE FinishedMeansDrained'
    BY <2>1, <2>6 DEF TrySchedulingBlock, Claim, Skip, Evaluate, Commit
  <2>7. ASSUME NEW t \in Threads,
               Exit(t) \/ EnterRelaxedMode(t) \/ BeginFinish(t) \/ Sleep(t) \/ Take(t)
                 \/ TakeAndNotify(t) \/ WakeInVain(t) \/ WakeToExit(t) \/ WakeToTake(t)
                 \/ WakeFromPause(t) \/ Relaxed(t) \/ SpuriousWakeup(t)
        PROVE  FinishedMeansDrained'
    BY <2>1, <2>7 DEF Exit, EnterRelaxedMode, BeginFinish, Sleep, Take, TakeAndNotify, WakeInVain,
       WakeToExit, WakeToTake, WakeFromPause, Relaxed, SpuriousWakeup
  <2>8. ASSUME NEW t \in Threads, Start(t) \/ Done(t) PROVE FinishedMeansDrained'
    BY <2>1, <2>8 DEF Start, Done
  <2>9. ASSUME Pause \/ Resume \/ Stop \/ Wait \/ Finalize \/ UNCHANGED vars
        PROVE  FinishedMeansDrained'
    BY <2>1, <2>9 DEF Pause, Resume, Stop, Wait, Finalize, vars
  <2> QED
    BY <1>3, <2>2, <2>3, <2>4, <2>5, <2>6, <2>7, <2>8, <2>9
    DEF Next, Worker, Controller, Terminated, Actors
<1> QED
  BY <1>2, <1>3

(* The pipeline that finishes by itself has delivered all the data, be it  *)
(* a chain, a tree, or a graph in which ways meet again: the last worker   *)
(* can only run dry when the sources are at their end and every buffer is  *)
(* empty (pipeline.cpp:281-308).                                           *)
THEOREM FinishedMeansDrainedHolds ==
  ASSUME Acyclic, "reset" \notin Script, ResetTogether
  PROVE  Spec => []FinishedMeansDrained
<1>1. Init => Sound /\ Conserved /\ FinishedMeansDrained
  BY SoundInvariant, InitConserved DEF Init, FinishedMeansDrained
<1>2. Sound /\ Conserved /\ FinishedMeansDrained /\ [Next]_vars =>
        (Sound /\ Conserved /\ FinishedMeansDrained)'
  <2> SUFFICES ASSUME Sound, Conserved, FinishedMeansDrained, [Next]_vars
               PROVE  (Sound /\ Conserved /\ FinishedMeansDrained)'
    OBVIOUS
  <2>1. Known
    BY DEF Sound
  <2> QED
    BY <2>1, SoundInvariant, ConservedStep, DrainedStep
<1> QED
  BY <1>1, <1>2, PTL DEF Spec
=============================================================================
