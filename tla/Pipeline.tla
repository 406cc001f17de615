------------------------------ MODULE Pipeline ------------------------------
(***************************************************************************)
(* The asynchronous pipeline: worker threads that schedule and run the     *)
(* blocks of a dataflow graph (src/hvylya/pipelines/async/pipeline.cpp and *)
(* block.cpp), and the thread of the program that controls them.           *)
(*                                                                         *)
(* Nothing is pushed to idle workers when a block becomes schedulable: the *)
(* thread that made it so puts it into the queue and later takes it out    *)
(* itself, unless the queue has grown enough to wake another worker.  So   *)
(* the last worker to run dry has to notice that it is the last; it then   *)
(* retries all blocks with relaxed sizes and finally stops the pipeline.   *)
(*                                                                         *)
(* A step is a critical section of tasks_queue_mutex_, one atomic access   *)
(* to the state of a block, or the update of the buffers by one advance(). *)
(* A circular buffer is the number of elements it holds for every reader   *)
(* here; module CircularBuffer is about its memory.                        *)
(***************************************************************************)
EXTENDS Integers, Sequences, FiniteSets

CONSTANTS
  Threads,            \* the worker threads
  Main,               \* the thread that calls the pipeline
  Blocks,
  Edges,              \* <<b, c>> \in Edges: c reads what b writes
  NoBlock,
  Capacity,           \* elements a buffer holds
  SuggestedSize,      \* suggestedSize() of all channels; requiredSize() is 1
  MinExtraQueueLoad,  \* min_extra_queue_load_
  Faulty,             \* blocks whose filter may throw
  Supply,             \* elements every source has before its end of file
  Endless,            \* TRUE: the sources are live and have no end
  Script,             \* what the program does: a subset of ScriptSteps
  MaxPauses           \* bound: calls of pause()

VARIABLES
  state,              \* state_ of the pipeline
  queue,              \* queue_
  threads_running, threads_waiting, threads_waking_up,
  relaxed_mode, scheduling, finished, exception,
  block_state,        \* block_state[b]: Block::state_
  filled,             \* filled[<<b, c>>]: elements in b's buffer not yet read by c
  supply,             \* supply[b]: elements source b still has
  eof,                \* eof[b]: OutputState::eof_ of source b
  pc,                 \* where a thread is
  current,            \* the block a worker runs
  amount,             \* elements the filter of that block consumes and provides
  todo,               \* blocks a thread has yet to try to schedule
  claimed,            \* the block it is trying to schedule
  verdict,            \* what it found out about it
  found,              \* whether scheduleAllBlocks() has scheduled any
  pauses,
  failed              \* the CHECKs that have failed and aborted the program

pool == <<threads_running, threads_waiting, threads_waking_up>>
modes == <<relaxed_mode, scheduling, finished, exception>>
data == <<filled, supply, eof>>
trying == <<todo, claimed, verdict, found>>
control == <<pauses, failed>>

vars == <<state, queue, pool, modes, block_state, data, pc, current, amount, trying, control>>

Actors == Threads \cup {Main}

(* A "quiet reset" is one whose caller knows all workers to be at rest.    *)
ScriptSteps == {"pause", "reset", "quiet reset", "stop"}

Checks == {"block is Scheduled", "nothing left to schedule", "slice is large enough",
           "finished blocks are Idle", "pause while Running", "reset while Paused",
           "stop while Running or Paused"}

ASSUME GraphAssumption ==
  /\ IsFiniteSet(Threads) /\ Threads # {} /\ Main \notin Threads
  /\ IsFiniteSet(Blocks) /\ Blocks # {} /\ NoBlock \notin Blocks
  /\ Edges \subseteq Blocks \X Blocks

ASSUME BoundsAssumption ==
  /\ SuggestedSize \in Nat \ {0} /\ Capacity \in Nat /\ SuggestedSize <= Capacity
  /\ MinExtraQueueLoad \in Nat /\ Supply \in Nat /\ MaxPauses \in Nat
  /\ Faulty \subseteq Blocks /\ Endless \in BOOLEAN /\ Script \subseteq ScriptSteps

Inputs(b) == {e \in Edges : e[2] = b}
Outputs(b) == {e \in Edges : e[1] = b}
Sources == {b \in Blocks : Inputs(b) = {}}
Upstream(b) == {e[1] : e \in Inputs(b)}
Downstream(b) == {e[2] : e \in Outputs(b)}
-----------------------------------------------------------------------------
(***************************************************************************)
(* Sizes: what the slices of a block allow, and the tests of               *)
(* trySchedulingBlock.  Outside the relaxed mode a channel that is about   *)
(* to wrap needs the required size only; where a buffer wraps is beyond    *)
(* this module, so either threshold may apply.                             *)
(***************************************************************************)
(* Mutant: the space for the output is not looked at.                    *)
FitsInputs(b, n) ==
  /\ \A e \in Inputs(b) : filled[e] >= n

Fits(b, n) ==
  /\ \A e \in Inputs(b) : filled[e] >= n
  /\ \A e \in Outputs(b) : filled[e] + n <= Capacity

Thresholds == IF relaxed_mode THEN {1} ELSE {1, SuggestedSize}

Schedulable(b, threshold) == Fits(b, threshold) /\ ~eof[b]

(***************************************************************************)
(* Init is the pipeline after start(): every source is queued, and the     *)
(* workers are about to enter runThread().                                 *)
(***************************************************************************)
Orders(S) ==
  {q \in [1 .. Cardinality(S) -> S] :
     /\ S = {q[i] : i \in DOMAIN q}
     /\ \A i, j \in DOMAIN q : q[i] = q[j] => i = j}

Init ==
  /\ state = "Running"
  /\ queue \in Orders(Sources)
  /\ threads_running = Cardinality(Threads)
  /\ threads_waiting = 0
  /\ threads_waking_up = 0
  /\ relaxed_mode = FALSE /\ scheduling = FALSE /\ finished = FALSE /\ exception = FALSE
  /\ block_state = [b \in Blocks |-> IF b \in Sources THEN "Scheduled" ELSE "Idle"]
  /\ filled = [e \in Edges |-> 0]
  /\ supply = [b \in Sources |-> Supply]
  /\ eof = [b \in Blocks |-> FALSE]
  /\ pc = [t \in Actors |-> IF t = Main THEN "Control" ELSE "Top"]
  /\ current = [t \in Threads |-> NoBlock]
  /\ amount = [t \in Threads |-> 0]
  /\ todo = [t \in Actors |-> {}]
  /\ claimed = [t \in Actors |-> NoBlock]
  /\ verdict = [t \in Actors |-> "unknown"]
  /\ found = [t \in Actors |-> FALSE]
  /\ pauses = 0
  /\ failed = {}

Go(t, place) == pc' = [pc EXCEPT ![t] = place]

(* Thread t tries to schedule blocks, from the place pc[t].                *)
Trying(t) == todo[t] # {} \/ claimed[t] # NoBlock

(* Thread t can go on from place; a failed CHECK has aborted the program.  *)
At(t, place) == failed = {} /\ pc[t] = place /\ ~Trying(t)

Check(name, holds) == failed' = IF holds THEN failed ELSE failed \cup {name}
-----------------------------------------------------------------------------
(***************************************************************************)
(* trySchedulingBlock(b), for a b of todo[t].                              *)
(***************************************************************************)
(* Mutant: two threads may be scheduling the same block.                 *)
ClaimRacy(t, b) ==
  /\ failed = {}
  /\ claimed[t] = NoBlock
  /\ b \in todo[t]
  /\ block_state[b] \in {"Idle", "Scheduling"}
  /\ block_state' = [block_state EXCEPT ![b] = "Scheduling"]
  /\ claimed' = [claimed EXCEPT ![t] = b]
  /\ todo' = [todo EXCEPT ![t] = @ \ {b}]
  /\ UNCHANGED <<state, queue, pool, modes, data, pc, current, amount, verdict, found, control>>

(* The compare_exchange succeeds.                                          *)
Claim(t, b) ==
  /\ failed = {}
  /\ claimed[t] = NoBlock
  /\ b \in todo[t]
  /\ block_state[b] = "Idle"
  /\ block_state' = [block_state EXCEPT ![b] = "Scheduling"]
  /\ claimed' = [claimed EXCEPT ![t] = b]
  /\ todo' = [todo EXCEPT ![t] = @ \ {b}]
  /\ UNCHANGED <<state, queue, pool, modes, data, pc, current, amount, verdict, found, control>>

(* Mutant: somebody else is scheduling the block, so why should we.      *)
SkipScheduling(t, b) ==
  /\ failed = {}
  /\ claimed[t] = NoBlock
  /\ b \in todo[t]
  /\ block_state[b] \in {"Running", "Scheduled", "Scheduling"}
  /\ todo' = [todo EXCEPT ![t] = @ \ {b}]
  /\ UNCHANGED <<state, queue, pool, modes, block_state, data, pc, current, amount, claimed,
                 verdict, found, control>>

(* ... or it fails because the block is going to see all changes without   *)
(* our help.  While another thread is Scheduling the block, the loop spins.*)
Skip(t, b) ==
  /\ failed = {}
  /\ claimed[t] = NoBlock
  /\ b \in todo[t]
  /\ block_state[b] \in {"Running", "Scheduled"}
  /\ todo' = [todo EXCEPT ![t] = @ \ {b}]
  /\ UNCHANGED <<state, queue, pool, modes, block_state, data, pc, current, amount, claimed,
                 verdict, found, control>>

(* The sizes are read without any mutex ...                                *)
Evaluate(t) ==
  /\ failed = {}
  /\ claimed[t] # NoBlock
  /\ verdict[t] = "unknown"
  /\ \E threshold \in Thresholds :
       verdict' = [verdict EXCEPT ![t] =
                     IF Schedulable(claimed[t], threshold) THEN "yes" ELSE "no"]
  /\ UNCHANGED <<state, queue, pool, modes, block_state, data, pc, current, amount, todo,
                 claimed, found, control>>

(* ... and acted upon later.                                               *)
Commit(t) ==
  LET b == claimed[t]
      yes == verdict[t] = "yes"
  IN  /\ failed = {}
      /\ verdict[t] # "unknown"
      /\ queue' = IF yes THEN Append(queue, b) ELSE queue
      /\ block_state' = [block_state EXCEPT ![b] = IF yes THEN "Scheduled" ELSE "Idle"]
      /\ found' = [found EXCEPT ![t] = @ \/ yes]
      /\ claimed' = [claimed EXCEPT ![t] = NoBlock]
      /\ verdict' = [verdict EXCEPT ![t] = "unknown"]
      /\ UNCHANGED <<state, pool, modes, data, pc, current, amount, todo, control>>

TrySchedulingBlock(t) ==
  \/ \E b \in Blocks : Claim(t, b) \/ Skip(t, b)
  \/ Evaluate(t)
  \/ Commit(t)

(* The thread goes on to try the blocks bs, and continues at place.        *)
TryThen(t, bs, place) ==
  /\ todo' = [todo EXCEPT ![t] = bs]
  /\ found' = [found EXCEPT ![t] = FALSE]
  /\ Go(t, place)
  /\ UNCHANGED <<claimed, verdict>>
-----------------------------------------------------------------------------
(***************************************************************************)
(* The condition variable task_scheduled_.  Idle and paused workers sleep  *)
(* on it alike, and each evaluates its own predicate when it is woken.     *)
(***************************************************************************)
Asleep == {t \in Threads : pc[t] \in {"Sleeping", "Pausing"}}

Woken(place) == IF place = "Sleeping" THEN "Woken" ELSE "PauseWoken"

NotifyAll(places) ==
  [t \in Actors |-> IF t \in Asleep THEN Woken(pc[t]) ELSE places[t]]

(* Mutant: only the idle workers are told.                                 *)
BroadcastToIdle(new_state, places) ==
  /\ state' = new_state
  /\ threads_waiting' = 0
  /\ pc' = [t \in Actors |-> IF t \in Threads /\ pc[t] = "Sleeping" THEN "Woken" ELSE places[t]]

(* state_ becomes new_state, and everybody is told.                        *)
Broadcast(new_state, places) ==
  /\ state' = new_state
  /\ threads_waiting' = 0
  /\ pc' = NotifyAll(places)

TakeTask(t, places) ==
  /\ current' = [current EXCEPT ![t] = Head(queue)]
  /\ queue' = Tail(queue)
  /\ pc' = [places EXCEPT ![t] = "Start"]

(* Mutant: a paused pipeline goes on while there is work.                *)
TakeAlways(t, running, places) ==
  \/ /\ state = "Paused"
     /\ pc' = [places EXCEPT ![t] = "Pausing"]
     /\ threads_running' = running
     /\ UNCHANGED <<queue, current>>
  \/ /\ state \in {"Running", "Paused"}
     /\ TakeTask(t, places)
     /\ threads_running' = running + 1

(* runThread() behind the idle wait: paused workers wait, others go on.    *)
PauseOrTake(t, running, places) ==
  \/ /\ state = "Paused"
     /\ pc' = [places EXCEPT ![t] = "Pausing"]
     /\ threads_running' = running
     /\ UNCHANGED <<queue, current>>
  \/ /\ state = "Running"
     /\ TakeTask(t, places)
     /\ threads_running' = running + 1
-----------------------------------------------------------------------------
(***************************************************************************)
(* The top of the loop of runThread(), under tasks_queue_mutex_.           *)
(***************************************************************************)
(* Mutant: scheduling_ is not looked at.                                 *)
LastWhileScheduling == queue = <<>> /\ threads_running = 1

(* Mutant: other workers are not looked at.                              *)
LastWhileRunning == queue = <<>> /\ ~scheduling

Last == queue = <<>> /\ threads_running = 1 /\ ~scheduling

Exit(t) ==
  /\ At(t, "Top")
  /\ state = "Stopped"
  /\ threads_running' = threads_running - 1
  /\ Go(t, "Exited")
  /\ UNCHANGED <<state, queue, threads_waiting, threads_waking_up, modes, block_state, data,
                 current, amount, trying, control>>

(* Mutant: the blocks are not tried with the relaxed sizes.              *)
RelaxWithoutRetry(t) ==
  /\ At(t, "Top") /\ state # "Stopped"
  /\ Last /\ ~relaxed_mode
  /\ threads_running' = threads_running - 1
  /\ relaxed_mode' = TRUE
  /\ scheduling' = TRUE
  /\ TryThen(t, {}, "Relaxing")
  /\ UNCHANGED <<state, queue, threads_waiting, threads_waking_up, finished, exception,
                 block_state, data, current, amount, control>>

EnterRelaxedMode(t) ==
  /\ At(t, "Top") /\ state # "Stopped"
  /\ Last /\ ~relaxed_mode
  /\ threads_running' = threads_running - 1
  /\ relaxed_mode' = TRUE
  /\ scheduling' = TRUE
  /\ TryThen(t, Blocks, "Relaxing")
  /\ UNCHANGED <<state, queue, threads_waiting, threads_waking_up, finished, exception,
                 block_state, data, current, amount, control>>

BeginFinish(t) ==
  /\ At(t, "Top") /\ state # "Stopped"
  /\ Last /\ relaxed_mode
  /\ threads_running' = threads_running - 1
  /\ TryThen(t, Blocks, "Finishing")
  /\ UNCHANGED <<state, queue, threads_waiting, threads_waking_up, modes, block_state, data,
                 current, amount, control>>

(* The predicate is evaluated before the first wait: it finds the queue    *)
(* empty, and takes over the wake-up of another worker if there is one.    *)
StolenWakeup == IF threads_waking_up > 0 THEN 1 ELSE 0

Sleep(t) ==
  /\ At(t, "Top") /\ state # "Stopped"
  /\ queue = <<>> /\ ~Last
  /\ threads_running' = threads_running - 1
  /\ threads_waiting' = threads_waiting + 1 + StolenWakeup
  /\ threads_waking_up' = threads_waking_up - StolenWakeup
  /\ Go(t, "Sleeping")
  /\ UNCHANGED <<state, queue, modes, block_state, data, current, amount, trying, control>>

Overloaded ==
  /\ threads_waiting > 0
  /\ Len(queue) > Cardinality(Threads) - threads_waiting + MinExtraQueueLoad

Take(t) ==
  /\ At(t, "Top") /\ state # "Stopped"
  /\ queue # <<>> /\ ~Overloaded
  /\ PauseOrTake(t, threads_running - 1, pc)
  /\ UNCHANGED <<state, threads_waiting, threads_waking_up, modes, block_state, data, amount,
                 trying, control>>

(* With enough work in the queue for one more worker, notify_one().        *)
TakeAndNotify(t) ==
  /\ At(t, "Top") /\ state # "Stopped"
  /\ queue # <<>> /\ Overloaded
  /\ threads_waiting' = threads_waiting - 1
  /\ threads_waking_up' = threads_waking_up + 1
  /\ \/ /\ Asleep = {}
        /\ PauseOrTake(t, threads_running - 1, pc)
     \/ \E u \in Asleep :
          PauseOrTake(t, threads_running - 1, [pc EXCEPT ![u] = Woken(pc[u])])
  /\ UNCHANGED <<state, modes, block_state, data, amount, trying, control>>

(***************************************************************************)
(* A worker woken from the idle wait evaluates the predicate: it is ready  *)
(* when the pipeline has stopped, or when the wake-up was meant for an     *)
(* idle worker and there still is a task.                                  *)
(***************************************************************************)
Ready == state = "Stopped" \/ (threads_waking_up > 0 /\ queue # <<>>)

(* Mutant: a worker that is ready still counts as waiting.               *)
ConsumeWakeupAsIdle ==
  IF threads_waking_up > 0
    THEN /\ threads_waking_up' = threads_waking_up - 1
         /\ threads_waiting' = threads_waiting + 1
    ELSE UNCHANGED <<threads_waking_up, threads_waiting>>

ConsumeWakeup ==
  IF threads_waking_up > 0
    THEN /\ threads_waking_up' = threads_waking_up - 1
         /\ threads_waiting' = IF Ready THEN threads_waiting ELSE threads_waiting + 1
    ELSE UNCHANGED <<threads_waking_up, threads_waiting>>

WakeInVain(t) ==
  /\ At(t, "Woken") /\ ~Ready
  /\ ConsumeWakeup
  /\ Go(t, "Sleeping")
  /\ UNCHANGED <<state, queue, threads_running, modes, block_state, data, current, amount,
                 trying, control>>

WakeToExit(t) ==
  /\ At(t, "Woken") /\ state = "Stopped"
  /\ ConsumeWakeup
  /\ Go(t, "Exited")
  /\ UNCHANGED <<state, queue, threads_running, modes, block_state, data, current, amount,
                 trying, control>>

WakeToTake(t) ==
  /\ At(t, "Woken") /\ Ready /\ state # "Stopped"
  /\ ConsumeWakeup
  /\ PauseOrTake(t, threads_running, pc)
  /\ UNCHANGED <<state, modes, block_state, data, amount, trying, control>>

(* A condition variable may wake a thread for no reason.                   *)
SpuriousWakeup(t) ==
  /\ failed = {}
  /\ t \in Asleep
  /\ Go(t, Woken(pc[t]))
  /\ UNCHANGED <<state, queue, pool, modes, block_state, data, current, amount, trying, control>>

WakeFromPause(t) ==
  /\ At(t, "PauseWoken")
  /\ IF state = "Paused" THEN Go(t, "Pausing") /\ UNCHANGED threads_running
                         ELSE Go(t, "Top") /\ threads_running' = threads_running + 1
  /\ UNCHANGED <<state, queue, threads_waiting, threads_waking_up, modes, block_state, data,
                 current, amount, trying, control>>

(* Mutant: the worker does not count itself in again.                    *)
RelaxedUncounted(t) ==
  /\ At(t, "Relaxing")
  /\ scheduling' = FALSE
  /\ UNCHANGED threads_running
  /\ Go(t, "Top")
  /\ UNCHANGED <<state, queue, threads_waiting, threads_waking_up, relaxed_mode, finished,
                 exception, block_state, data, current, amount, trying, control>>

(* The last worker has retried all blocks with relaxed sizes.              *)
Relaxed(t) ==
  /\ At(t, "Relaxing")
  /\ scheduling' = FALSE
  /\ threads_running' = threads_running + 1
  /\ Go(t, "Top")
  /\ UNCHANGED <<state, queue, threads_waiting, threads_waking_up, relaxed_mode, finished,
                 exception, block_state, data, current, amount, trying, control>>

(* Mutant: the other workers are not told.                               *)
FinishSilently(t) ==
  /\ At(t, "Finishing")
  /\ Check("nothing left to schedule", ~found[t])
  /\ finished' = TRUE
  /\ state' = "Stopped" /\ threads_waiting' = 0 /\ Go(t, "Exited")
  /\ UNCHANGED <<queue, threads_running, threads_waking_up, relaxed_mode, scheduling, exception,
                 block_state, data, current, amount, trying, pauses>>

(* CHECK(!scheduleAllBlocks()), and the end of the pipeline.               *)
Finish(t) ==
  /\ At(t, "Finishing")
  /\ Check("nothing left to schedule", ~found[t])
  /\ finished' = TRUE
  /\ Broadcast("Stopped", [pc EXCEPT ![t] = "Exited"])
  /\ UNCHANGED <<queue, threads_running, threads_waking_up, relaxed_mode, scheduling, exception,
                 block_state, data, current, amount, trying, pauses>>
-----------------------------------------------------------------------------
(***************************************************************************)
(* Running a block.                                                        *)
(***************************************************************************)
Start(t) ==
  /\ At(t, "Start")
  /\ Check("block is Scheduled", block_state[current[t]] = "Scheduled")
  /\ block_state' = [block_state EXCEPT ![current[t]] = "Running"]
  /\ Go(t, "Process")
  /\ UNCHANGED <<state, queue, pool, modes, data, current, amount, trying, pauses>>

(* The filter works on n elements of its slices, and the readers of the    *)
(* block advance; this tells the blocks that write to them.  A block with  *)
(* slices too small for the least amount fails the CHECK on what it did.   *)
Process(t, n) ==
  LET b == current[t]
  IN  /\ At(t, "Process")
      /\ n = 1 \/ Fits(b, n)
      /\ Check("slice is large enough", Fits(b, n))
      /\ b \in Sources /\ ~Endless => n <= supply[b]
      /\ filled' = [e \in Edges |-> IF e \in Inputs(b) THEN filled[e] - n ELSE filled[e]]
      /\ supply' = IF b \in Sources /\ ~Endless THEN [supply EXCEPT ![b] = @ - n] ELSE supply
      /\ amount' = [amount EXCEPT ![t] = n]
      /\ TryThen(t, Upstream(b), "Consumed")
      /\ UNCHANGED <<state, queue, pool, modes, block_state, eof, current, pauses>>

(* A source that has come to its end says so and provides nothing.         *)
ProcessEof(t) ==
  LET b == current[t]
  IN  /\ At(t, "Process")
      /\ b \in Sources /\ ~Endless /\ supply[b] = 0
      /\ eof' = [eof EXCEPT ![b] = TRUE]
      /\ amount' = [amount EXCEPT ![t] = 0]
      /\ Go(t, "Consumed")
      /\ UNCHANGED <<state, queue, pool, modes, block_state, filled, supply, current, trying,
                     control>>

(* The filter throws: the first exception stops the pipeline, and in any   *)
(* case this worker exits.                                                 *)
Throw(t) ==
  LET exited == [pc EXCEPT ![t] = "Exited"]
  IN  /\ At(t, "Process")
      /\ current[t] \in Faulty
      /\ block_state' = [block_state EXCEPT ![current[t]] = "Idle"]
      /\ exception' = TRUE
      /\ IF exception
           THEN pc' = exited /\ UNCHANGED <<state, threads_waiting>>
           ELSE Broadcast("Stopped", exited)
      /\ UNCHANGED <<queue, threads_running, threads_waking_up, relaxed_mode, scheduling,
                     finished, data, current, amount, trying, control>>

(* The writers of the block advance; this tells the blocks that read.      *)
Provide(t) ==
  LET b == current[t]
  IN  /\ At(t, "Consumed")
      /\ filled' = [e \in Edges |-> IF e \in Outputs(b) THEN filled[e] + amount[t] ELSE filled[e]]
      /\ TryThen(t, IF amount[t] = 0 THEN {} ELSE Downstream(b), "Provided")
      /\ UNCHANGED <<state, queue, pool, modes, block_state, supply, eof, current, amount, control>>

(* The block has been processed, and is tried again at once.               *)
Done(t) ==
  /\ At(t, "Provided")
  /\ block_state' = [block_state EXCEPT ![current[t]] = "Idle"]
  /\ TryThen(t, {current[t]}, "Top")
  /\ current' = [current EXCEPT ![t] = NoBlock]
  /\ amount' = [amount EXCEPT ![t] = 0]
  /\ UNCHANGED <<state, queue, pool, modes, data, control>>
-----------------------------------------------------------------------------
(***************************************************************************)
(* The controlling thread.  main.cpp pauses the pipeline, resets it after  *)
(* tuning the receiver, resumes it, and stops it when the user quits.      *)
(***************************************************************************)
Pause ==
  /\ At(Main, "Control") /\ "pause" \in Script /\ pauses < MaxPauses
  /\ Check("pause while Running", state = "Running")
  /\ Broadcast("Paused", [pc EXCEPT ![Main] = "Paused"])
  /\ pauses' = pauses + 1
  /\ UNCHANGED <<queue, threads_running, threads_waking_up, modes, block_state, data, current,
                 amount, trying>>

(* All workers wait for the condition variable.                            *)
AtRest == {"Sleeping", "Woken", "Pausing", "PauseWoken", "Exited"}

Quiet == \A t \in Threads : pc[t] \in AtRest

(* Mutant: the queue is not cleared.                                     *)
ResetKeepsQueue ==
  /\ At(Main, "Paused")
  /\ "reset" \in Script \/ ("quiet reset" \in Script /\ Quiet)
  /\ Check("reset while Paused", state = "Paused")
  /\ block_state' = [b \in Blocks |-> "Idle"]
  /\ filled' = [e \in Edges |-> 0]
  /\ UNCHANGED queue
  /\ TryThen(Main, Blocks, "Reset")
  /\ UNCHANGED <<state, pool, modes, supply, eof, current, amount, pauses>>

(* Every block and buffer returns to its initial state and the queue is    *)
(* cleared; the mutex is released before the blocks are scheduled again.   *)
Reset ==
  /\ At(Main, "Paused")
  /\ "reset" \in Script \/ ("quiet reset" \in Script /\ Quiet)
  /\ Check("reset while Paused", state = "Paused")
  /\ block_state' = [b \in Blocks |-> "Idle"]
  /\ filled' = [e \in Edges |-> 0]
  /\ queue' = <<>>
  /\ TryThen(Main, Blocks, "Reset")
  /\ UNCHANGED <<state, pool, modes, supply, eof, current, amount, pauses>>

(* Mutant: the paused workers are not told.                              *)
ResumeSilently ==
  /\ At(Main, "Paused") \/ At(Main, "Reset")
  /\ state = "Paused"
  /\ state' = "Running" /\ threads_waiting' = 0 /\ Go(Main, "Control")
  /\ UNCHANGED <<queue, threads_running, threads_waking_up, modes, block_state, data, current,
                 amount, trying, control>>

Resume ==
  /\ At(Main, "Paused") \/ At(Main, "Reset")
  /\ state = "Paused"
  /\ Broadcast("Running", [pc EXCEPT ![Main] = "Control"])
  /\ UNCHANGED <<queue, threads_running, threads_waking_up, modes, block_state, data, current,
                 amount, trying, control>>

(* Mutant: the workers are not told.                                     *)
StopSilently ==
  /\ At(Main, "Control") \/ At(Main, "Paused")
  /\ "stop" \in Script
  /\ Check("stop while Running or Paused", state \in {"Running", "Paused"})
  /\ state' = "Stopped" /\ threads_waiting' = 0 /\ Go(Main, "Joining")
  /\ UNCHANGED <<queue, threads_running, threads_waking_up, modes, block_state, data, current,
                 amount, trying, pauses>>

Stop ==
  /\ At(Main, "Control") \/ At(Main, "Paused")
  /\ "stop" \in Script
  /\ Check("stop while Running or Paused", state \in {"Running", "Paused"})
  /\ Broadcast("Stopped", [pc EXCEPT ![Main] = "Joining"])
  /\ UNCHANGED <<queue, threads_running, threads_waking_up, modes, block_state, data, current,
                 amount, trying, pauses>>

(* run() does nothing but wait for the end.                                *)
Wait ==
  /\ At(Main, "Control") /\ Script = {}
  /\ Go(Main, "Joining")
  /\ UNCHANGED <<state, queue, pool, modes, block_state, data, current, amount, trying, control>>

AllExited == \A t \in Threads : pc[t] = "Exited"

(* wait() returns and finalize() rethrows the exception or checks blocks.  *)
Finalize ==
  /\ At(Main, "Joining") /\ AllExited
  /\ Check("finished blocks are Idle",
           exception \/ ~finished \/ \A b \in Blocks : block_state[b] = "Idle")
  /\ Go(Main, IF exception THEN "Rethrown" ELSE "Returned")
  /\ UNCHANGED <<state, queue, pool, modes, block_state, data, current, amount, trying, pauses>>
-----------------------------------------------------------------------------
Worker(t) ==
  \/ TrySchedulingBlock(t)
  \/ Exit(t) \/ EnterRelaxedMode(t) \/ BeginFinish(t) \/ Sleep(t)
  \/ Take(t) \/ TakeAndNotify(t)
  \/ WakeInVain(t) \/ WakeToExit(t) \/ WakeToTake(t) \/ WakeFromPause(t)
  \/ Relaxed(t) \/ Finish(t)
  \/ Start(t)
  \/ \E n \in 1 .. Capacity : Process(t, n)
  \/ ProcessEof(t) \/ Throw(t)
  \/ Provide(t) \/ Done(t)

Controller ==
  \/ TrySchedulingBlock(Main)
  \/ Pause \/ Reset \/ Resume \/ Stop
  \/ Wait \/ Finalize

(* The program is over when finalize() has returned or rethrown.           *)
Terminated == pc[Main] \in {"Returned", "Rethrown"} /\ UNCHANGED vars

Next ==
  \/ \E t \in Threads : Worker(t) \/ SpuriousWakeup(t)
  \/ Controller
  \/ Terminated

Spec == Init /\ [][Next]_vars

(* The operating system runs every thread that can go on.  What the        *)
(* program does with the pipeline, and when, is its own affair.            *)
Fairness ==
  /\ \A t \in Threads : WF_vars(Worker(t))
  /\ WF_vars(TrySchedulingBlock(Main))
  /\ WF_vars((Wait \/ Finalize))

FairSpec == Spec /\ Fairness
-----------------------------------------------------------------------------
Places == AtRest \cup
  {"Top", "Relaxing", "Finishing", "Start", "Process", "Consumed", "Provided"}

MainPlaces == {"Control", "Paused", "Reset", "Joining", "Returned", "Rethrown"}

(* The values the variables range over.                                    *)
TypeOK ==
  /\ state \in {"Stopped", "Paused", "Running"}
  /\ queue \in Seq(Blocks)
  /\ threads_running \in 0 .. Cardinality(Threads)
  /\ threads_waiting \in 0 .. Cardinality(Threads)
  /\ threads_waking_up \in 0 .. Cardinality(Threads)
  /\ {relaxed_mode, scheduling, finished, exception} \subseteq BOOLEAN
  /\ block_state \in [Blocks -> {"Idle", "Scheduling", "Scheduled", "Running"}]
  /\ filled \in [Edges -> 0 .. Capacity]
  /\ supply \in [Sources -> 0 .. Supply]
  /\ eof \in [Blocks -> BOOLEAN]
  /\ pc \in [Actors -> Places \cup MainPlaces]
  /\ \A t \in Threads : pc[t] \in Places
  /\ pc[Main] \in MainPlaces
  /\ current \in [Threads -> Blocks \cup {NoBlock}]
  /\ amount \in [Threads -> 0 .. Capacity]
  /\ todo \in [Actors -> SUBSET Blocks]
  /\ claimed \in [Actors -> Blocks \cup {NoBlock}]
  /\ verdict \in [Actors -> {"unknown", "yes", "no"}]
  /\ found \in [Actors -> BOOLEAN]
  /\ pauses \in 0 .. MaxPauses
  /\ failed \subseteq Checks

(* "blocks cannot be executed simultaneously by multiple threads": a block *)
(* has one owner, the queue, the worker that runs it or the thread that    *)
(* tries to schedule it, whatever the threads do at the same time          *)
(* (pipeline.cpp:402-446, 367-396).                                        *)
InFilter == {"Process", "Consumed", "Provided"}

Owners(b) ==
       {<<"queue", i>> : i \in {j \in DOMAIN queue : queue[j] = b}}
  \cup {<<"worker", t>> : t \in {u \in Threads : pc[u] \in {"Start"} \cup InFilter /\ current[u] = b}}
  \cup {<<"claim", t>> : t \in {u \in Actors : claimed[u] = b}}

OneOwner ==
  \A b \in Blocks :
    IF block_state[b] = "Idle" THEN Owners(b) = {} ELSE \E o \in Owners(b) : Owners(b) = {o}

(* No call of the pipeline's own code aborts the program: a block that is  *)
(* taken from the queue is still Scheduled and still has the slices it was *)
(* scheduled for, nothing is left to schedule at the end, and the blocks   *)
(* are Idle then (pipeline.cpp:305, 373, 233, block.cpp:173, 186).         *)
NoCheckFails == failed = {}

(* CHECK(block->state().load() == Block::State::Scheduled), the first of   *)
(* them by itself (pipeline.cpp:373).                                      *)
RunsOnlyScheduled == "block is Scheduled" \notin failed

(* The CHECK of stop(): the program may stop a pipeline it has started     *)
(* (pipeline.cpp:208).                                                     *)
StopAccepted == "stop while Running or Paused" \notin failed

(* No lost wake-up: an Idle block that could run is about to be tried by   *)
(* some thread.  The sizes are read without a mutex, and whoever changes   *)
(* them may find the block Running, Scheduled or Scheduling and pass on    *)
(* (pipeline.cpp:402-414 says why it may).                                 *)
Threshold == IF relaxed_mode THEN 1 ELSE SuggestedSize

NoMissedBlock ==
  state # "Stopped" /\ failed = {} =>
    \A b \in Blocks :
      block_state[b] = "Idle" /\ Schedulable(b, Threshold) => \E t \in Actors : b \in todo[t]

(* Workers at rest are not all of them: some worker is awake as long as    *)
(* the pipeline is running (pipeline.cpp:279-341).                         *)
SomebodyAwake ==
  state = "Running" => \E t \in Threads : pc[t] \notin {"Sleeping", "Pausing", "Exited"}

(* threads_running_ is the number of workers that are not at rest, which   *)
(* is what the decision that the pipeline has run dry is made from.        *)
Active == {t \in Threads : pc[t] \in {"Top", "Start", "Process", "Consumed", "Provided"}}

RunningCounted == state # "Stopped" => threads_running = Cardinality(Active)

(* A wake-up is never given to more workers than there are asleep or       *)
(* waking up; otherwise the test that spends it underflows                 *)
(* (pipeline.cpp:342).                                                     *)
WaitersCounted ==
  threads_waiting + threads_waking_up <=
    Cardinality({t \in Threads : pc[t] \in {"Sleeping", "Woken"}})

(* The pipeline that finishes by itself has delivered all the data.        *)
FinishedMeansDrained ==
  finished /\ ~exception => supply = [b \in Sources |-> 0] /\ filled = [e \in Edges |-> 0]

(* Relaxed sizes are for the tail of the data: the mode is entered when no *)
(* block can go on with its suggested size (pipeline.cpp:281-286).         *)
RelaxedOnlyWhenDry ==
  [][relaxed_mode' # relaxed_mode =>
       \A b \in Blocks : ~Schedulable(b, SuggestedSize) /\ block_state[b] = "Idle"]_vars

(* run() comes back.                                                       *)
Ends == <>(pc[Main] \in {"Returned", "Rethrown"})

(* No block is starved while the pipeline runs.                            *)
EveryBlockRuns ==
  \A b \in Blocks : state = "Running" ~> (state # "Running" \/ block_state[b] = "Running")

(* A pause lets the workers come to rest ...                               *)
PauseQuiesces == state = "Paused" ~> (state # "Paused" \/ Quiet)

(* ... and stop() returns.                                                 *)
StopReturns == state = "Stopped" ~> pc[Main] = "Returned"
=============================================================================
