--------------------------- MODULE ClientLifecycle ---------------------------
(***************************************************************************)
(* The concurrency core of netft::Client::Impl                             *)
(* (core/src/detail/client_impl.cpp): start(), stop(), bias() and          *)
(* wait_for_first_sample() called from any number of threads, the receive  *)
(* worker that start() creates, and the sample callback that runs on the   *)
(* worker and may call the client back.                                    *)
(*                                                                         *)
(* A step is one critical section, or one access to an atomic outside of   *)
(* any.  command_mutex_, record_mutex_ and data_mutex_ are only ever held  *)
(* within one step and need no variable; lifecycle_mutex_ is held across   *)
(* steps and has one.  pc[p] is where thread p is inside an API call,      *)
(* run_pc is where the worker is inside run().                             *)
(*                                                                         *)
(* Data is abstracted to what these properties tell apart: a session ends  *)
(* "Stopped" or "Failed" (every other SessionResult), a fault code is set  *)
(* or not, a record is delivered or not and fails the session or not.      *)
(***************************************************************************)
EXTENDS Naturals, UdpTransport

CONSTANTS
  Callers,    \* application threads
  Worker,     \* the receive worker thread
  Nobody,     \* the value of a free mutex
  MaxCalls    \* bound: API calls made in a behaviour

Threads == Callers \cup {Worker}

ASSUME ThreadsDistinct ==
  /\ Worker \notin Callers
  /\ Nobody \notin Threads

ASSUME MaxCallsNat == MaxCalls \in Nat

VARIABLES
  recovery_policy,       \* config_.recovery_policy, fixed at construction
  lifecycle_mutex_,      \* the thread holding it, or Nobody
  lifecycle_waiters,     \* threads blocked on lifecycle_cv_
  worker_,               \* worker_.joinable()
  active_worker_id_,     \* active_worker_id_ names the worker
  joining_,
  stopping_,
  worker_exited_,
  session_started_,
  faulted_,              \* fault_latch_ holds a code
  state_,                \* health_.state
  generation_,
  delivered_generation_,
  previous,              \* start()'s previous_* locals, for its rollback
  pc,                    \* pc[p]: position of thread p in an API call
  captured,              \* captured[p]: wait_for_first_sample's generation
  run_pc,                \* position of the worker in run()
  result,                \* SessionOutcome.result of the session, or "None"
  budget,                \* API calls still allowed (bounded by MaxCalls)
  runs,                  \* history: workers created
  delivered_run,         \* history: the run that delivered last
  quiesced,              \* history: the run an external stop() last ended
  owes_stop              \* history: StartRealtime sent, StopStreaming not tried

flagVars   == <<stopping_, worker_exited_>>
threadVars == <<worker_, active_worker_id_, joining_>>
lockVars   == <<lifecycle_mutex_, lifecycle_waiters>>
netVars    == <<transportVars, session_started_, owes_stop>>
genVars    == <<generation_, delivered_generation_>>
dataVars   == <<state_, faulted_, genVars>>
callVars   == <<pc, captured, previous, budget>>
runVars    == <<run_pc, result>>
history    == <<runs, delivered_run, quiesced>>

(* What most steps of an API call, and most steps of the worker, leave     *)
(* alone.  The worker takes lifecycle_mutex_ only through an API call and  *)
(* never touches stopping_.                                                *)
callFrame  == <<recovery_policy, captured, previous, budget, runVars, history>>
callerSide == <<recovery_policy, stopping_, threadVars, lifecycle_mutex_,
                callVars, runs, quiesced>>
runFrame   == <<callerSide, worker_exited_, delivered_run>>
joinFrame  == <<recovery_policy, captured, previous, budget, result, history,
                flagVars, threadVars, lockVars, netVars, dataVars>>
quietFrame == <<runFrame, lifecycle_waiters, netVars, dataVars>>

vars == <<recovery_policy, flagVars, threadVars, lockVars, netVars, dataVars,
          callVars, runVars, history>>

States == {"Stopped", "Connecting", "Streaming", "Backoff", "Faulted"}

StartHolding == {"start_check", "start_fault_eval", "start_fault_block",
                 "start_publish", "start_flags", "start_spawn",
                 "start_rollback", "start_relatch"}
FaultWait    == {"start_fault_eval", "start_fault_block", "start_fault_wait"}
Publishing   == {"start_flags", "start_spawn", "start_rollback", "start_relatch"}
StopHolding  == {"stop_command", "stop_decide"}
Joining      == {"start_join", "start_reap", "stop_join", "stop_finish"}
StartLabels  == StartHolding \cup {"start", "start_wait", "start_fault_wait",
                                   "start_join", "start_reap"}
StopLabels   == StopHolding \cup {"stop", "stop_wait", "stop_join",
                                  "stop_finish"}
CallLabels   == {"idle", "bias", "wait", "waiting"} \cup StartLabels \cup StopLabels

InSession == {"receive", "receive_enter", "poll", "record", "callback",
              "delivered", "close"}
RunLabels == InSession \cup
             {"none", "loop", "connecting", "discover", "connect", "command",
              "decide", "backoff", "caught", "finish", "exit_store",
              "exit_state", "exit_notify", "done"}

NoPrevious == [stopping |-> FALSE, worker_exited |-> TRUE, faulted |-> FALSE,
               state |-> "Stopped", generation |-> 0, delivered |-> 0]

Init ==
  /\ TransportInit /\ recovery_policy \in {"FailStop", "Reconnect"}
  /\ lifecycle_mutex_ = Nobody /\ lifecycle_waiters = {} /\ worker_ = FALSE
  /\ active_worker_id_ = FALSE /\ joining_ = FALSE /\ stopping_ = FALSE
  /\ worker_exited_ = TRUE /\ session_started_ = FALSE /\ faulted_ = FALSE
  /\ state_ = "Stopped" /\ generation_ = 0 /\ delivered_generation_ = 0
  /\ previous = NoPrevious
  /\ pc = [p \in Threads |-> "idle"]
  /\ captured = [p \in Threads |-> 0]
  /\ run_pc = "none" /\ result = "None" /\ budget = MaxCalls /\ runs = 0
  /\ delivered_run = 0 /\ quiesced = 0 /\ owes_stop = FALSE

-----------------------------------------------------------------------------
(* Building blocks                                                         *)

Goto(p, label) == pc' = [pc EXCEPT ![p] = label]

Acquire(p) ==
  /\ lifecycle_mutex_ = Nobody
  /\ lifecycle_mutex_' = p

Release == lifecycle_mutex_' = Nobody

(* Mutant: the notification is forgotten.                                  *)
NotifyLifecycleForgotten == UNCHANGED lifecycle_waiters

(* lifecycle_cv_.notify_all()                                              *)
NotifyLifecycle == lifecycle_waiters' = {}

(* condition_variable::wait: give up the mutex and block, in one step.     *)
Block(p) ==
  /\ Release
  /\ lifecycle_waiters' = lifecycle_waiters \cup {p}

(* Woken, and able to take the mutex back.                                 *)
Awake(p) == p \notin lifecycle_waiters /\ lifecycle_mutex_ = Nobody

(* Mutants: the thread id is not compared; the exit flag is inverted.      *)
CalledFromAnyThread(p) == active_worker_id_ /\ ~worker_exited_

CalledFromExitedWorker(p) == p = Worker /\ active_worker_id_ /\ worker_exited_

(* The test that a call runs on the live worker, i.e. inside a callback.   *)
CalledFromWorker(p) == p = Worker /\ active_worker_id_ /\ ~worker_exited_

(* if (session_started_) try { send(StopStreaming) } catch; = false.       *)
(* Whether the send succeeds makes no difference to the client.            *)
StopStreaming ==
  /\ session_started_' = FALSE
  /\ owes_stop' = (owes_stop /\ ~(session_started_ /\ socket_))

(* Mutant: a fault is overwritten.                                         *)
SetStopped == state_' = "Stopped"

SetStoppedUnlessFaulted == state_' = IF faulted_ THEN state_ ELSE "Stopped"

(* Mutant: the worker is taken without telling the other callers.          *)
TakeWorkerSilently == worker_' = FALSE /\ UNCHANGED joining_

(* joining_ = true; reaped = std::move(worker_).                           *)
TakeWorker == worker_' = FALSE /\ joining_' = TRUE

(* stop() returns to p: history only.                                      *)
StopReturned(p) == quiesced' = IF p = Worker THEN quiesced ELSE runs

-----------------------------------------------------------------------------
(* Entering the API.  The worker calls the client only from a callback.    *)

Begin(p, label) ==
  /\ pc[p] = "idle"
  /\ p = Worker => run_pc = "callback"
  /\ budget > 0
  /\ budget' = budget - 1
  /\ Goto(p, label)
  /\ UNCHANGED <<recovery_policy, flagVars, threadVars, lockVars, netVars, dataVars,
                 captured, previous, runVars, history>>

Call(p) == \E label \in {"start", "stop", "bias", "wait"} : Begin(p, label)

-----------------------------------------------------------------------------
(* start()                                                                 *)

(* Line 120: wait until nobody joins.                                      *)
AwaitNoJoin(p) ==
  \/ joining_ /\ Block(p) /\ Goto(p, "start_wait")
  \/ ~joining_ /\ Acquire(p) /\ Goto(p, "start_check") /\ UNCHANGED lifecycle_waiters

(* Lines 115-120: a call from the worker is refused.                       *)
StartEnter(p) ==
  /\ pc[p] = "start"
  /\ lifecycle_mutex_ = Nobody
  /\ \/ CalledFromWorker(p) /\ Goto(p, "idle") /\ UNCHANGED lockVars
     \/ ~CalledFromWorker(p) /\ AwaitNoJoin(p)
  /\ UNCHANGED <<callFrame, flagVars, threadVars, netVars, dataVars>>

StartWake(p) ==
  /\ pc[p] = "start_wait"
  /\ Awake(p)
  /\ AwaitNoJoin(p)
  /\ UNCHANGED <<callFrame, flagVars, threadVars, netVars, dataVars>>

(* Lines 121-136: a live worker refuses the call or is waited for, an      *)
(* exited one is taken over for joining, and without one the run begins.   *)
StartCheck(p) ==
  /\ pc[p] = "start_check"
  /\ \/ /\ worker_ /\ ~worker_exited_ /\ ~faulted_
        /\ Release
        /\ Goto(p, "idle")
        /\ UNCHANGED <<worker_, joining_>>
     \/ /\ worker_ /\ ~worker_exited_ /\ faulted_
        /\ Goto(p, "start_fault_eval")
        /\ UNCHANGED <<worker_, joining_, lifecycle_mutex_>>
     \/ /\ worker_ /\ worker_exited_
        /\ TakeWorker
        /\ Release
        /\ Goto(p, "start_join")
     \/ /\ ~worker_
        /\ Goto(p, "start_publish")
        /\ UNCHANGED <<worker_, joining_, lifecycle_mutex_>>
  /\ UNCHANGED <<callFrame, flagVars, active_worker_id_, lifecycle_waiters, netVars,
                 dataVars>>

(* Lines 126-129.  worker_exited_ is stored without lifecycle_mutex_, so   *)
(* evaluating the predicate and blocking are two steps.                    *)
StartFaultEval(p) ==
  /\ pc[p] = "start_fault_eval"
  /\ \/ /\ worker_exited_ \/ ~faulted_
        /\ Release
        /\ Goto(p, "start")
     \/ /\ ~worker_exited_ /\ faulted_
        /\ Goto(p, "start_fault_block")
        /\ UNCHANGED lifecycle_mutex_
  /\ UNCHANGED <<callFrame, flagVars, threadVars, lifecycle_waiters, netVars,
                 dataVars>>

StartFaultBlock(p) ==
  /\ pc[p] = "start_fault_block"
  /\ Block(p)
  /\ Goto(p, "start_fault_wait")
  /\ UNCHANGED <<callFrame, flagVars, threadVars, netVars, dataVars>>

StartFaultWake(p) ==
  /\ pc[p] = "start_fault_wait"
  /\ Awake(p)
  /\ Acquire(p)
  /\ Goto(p, "start_fault_eval")
  /\ UNCHANGED <<callFrame, flagVars, threadVars, lifecycle_waiters, netVars,
                 dataVars>>

Previous ==
  [stopping |-> stopping_, worker_exited |-> worker_exited_,
   faulted |-> faulted_, state |-> state_,
   generation |-> generation_, delivered |-> delivered_generation_]

(* Lines 134-177: remember the old run and publish the new one.            *)
StartPublish(p) ==
  /\ pc[p] = "start_publish"
  /\ previous' = Previous
  /\ faulted_' = FALSE
  /\ state_' = "Connecting"
  /\ generation_' = generation_ + 1
  /\ delivered_generation_' = 0
  /\ Goto(p, "start_flags")
  /\ UNCHANGED <<recovery_policy, flagVars, threadVars, lockVars, netVars,
                 captured, budget, runVars, history>>

(* Lines 178-180.                                                          *)
StartFlags(p) ==
  /\ pc[p] = "start_flags"
  /\ stopping_' = FALSE
  /\ worker_exited_' = FALSE
  /\ Goto(p, "start_spawn")
  /\ UNCHANGED <<callFrame, threadVars, lockVars, netVars, dataVars>>

(* Lines 182 and 211-214: the thread is created and start() returns.       *)
StartSpawn(p) ==
  /\ pc[p] = "start_spawn"
  /\ worker_' = TRUE
  /\ active_worker_id_' = TRUE
  /\ run_pc' = "loop"
  /\ runs' = runs + 1
  /\ previous' = NoPrevious
  /\ NotifyLifecycle
  /\ Release
  /\ Goto(p, "idle")
  /\ UNCHANGED <<recovery_policy, flagVars, joining_, netVars, dataVars, captured,
                 budget, result, delivered_run, quiesced>>

(* Lines 183-186: creating the thread threw; the atomics are restored.     *)
StartSpawnFails(p) ==
  /\ pc[p] = "start_spawn"
  /\ stopping_' = previous.stopping
  /\ worker_exited_' = previous.worker_exited
  /\ Goto(p, "start_rollback")
  /\ UNCHANGED <<callFrame, threadVars, lockVars, netVars, dataVars>>

(* Mutant: the generation is taken back once too often.                    *)
RestoreOlderGeneration == generation_' = previous.generation - 1

RestoreGeneration == generation_' = previous.generation

(* Lines 187-201: the data behind data_mutex_ is restored.                 *)
StartRollback(p) ==
  /\ pc[p] = "start_rollback"
  /\ state_' = previous.state
  /\ RestoreGeneration
  /\ delivered_generation_' = previous.delivered
  /\ Goto(p, "start_relatch")
  /\ UNCHANGED <<faulted_, callFrame, flagVars, threadVars, lockVars, netVars>>

(* Lines 202-210: the old fault is published again and start() rethrows.   *)
StartRelatch(p) ==
  /\ pc[p] = "start_relatch"
  /\ faulted_' = previous.faulted
  /\ state_' = IF previous.faulted THEN "Faulted" ELSE state_
  /\ previous' = NoPrevious
  /\ NotifyLifecycle
  /\ Release
  /\ Goto(p, "idle")
  /\ UNCHANGED <<genVars, recovery_policy, flagVars, threadVars, netVars,
                 captured, budget, runVars, history>>

(* Line 218: join returns once the worker's function has returned.         *)
StartJoin(p) ==
  /\ pc[p] = "start_join"
  /\ run_pc = "done"
  /\ run_pc' = "none"
  /\ Goto(p, "start_reap")
  /\ UNCHANGED joinFrame

(* Lines 219-225, then back to the top of the loop.                        *)
StartReap(p) ==
  /\ pc[p] = "start_reap"
  /\ lifecycle_mutex_ = Nobody
  /\ active_worker_id_' = FALSE
  /\ joining_' = FALSE
  /\ NotifyLifecycle
  /\ Goto(p, "start")
  /\ UNCHANGED <<callFrame, flagVars, worker_, lifecycle_mutex_, netVars, dataVars>>

-----------------------------------------------------------------------------
(* stop()                                                                  *)

(* Lines 239-242.                                                          *)
StopSignal(p) ==
  /\ pc[p] = "stop"
  /\ Acquire(p)
  /\ stopping_' = TRUE
  /\ NotifyLifecycle
  /\ Goto(p, "stop_command")
  /\ UNCHANGED <<callFrame, worker_exited_, threadVars, netVars, dataVars>>

(* Lines 243-254, under command_mutex_.                                    *)
StopCommand(p) ==
  /\ pc[p] = "stop_command"
  /\ StopStreaming
  /\ TransportShutdown
  /\ Goto(p, "stop_decide")
  /\ UNCHANGED <<callFrame, flagVars, threadVars, lockVars, dataVars>>

(* Lines 256-273: a callback returns at once, a second stopper waits, an   *)
(* idle client is marked stopped, and otherwise this thread will join.     *)
StopDecide(p) ==
  /\ pc[p] = "stop_decide"
  /\ \/ /\ CalledFromWorker(p)
        /\ Release
        /\ Goto(p, "idle")
        /\ StopReturned(p)
        /\ UNCHANGED <<lifecycle_waiters, worker_, joining_, state_>>
     \/ /\ ~CalledFromWorker(p) /\ joining_
        /\ Block(p)
        /\ Goto(p, "stop_wait")
        /\ UNCHANGED <<worker_, joining_, state_, quiesced>>
     \/ /\ ~CalledFromWorker(p) /\ ~joining_ /\ ~worker_
        /\ SetStoppedUnlessFaulted
        /\ StopReturned(p)
        /\ Release
        /\ Goto(p, "idle")
        /\ UNCHANGED <<lifecycle_waiters, worker_, joining_>>
     \/ /\ ~CalledFromWorker(p) /\ ~joining_ /\ worker_
        /\ TakeWorker
        /\ Release
        /\ Goto(p, "stop_join")
        /\ UNCHANGED <<lifecycle_waiters, state_, quiesced>>
  /\ UNCHANGED <<genVars, faulted_, recovery_policy, flagVars, active_worker_id_,
                 netVars, captured, previous, budget, runVars, runs, delivered_run>>

(* Lines 261-262: once the other join is over, start from the top again.   *)
StopWake(p) ==
  /\ pc[p] = "stop_wait"
  /\ Awake(p)
  /\ \/ joining_ /\ Block(p) /\ UNCHANGED pc
     \/ ~joining_ /\ Goto(p, "stop") /\ UNCHANGED lockVars
  /\ UNCHANGED <<callFrame, flagVars, threadVars, netVars, dataVars>>

(* Line 275.                                                               *)
StopJoin(p) ==
  /\ pc[p] = "stop_join"
  /\ run_pc = "done"
  /\ run_pc' = "none"
  /\ Goto(p, "stop_finish")
  /\ UNCHANGED joinFrame

(* Mutant: those who wait for the join are not told that it is over.       *)
StopFinishSilently(p) ==
  /\ pc[p] = "stop_finish"
  /\ lifecycle_mutex_ = Nobody
  /\ SetStoppedUnlessFaulted
  /\ active_worker_id_' = FALSE
  /\ joining_' = FALSE
  /\ StopReturned(p)
  /\ Goto(p, "idle")
  /\ UNCHANGED <<genVars, faulted_, recovery_policy, flagVars, worker_, lockVars,
                 netVars, captured, previous, budget, runVars, runs, delivered_run>>

(* Lines 276-287.                                                          *)
StopFinish(p) ==
  /\ pc[p] = "stop_finish"
  /\ lifecycle_mutex_ = Nobody
  /\ SetStoppedUnlessFaulted
  /\ active_worker_id_' = FALSE
  /\ joining_' = FALSE
  /\ StopReturned(p)
  /\ NotifyLifecycle
  /\ Goto(p, "idle")
  /\ UNCHANGED <<genVars, faulted_, recovery_policy, flagVars, worker_,
                 lifecycle_mutex_, netVars, captured, previous, budget, runVars,
                 runs, delivered_run>>

-----------------------------------------------------------------------------
(* bias() and wait_for_first_sample()                                      *)

(* Mutant: only the published health is looked at.                         *)
CanBiasByHealth == ~faulted_ /\ state_ = "Streaming"

CanBias == ~stopping_ /\ session_started_ /\ ~faulted_ /\ state_ = "Streaming"

(* Lines 291-303: throws, or sends SetSoftwareBias and StartRealtime while *)
(* command_mutex_ keeps stop() and close_session() out; either send may    *)
(* fail, and the second starts the stream again.                           *)
Bias(p) ==
  /\ pc[p] = "bias"
  /\ \/ UNCHANGED owes_stop
     \/ CanBias /\ CanSend(TRUE) /\ owes_stop' = TRUE
  /\ Goto(p, "idle")
  /\ UNCHANGED <<callFrame, flagVars, threadVars, lockVars, transportVars,
                 session_started_, dataVars>>

(* Lines 307-311.                                                          *)
WaitCapture(p) ==
  /\ pc[p] = "wait"
  /\ captured' = [captured EXCEPT ![p] = generation_]
  /\ Goto(p, IF generation_ = 0 THEN "idle" ELSE "waiting")
  /\ UNCHANGED <<recovery_policy, flagVars, threadVars, lockVars, netVars, dataVars,
                 previous, budget, runVars, history>>

(* Mutant: a run that delivered nothing counts too.                        *)
RunUnchanged(p) == generation_ = captured[p]

(* Lines 321-324.                                                          *)
FirstSampleArrived(p) ==
  generation_ = captured[p] /\ delivered_generation_ = captured[p]

(* Lines 312-324: the wait is timed, so it can end in any state; the       *)
(* answer is computed under data_mutex_ afterwards.                        *)
WaitReturn(p, value) ==
  /\ pc[p] = "waiting"
  /\ value = FirstSampleArrived(p)
  /\ captured' = [captured EXCEPT ![p] = 0]
  /\ Goto(p, "idle")
  /\ UNCHANGED <<recovery_policy, flagVars, threadVars, lockVars, netVars, dataVars,
                 previous, budget, runVars, history>>

(* A condition variable may wake a waiter for no reason.                   *)
SpuriousWake(p) ==
  /\ p \in lifecycle_waiters
  /\ lifecycle_waiters' = lifecycle_waiters \ {p}
  /\ UNCHANGED <<recovery_policy, flagVars, threadVars, lifecycle_mutex_, netVars,
                 dataVars, callVars, runVars, history>>

-----------------------------------------------------------------------------
(* run(), on the worker thread                                             *)

(* `stopping_ ? Stopped : <failure>`                                       *)
Outcome == IF stopping_ THEN "Stopped" ELSE "Failed"

EndSession(outcome) ==
  /\ run_pc' = "close"
  /\ result' = outcome

(* Line 385.                                                               *)
RunLoop ==
  /\ run_pc = "loop"
  /\ run_pc' = IF ~stopping_ /\ ~faulted_ THEN "connecting" ELSE "finish"
  /\ result' = "None"
  /\ UNCHANGED quietFrame

(* Lines 432-438.                                                          *)
Connecting ==
  /\ run_pc = "connecting"
  /\ state_' = "Connecting"
  /\ \/ stopping_ /\ EndSession("Stopped")
     \/ ~stopping_ /\ run_pc' = "discover" /\ UNCHANGED result
  /\ UNCHANGED <<genVars, faulted_, runFrame, lifecycle_waiters, netVars>>

(* Lines 440-448: configuration discovery takes long and holds no lock; it *)
(* succeeds, reports a DiscoveryError, or throws something else.           *)
Discover ==
  /\ run_pc = "discover"
  /\ \/ stopping_ /\ EndSession("Stopped")
     \/ ~stopping_ /\ run_pc' = "connect" /\ UNCHANGED result
     \/ EndSession(Outcome)
     \/ run_pc' = "caught" /\ UNCHANGED result
  /\ UNCHANGED quietFrame

(* Line 451, with the exception of line 458.                               *)
Connect ==
  /\ run_pc = "connect"
  /\ \/ TransportConnect /\ run_pc' = "command" /\ UNCHANGED result
     \/ EndSession(Outcome) /\ UNCHANGED transportVars
  /\ UNCHANGED <<runFrame, lifecycle_waiters, session_started_, owes_stop,
                 dataVars>>

(* Lines 452-457, under command_mutex_: stop() may have come in between    *)
(* and its shutdown() been undone by connect(), so stopping_ is read again.*)
(* Computing the first deadline (line 469) throws at the clock's end.      *)
StartRealtime ==
  /\ run_pc = "command"
  /\ \/ /\ stopping_
        /\ EndSession("Stopped")
        /\ UNCHANGED <<session_started_, owes_stop>>
     \/ /\ ~stopping_
        /\ CanSend(TRUE)
        /\ session_started_' = TRUE
        /\ owes_stop' = TRUE
        /\ run_pc' \in {"receive", "caught"}
        /\ UNCHANGED result
     \/ /\ ~stopping_
        /\ EndSession(Outcome)
        /\ UNCHANGED <<session_started_, owes_stop>>
  /\ UNCHANGED <<runFrame, lifecycle_waiters, transportVars, dataVars>>

(* Lines 471-480: loop head and deadline.                                  *)
ReceiveLoop ==
  /\ run_pc = "receive"
  /\ \/ EndSession(Outcome)
     \/ ~stopping_ /\ run_pc' = "receive_enter" /\ UNCHANGED result
  /\ UNCHANGED quietFrame

(* transport_.receive() up to its poll.                                    *)
ReceiveEnter ==
  /\ run_pc = "receive_enter"
  /\ \/ ReceiveEntry = "poll" /\ run_pc' = "poll" /\ UNCHANGED result
     \/ ReceiveEntry # "poll" /\ EndSession(Outcome)
  /\ UNCHANGED quietFrame

(* The poll ends; lines 485-524 up to handle_record.  A malformed datagram *)
(* is counted and either tolerated or ends the session as a storm.         *)
Receive ==
  /\ run_pc = "poll"
  /\ \/ ReceiveResults \cap {"empty", "throw"} # {} /\ EndSession(Outcome)
     \/ /\ "datagram" \in ReceiveResults
        /\ ~stopping_
        /\ \/ run_pc' \in {"record", "receive"} /\ UNCHANGED result
           \/ EndSession("Failed")
  /\ UNCHANGED quietFrame

(* handle_record, lines 530-647: classify under record_mutex_ and          *)
(* data_mutex_.  The record is delivered or not, and asks to end the       *)
(* session or not; without a delivery that request takes effect at once.   *)
(* Anything unexpected it throws ends up in run()'s handlers.              *)
HandleRecord ==
  /\ run_pc = "record"
  /\ \/ /\ state_' = "Streaming"
        /\ \/ run_pc' = "callback" /\ result' \in {"None", "Failed"}
           \/ run_pc' = "receive" /\ UNCHANGED result
           \/ EndSession("Failed")
     \/ /\ state_' \in {state_, "Streaming"}
        /\ run_pc' = "caught"
        /\ UNCHANGED result
  /\ UNCHANGED <<genVars, faulted_, runFrame, lifecycle_waiters, netVars>>

(* Lines 656-660: the callback returns, having finished its own API calls. *)
CallbackReturns ==
  /\ run_pc = "callback"
  /\ pc[Worker] = "idle"
  /\ run_pc' = "delivered"
  /\ UNCHANGED <<quietFrame, result>>

(* Lines 661-667 and 649-654: it throws instead.                           *)
CallbackThrows ==
  /\ run_pc = "callback"
  /\ pc[Worker] = "idle"
  /\ \/ /\ result = "Failed" \/ recovery_policy = "FailStop"
        /\ EndSession("Failed")
     \/ /\ result = "None" /\ recovery_policy = "Reconnect"
        /\ run_pc' = "receive"
        /\ UNCHANGED result
  /\ UNCHANGED quietFrame

(* Lines 669-682: the delivery is recorded for the current generation.     *)
Delivered ==
  /\ run_pc = "delivered"
  /\ delivered_generation_' = generation_
  /\ delivered_run' = runs
  /\ NotifyLifecycle
  /\ run_pc' = IF result = "Failed" THEN "close" ELSE "receive"
  /\ UNCHANGED <<faulted_, callerSide, result, worker_exited_, netVars, state_,
                 generation_>>

(* Mutant: the device is not told to stop streaming.                       *)
CloseSessionSilently ==
  /\ session_started_' = FALSE
  /\ UNCHANGED owes_stop
  /\ TransportClose

(* close_session(), lines 710-721, as called from line 387.                *)
CloseSession ==
  /\ StopStreaming
  /\ TransportClose

Close ==
  /\ run_pc = "close"
  /\ CloseSession
  /\ run_pc' = "decide"
  /\ UNCHANGED <<runFrame, result, lifecycle_waiters, dataVars>>

(* FaultLatch::publish(): under data_mutex_, and only if none is latched.  *)
PublishFault ==
  /\ faulted_' = TRUE
  /\ state_' = IF faulted_ THEN state_ ELSE "Faulted"

(* Mutant: the run ends without publishing its fault.                      *)
SetFaultSilently ==
  /\ UNCHANGED <<faulted_, state_>>
  /\ NotifyLifecycle
  /\ run_pc' = "finish"

(* set_fault(): publish, then notify.                                      *)
SetFault ==
  /\ PublishFault
  /\ NotifyLifecycle
  /\ run_pc' = "finish"

(* Lines 389-409: fail-stop latches the fault, even after a stop(); any    *)
(* other failure of a session still wanted is retried after a backoff.     *)
Decide ==
  /\ run_pc = "decide"
  /\ \/ result = "Failed" /\ recovery_policy = "FailStop" /\ SetFault
     \/ /\ result = "Stopped" \/ (recovery_policy = "Reconnect" /\ stopping_)
        /\ run_pc' = "finish"
        /\ UNCHANGED <<faulted_, state_, lifecycle_waiters>>
     \/ /\ result = "Failed" /\ recovery_policy = "Reconnect" /\ ~stopping_
        /\ state_' = "Backoff"
        /\ run_pc' = "backoff"
        /\ UNCHANGED <<faulted_, lifecycle_waiters>>
  /\ UNCHANGED <<genVars, runFrame, result, netVars>>

(* Lines 411-416: a timed wait on first_sample_cv_.                        *)
Backoff ==
  /\ run_pc = "backoff"
  /\ run_pc' = "loop"
  /\ UNCHANGED <<quietFrame, result>>

(* Lines 418-426.                                                          *)
Caught ==
  /\ run_pc = "caught"
  /\ \/ /\ stopping_
        /\ run_pc' = "finish"
        /\ UNCHANGED <<faulted_, state_, lifecycle_waiters>>
     \/ ~stopping_ /\ SetFault
  /\ UNCHANGED <<genVars, runFrame, result, netVars>>

(* finish_session(), lines 723-736: close, store worker_exited_, set the   *)
(* state, notify.  None of it holds lifecycle_mutex_.                      *)
FinishClose ==
  /\ run_pc = "finish"
  /\ CloseSession
  /\ run_pc' = "exit_store"
  /\ UNCHANGED <<runFrame, result, lifecycle_waiters, dataVars>>

FinishStore ==
  /\ run_pc = "exit_store"
  /\ worker_exited_' = TRUE
  /\ run_pc' = "exit_state"
  /\ UNCHANGED <<callerSide, result, lifecycle_waiters, netVars, dataVars,
                 delivered_run>>

FinishState ==
  /\ run_pc = "exit_state"
  /\ SetStoppedUnlessFaulted
  /\ run_pc' = "exit_notify"
  /\ UNCHANGED <<genVars, faulted_, runFrame, result, lifecycle_waiters, netVars>>

FinishNotify ==
  /\ run_pc = "exit_notify"
  /\ NotifyLifecycle
  /\ run_pc' = "done"
  /\ result' = "None"
  /\ UNCHANGED <<runFrame, netVars, dataVars>>

-----------------------------------------------------------------------------
StartStep(p) ==
  \/ StartEnter(p) \/ StartWake(p) \/ StartCheck(p)
  \/ StartFaultEval(p) \/ StartFaultBlock(p) \/ StartFaultWake(p)
  \/ StartPublish(p) \/ StartFlags(p) \/ StartSpawn(p)
  \/ StartSpawnFails(p) \/ StartRollback(p) \/ StartRelatch(p)
  \/ StartJoin(p) \/ StartReap(p)

StopStep(p) ==
  \/ StopSignal(p) \/ StopCommand(p) \/ StopDecide(p) \/ StopWake(p)
  \/ StopJoin(p) \/ StopFinish(p)

QueryStep(p) ==
  Bias(p) \/ WaitCapture(p) \/ \E value \in BOOLEAN : WaitReturn(p, value)

CallStep(p) == StartStep(p) \/ StopStep(p) \/ QueryStep(p)

RunStep ==
  \/ RunLoop \/ Connecting \/ Discover \/ Connect \/ StartRealtime
  \/ ReceiveLoop \/ ReceiveEnter \/ Receive \/ HandleRecord
  \/ CallbackReturns \/ CallbackThrows \/ Delivered
  \/ Close \/ Decide \/ Backoff \/ Caught
  \/ FinishClose \/ FinishStore \/ FinishState \/ FinishNotify

Next ==
  \/ \E p \in Threads : Call(p) \/ CallStep(p) \/ SpuriousWake(p)
  \/ RunStep

Spec == Init /\ [][Next]_vars

(* The scheduler runs every thread, every timed or interrupted wait ends,  *)
(* discovery is bounded by its HTTP timeouts, and a callback returns.      *)
(* Whether the application makes a call, or a waiter wakes spuriously, is  *)
(* not up to the client.                                                   *)
Fairness ==
  /\ WF_vars(RunStep)
  /\ \A p \in Threads : WF_vars(CallStep(p))

FairSpec == Spec /\ Fairness

-----------------------------------------------------------------------------
(* The contract of CoreContract, read off the client: a run is live until  *)
(* run() leaves its loop, and a fault that a start() has cleared but may   *)
(* yet put back is still the latest run's.                                 *)

Live == run_pc \notin {"none", "finish", "exit_store", "exit_state",
                       "exit_notify", "done"}

Contract == INSTANCE CoreContract WITH
  live <- Live,
  faulted <- faulted_ \/ previous.faulted,
  stopping <- Live /\ stopping_,
  run <- runs,
  delivered <- delivered_run

-----------------------------------------------------------------------------
(* Properties                                                              *)

(* Every variable of Client::Impl keeps its type.                          *)
TypeOK ==
  /\ socket_ \in BOOLEAN /\ shutdown_requested_ \in BOOLEAN
  /\ recovery_policy \in {"FailStop", "Reconnect"}
  /\ lifecycle_mutex_ \in Threads \cup {Nobody}
  /\ lifecycle_waiters \subseteq Threads /\ worker_ \in BOOLEAN
  /\ active_worker_id_ \in BOOLEAN /\ joining_ \in BOOLEAN
  /\ stopping_ \in BOOLEAN /\ worker_exited_ \in BOOLEAN
  /\ session_started_ \in BOOLEAN /\ faulted_ \in BOOLEAN
  /\ state_ \in States /\ generation_ \in Nat
  /\ delivered_generation_ \in Nat
  /\ previous \in [stopping : BOOLEAN, worker_exited : BOOLEAN,
                   faulted : BOOLEAN, state : States, generation : Nat,
                   delivered : Nat]
  /\ pc \in [Threads -> CallLabels]
  /\ captured \in [Threads -> Nat]
  /\ run_pc \in RunLabels /\ result \in {"None", "Stopped", "Failed"}
  /\ budget \in Nat /\ runs \in Nat /\ delivered_run \in Nat
  /\ quiesced \in Nat /\ owes_stop \in BOOLEAN

(* However start() and stop() calls interleave, a worker thread has one    *)
(* owner: the member worker_, or the single call that is joining it        *)
(* (joining_, lines 131, 271).  So no std::thread is joined twice,         *)
(* overwritten while joinable (which would terminate the process), or      *)
(* forgotten.                                                              *)
OneOwner ==
  /\ \A p, q \in Threads : pc[p] \in Joining /\ pc[q] \in Joining => p = q
  /\ joining_ <=> \E p \in Threads : pc[p] \in Joining
  /\ ~(worker_ /\ joining_)
  /\ run_pc # "none" <=>
       worker_ \/ \E p \in Threads : pc[p] \in {"start_join", "stop_join"}

(* Once an external stop() has returned, no worker of the stopped run is   *)
(* alive, so no callback of that run can still be running or come later    *)
(* (the join of line 275 and the retry of line 262).                       *)
StopIsSynchronous == runs > 0 /\ quiesced = runs => run_pc = "none"

(* When stop() has sent its commands, the stream it interrupted has been   *)
(* told to stop and no racing connect, bias() or reconnect starts another: *)
(* the checks of stopping_ under command_mutex_ (lines 296, 453) close the *)
(* window in which connect() undoes the shutdown.                          *)
NoStreamAfterStop ==
  stopping_ /\ (\A p \in Threads : pc[p] # "stop_command")
    => ~session_started_ /\ ~owes_stop

(* stop() never has to sit out a receive timeout: a worker that polls      *)
(* while it is being stopped polls a socket that has been shut down.       *)
PromptStop ==
  stopping_ /\ run_pc = "poll" /\ (\A p \in Threads : pc[p] # "stop_command")
    => shutdown_requested_

(* A worker that is gone left nothing behind: the socket is closed, and    *)
(* every stream it started was sent a StopStreaming before that, on every  *)
(* error path (close_session, line 710).                                   *)
QuietAfterExit ==
  run_pc \in {"none", "exit_store", "exit_state", "exit_notify", "done"}
    => ~socket_ /\ ~session_started_ /\ ~owes_stop

(* health() never shows a fault without a code or a code without a fault:  *)
(* the state and the latch change together under data_mutex_.  The one     *)
(* exception is the rollback of a start() that could not create a thread,  *)
(* which restores the state before it publishes the old fault again        *)
(* (lines 193 and 204).                                                    *)
HealthCoherent ==
  \/ \E p \in Threads : pc[p] = "start_relatch"
  \/ state_ = "Faulted" <=> faulted_

(* wait_for_first_sample() answers TRUE only when the run that is current  *)
(* at that moment has delivered a sample: never for a sample of an earlier *)
(* run, however often the client was restarted while it waited.            *)
WaitTruthful ==
  [][\A p \in Threads : WaitReturn(p, TRUE) => delivered_run = runs]_vars

(* The client implements the contract its users rely on: runs do not       *)
(* overlap, a run ends only when stopped or with its fault latched in the  *)
(* same step, delivers only while it is live, and its fault is given up    *)
(* only when another run begins, never by a start() that fails.            *)
ImplementsContract == Contract!ContractSpec

(* Every stop() returns, whoever else is starting, stopping or waiting.    *)
StopReturns ==
  \A p \in Threads : pc[p] = "stop" ~> pc[p] = "idle"

(* Every start() returns, unless it waits for a faulted worker that has    *)
(* exited already (line 126; worker_exited_ is stored and notified without *)
(* lifecycle_mutex_, so that wait can miss its only notification).         *)
StartReturns ==
  \A p \in Threads :
    pc[p] = "start" ~> \/ pc[p] = "idle"
                       \/ pc[p] = "start_fault_wait" /\ worker_exited_

(* A start() that waits for a faulted worker returns when a stop() is      *)
(* under way, even if it has missed the worker's notification: whoever     *)
(* joins the worker notifies last (line 285).  Only a new run that another *)
(* start() begins first can make it wait again.                            *)
StopReleasesStart ==
  \A p \in Callers, n \in 1 .. MaxCalls :
    /\ pc[p] \in FaultWait /\ runs = n
    /\ \E q \in Callers : pc[q] \in StopLabels
    ~> pc[p] = "idle" \/ runs # n

(* A stop() requested in a callback, where it cannot join, still ends the  *)
(* run.                                                                    *)
SelfStopEnds ==
  pc[Worker] = "stop" ~> run_pc \in {"done", "none"}
=============================================================================
