------------------------------ MODULE NativeUse ------------------------------
(***************************************************************************)
(* The native binding used directly, from any thread and in any order:     *)
(* start() and stop() take lifecycle_mutex_, read() and                    *)
(* wait_for_first_sample() take no lock and tell a restart only by the     *)
(* generation of the queue.                                                *)
(***************************************************************************)
EXTENDS NativeClient

CONSTANTS
  None,
  MaxCalls     \* bound: calls made

ASSUME UseBounds == MaxCalls \in Nat /\ None \notin Threads

VARIABLES
  lifecycle_mutex_,  \* the thread that holds it, or None
  waited,            \* waited[t]: the core run the core's wait captured
  received_sample,   \* received_sample[t]: what the core's wait returned
  calls,             \* calls made so far
  spawned_at         \* history: the queue's generation when the run began

waitVars == <<waited, received_sample>>
useVars  == <<nativeVars, result, pc, lifecycle_mutex_, waitVars, calls, spawned_at>>

UseInit ==
  /\ NativeInit
  /\ pc = [t \in Threads |-> "idle"]
  /\ lifecycle_mutex_ = None
  /\ waited = [t \in Threads |-> 0]
  /\ received_sample = [t \in Threads |-> FALSE]
  /\ calls = 0
  /\ spawned_at = 0

Call(t) ==
  /\ pc[t] = "idle" /\ calls < MaxCalls
  /\ calls' = calls + 1
  /\ \E label \in {"lock_start", "lock_stop", "read", "wait"} : Goto(t, label)
  /\ UNCHANGED <<nativeVars, result, lifecycle_mutex_, waitVars, spawned_at>>

-----------------------------------------------------------------------------
(* lifecycle_mutex_ and the calls that hold it                             *)

(* Lines 37 and 56.                                                        *)
Lock(t) ==
  /\ lifecycle_mutex_ = None
  /\ \/ pc[t] = "lock_start" /\ Goto(t, "native_start")
     \/ pc[t] = "lock_stop" /\ Goto(t, "native_stop")
  /\ lifecycle_mutex_' = t
  /\ UNCHANGED <<nativeVars, result, waitVars, calls, spawned_at>>

(* The guard's destructor, on return and on throw.                         *)
Unlock(t) ==
  /\ pc[t] \in {"start_commit", "start_failed", "stop_unlock"}
  /\ lifecycle_mutex_' = None
  /\ Goto(t, "idle")
  /\ UNCHANGED <<nativeVars, result, waitVars, calls, spawned_at>>

Native(t) ==
  /\ NativeStep(t) \/ NativeStopCore(t, "stop_unlock")
  /\ spawned_at' = IF core_run' # core_run THEN close_generation_ ELSE spawned_at
  /\ UNCHANGED <<lifecycle_mutex_, waitVars, calls>>

ReadDone(t) ==
  /\ pc[t] = "read_done"
  /\ result' = [result EXCEPT ![t] = NoResult]
  /\ Goto(t, "idle")
  /\ UNCHANGED <<nativeVars, lifecycle_mutex_, waitVars, calls, spawned_at>>

-----------------------------------------------------------------------------
(* wait_for_first_sample()                                                 *)

WaitFrame == UNCHANGED <<queueVars, running_, coreVars, result, lifecycle_mutex_,
                         calls, spawned_at>>

WaitReturns(t, value) ==
  /\ generation' = [generation EXCEPT ![t] = 0]
  /\ waited' = [waited EXCEPT ![t] = 0]
  /\ received_sample' = [received_sample EXCEPT ![t] = FALSE]
  /\ Goto(t, "idle")

(* Line 111.                                                               *)
Wait(t) ==
  /\ pc[t] = "wait"
  /\ generation' = [generation EXCEPT ![t] = close_generation_]
  /\ Goto(t, "wait_check")
  /\ UNCHANGED waitVars
  /\ WaitFrame

(* Lines 115-118.  The three loads are one step: what changes between them *)
(* closes the queue, which the check after the wait still sees.            *)
WaitCheck(t) ==
  /\ pc[t] = "wait_check"
  /\ IF Unreadable \/ close_generation_ # generation[t]
     THEN WaitReturns(t, FALSE)
     ELSE Goto(t, "wait_core") /\ UNCHANGED <<generation, waitVars>>
  /\ WaitFrame

(* Line 126, entering the core's wait: the core captures its own run.      *)
WaitCore(t) ==
  /\ pc[t] = "wait_core"
  /\ waited' = [waited EXCEPT ![t] = core_run]
  /\ Goto(t, "wait_slice")
  /\ UNCHANGED <<generation, received_sample>>
  /\ WaitFrame

(* Line 126, its return, with the first sample or after the slice.         *)
WaitSlice(t) ==
  /\ pc[t] = "wait_slice"
  /\ received_sample' =
       [received_sample EXCEPT ![t] = waited[t] = core_run /\ core_delivered = core_run]
  /\ Goto(t, "wait_recheck")
  /\ UNCHANGED <<generation, waited>>
  /\ WaitFrame

(* Mutant: the answer of the core is taken as it is.                       *)
AnswersUnchecked(t) == received_sample[t]

(* Lines 130-134.                                                          *)
Answers(t) == close_generation_ = generation[t] /\ received_sample[t]

WaitAnswers(t) ==
  /\ pc[t] = "wait_recheck" /\ Answers(t)
  /\ WaitReturns(t, TRUE)
  /\ WaitFrame

(* Lines 130-138: the run is over, or the time is.                         *)
WaitGivesUp(t) ==
  /\ pc[t] = "wait_recheck"
  /\ close_generation_ # generation[t] \/ ~received_sample[t]
  /\ WaitReturns(t, FALSE)
  /\ WaitFrame

(* Lines 130-140: nothing yet, and time left.                              *)
WaitAgain(t) ==
  /\ pc[t] = "wait_recheck"
  /\ close_generation_ = generation[t] /\ ~received_sample[t]
  /\ Goto(t, "wait_check")
  /\ UNCHANGED <<generation, waitVars>>
  /\ WaitFrame

WaitStep(t) ==
  \/ Wait(t) \/ WaitCheck(t) \/ WaitCore(t) \/ WaitSlice(t)
  \/ WaitAnswers(t) \/ WaitGivesUp(t) \/ WaitAgain(t)

-----------------------------------------------------------------------------
CoreStep == (CorePush \/ CoreFault)
            /\ UNCHANGED <<lifecycle_mutex_, waitVars, calls, spawned_at>>

UseStep(t) == Unlock(t) \/ Native(t) \/ ReadDone(t) \/ WaitStep(t)

UseNext == CoreStep \/ \E t \in Threads : Call(t) \/ Lock(t) \/ UseStep(t)

UseSpec == UseInit /\ [][UseNext]_useVars

(* A thread in a native call keeps running; the sensor owes nothing.       *)
UseFairSpec == UseSpec /\ \A t \in Threads : WF_useVars(UseStep(t))

-----------------------------------------------------------------------------
(* Properties                                                              *)

ReadLabels == {"read_guard", "read_wait", "read_again"}
WaitLabels == {"wait_check", "wait_core", "wait_slice", "wait_recheck"}

(* wait_for_first_sample() answers true only for the run that the queue    *)
(* was opened for when the call began, and only if that run delivered: not *)
(* for one that stop() and start() put in its place during the wait.       *)
WaitAnswersForOwnRun ==
  [][\A t \in Threads :
       WaitAnswers(t) => spawned_at = generation[t] /\ core_delivered = core_run]_useVars

(* read() returns only samples of the run that was current when it was     *)
(* called, though it takes no lock and start() may replace the run.        *)
ReadsOwnRun ==
  [][\A t \in Threads :
       result'[t].status = "Sample" /\ result[t] = NoResult =>
         result'[t].sample = core_run /\ spawned_at = generation[t]]_useVars

(* start() and stop() work on the core one at a time: between taking the   *)
(* lock and returning, no other thread is between the same two points.     *)
LifecycleExclusive ==
  \A t, u \in Threads :
    t # u /\ lifecycle_mutex_ = t =>
      pc[u] \in {"idle", "lock_start", "lock_stop", "read", "read_done", "wait"}
                \cup ReadLabels \cup WaitLabels

(* Readers that see running_ set reach a run: the queue is open and the    *)
(* core has been started and not been stopped.                             *)
RunningIsOpen == running_ => ~closed_ /\ core_live

(* stop() and a restart release every reader and waiter of the old run,    *)
(* without help from their timeouts.                                       *)
CloseReleases ==
  \A t \in Threads :
    pc[t] \in ReadLabels \cup WaitLabels /\ generation[t] # close_generation_
      ~> pc[t] \in {"idle", "read_done"}

=============================================================================
