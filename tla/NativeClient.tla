----------------------------- MODULE NativeClient -----------------------------
(***************************************************************************)
(* The native binding (bindings/python/native_client.cpp) over the sample  *)
(* queue and the core client: start(), stop() and read() as threads call   *)
(* them.  They release the GIL, so their steps interleave; NativeUse adds  *)
(* lifecycle_mutex_ and wait_for_first_sample(), PyClient the Python lock  *)
(* in its place.  pc[t] is the position of thread t, in this module inside *)
(* a native call.                                                          *)
(*                                                                         *)
(* The core client is reduced to CoreContract, which ClientLifecycle       *)
(* implements; UsesContract is the other half of that argument.            *)
(***************************************************************************)
EXTENDS SampleQueue

CONSTANTS
  Apps,        \* application threads
  MaxRuns,     \* bound: callback runs created (dispatchers are 1 .. MaxRuns)
  MaxSamples   \* bound: samples produced

ASSUME NativeBounds == MaxRuns \in Nat /\ MaxSamples \in Nat

Dispatchers == 1 .. MaxRuns
Threads == Apps \cup Dispatchers

VARIABLES
  running_,
  core_live,      \* the core's worker may still push
  core_faulted,   \* the core's fault latch
  core_run,       \* runs the core has begun
  core_delivered, \* the run that delivered last
  produced,       \* samples pushed so far
  generation,     \* generation[t]: the queue generation read() captured
  result,         \* result[t]: what read() returned
  pc

coreVars   == <<core_live, core_faulted, core_run, core_delivered, produced>>
nativeVars == <<queueVars, running_, coreVars, generation>>

(* A sample is the number of the core run that produced it.                *)
NoSample == 0
NoResult == [status |-> "none", sample |-> NoSample]

NativeInit ==
  /\ QueueInit
  /\ running_ = FALSE
  /\ core_live = FALSE /\ core_faulted = FALSE /\ core_run = 0
  /\ core_delivered = 0 /\ produced = 0
  /\ generation = [t \in Threads |-> 0]
  /\ result = [t \in Threads |-> NoResult]

Goto(t, label) == pc' = [pc EXCEPT ![t] = label]

-----------------------------------------------------------------------------
(* The core client's worker                                                *)

CorePush ==
  /\ core_live /\ ~core_faulted
  /\ produced < MaxSamples
  /\ produced' = produced + 1
  /\ Push(core_run)
  /\ core_delivered' = core_run
  /\ UNCHANGED <<running_, core_live, core_faulted, core_run, generation, result, pc>>

CoreFault ==
  /\ core_live /\ ~core_faulted
  /\ core_faulted' = TRUE
  /\ UNCHANGED <<queueVars, running_, core_live, core_run, core_delivered, produced,
                 generation, result, pc>>

-----------------------------------------------------------------------------
(* start()                                                                 *)

(* Mutant: a run that is still healthy is started over.                    *)
NativeStartAgain(t) ==
  /\ pc[t] = "native_start"
  /\ Goto(t, "native_reset") /\ CloseQueue /\ running_' = FALSE
  /\ UNCHANGED <<coreVars, generation, result>>

(* Lines 37-43: a run that is still healthy is left alone.                 *)
NativeStart(t) ==
  /\ pc[t] = "native_start"
  /\ IF running_ /\ ~core_faulted
     THEN Goto(t, "start_commit") /\ UNCHANGED <<queueVars, running_>>
     ELSE Goto(t, "native_reset") /\ CloseQueue /\ running_' = FALSE
  /\ UNCHANGED <<coreVars, generation, result>>

(* Line 44.                                                                *)
NativeReset(t) ==
  /\ pc[t] = "native_reset"
  /\ ResetQueue
  /\ Goto(t, "native_spawn")
  /\ UNCHANGED <<running_, coreVars, generation, result>>

(* Line 46: the core's start() clears the latch and creates the worker.    *)
NativeSpawn(t) ==
  /\ pc[t] = "native_spawn"
  /\ core_live' = TRUE
  /\ core_faulted' = FALSE
  /\ core_run' = core_run + 1
  /\ Goto(t, "native_running")
  /\ UNCHANGED <<queueVars, running_, core_delivered, produced, generation, result>>

(* Lines 48-52: it throws, having rolled itself back.                      *)
NativeSpawnFails(t) ==
  /\ pc[t] = "native_spawn"
  /\ running_' = FALSE
  /\ CloseQueue
  /\ Goto(t, "start_failed")
  /\ UNCHANGED <<coreVars, generation, result>>

(* Line 47: only now do readers see the run.                               *)
NativeRunning(t) ==
  /\ pc[t] = "native_running"
  /\ running_' = TRUE
  /\ Goto(t, "start_commit")
  /\ UNCHANGED <<queueVars, coreVars, generation, result>>

-----------------------------------------------------------------------------
(* stop()                                                                  *)

(* Lines 56-58: readers are turned away before the core is stopped.        *)
NativeStop(t) ==
  /\ pc[t] = "native_stop"
  /\ running_' = FALSE
  /\ CloseQueue
  /\ Goto(t, "native_stop_core")
  /\ UNCHANGED <<coreVars, generation, result>>

(* Mutant: the core is left running.                                       *)
CoreKeepsRunning == UNCHANGED core_live

CoreStops == core_live' = FALSE

(* Line 62: the core's stop() joins the worker; then on to label.          *)
NativeStopCore(t, label) ==
  /\ pc[t] = "native_stop_core"
  /\ CoreStops
  /\ Goto(t, label)
  /\ UNCHANGED <<queueVars, running_, core_faulted, core_run, core_delivered, produced,
                 generation, result>>

-----------------------------------------------------------------------------
(* read()                                                                  *)

(* Mutant: a fault is not looked for.                                      *)
NotRunning == ~running_

(* Lines 151-159 and 177-185.  The two loads are one step: between them a  *)
(* restart could only be missed by a read whose generation is then old.    *)
Unreadable == ~running_ \/ core_faulted

(* Its locals go out of scope.                                             *)
ReadReturns(t, status, sample) ==
  /\ generation' = [generation EXCEPT ![t] = 0]
  /\ result' = [result EXCEPT ![t] = [status |-> status, sample |-> sample]]
  /\ Goto(t, "read_done")

(* Line 147.                                                               *)
Read(t) ==
  /\ pc[t] = "read"
  /\ generation' = [generation EXCEPT ![t] = close_generation_]
  /\ Goto(t, "read_guard")
  /\ UNCHANGED <<queueVars, running_, coreVars, result>>

ReadGuard(t) ==
  /\ pc[t] = "read_guard"
  /\ \/ Unreadable /\ ReadReturns(t, "Closed", NoSample)
     \/ ~Unreadable /\ Goto(t, "read_wait") /\ UNCHANGED <<generation, result>>
  /\ UNCHANGED <<queueVars, running_, coreVars>>

(* Lines 170-173: one slice of waiting on the queue.                       *)
ReadWait(t) ==
  /\ pc[t] = "read_wait"
  /\ \/ /\ samples_ # <<>>
        /\ ReadSample(generation[t], Head(samples_))
        /\ ReadReturns(t, "Sample", Head(samples_))
     \/ ReadClosed(generation[t]) /\ ReadReturns(t, "Closed", NoSample)
     \/ /\ ReadTimeout(generation[t])
        /\ Goto(t, "read_again")
        /\ UNCHANGED <<generation, result>>
  /\ UNCHANGED <<running_, coreVars>>

(* Lines 177-190: give up, time out (the dispatcher, reading with None,    *)
(* never does), or wait another slice with the generation captured first.  *)
ReadAgain(t) ==
  /\ pc[t] = "read_again"
  /\ \/ Unreadable /\ ReadReturns(t, "Closed", NoSample)
     \/ ~Unreadable /\ t \in Apps /\ ReadReturns(t, "Timeout", NoSample)
     \/ ~Unreadable /\ Goto(t, "read_guard") /\ UNCHANGED <<generation, result>>
  /\ UNCHANGED <<queueVars, running_, coreVars>>

-----------------------------------------------------------------------------
NativeStep(t) ==
  \/ NativeStart(t) \/ NativeReset(t) \/ NativeSpawn(t) \/ NativeSpawnFails(t)
  \/ NativeRunning(t) \/ NativeStop(t)
  \/ Read(t) \/ ReadGuard(t) \/ ReadWait(t) \/ ReadAgain(t)

(* The contract the core is used under: its stop() is one step here, so a  *)
(* run is being stopped while a thread is about to take that step.         *)
Contract == INSTANCE CoreContract WITH
  live <- core_live /\ ~core_faulted,
  faulted <- core_faulted,
  stopping <- core_live /\ ~core_faulted
              /\ \E t \in Threads : pc[t] = "native_stop_core",
  run <- core_run,
  delivered <- core_delivered

(* The binding stays within the contract of the core: it begins a run only *)
(* when none is live, so that client_.start() (line 46) never throws       *)
(* "already running", and what it assumes of the core's runs, deliveries   *)
(* and faults is what ClientLifecycle implements.                          *)
UsesContract == Contract!ContractSpec
=============================================================================
