--------------------------- MODULE NativeUseProofs ---------------------------
(***************************************************************************)
(* Proofs about the native binding for any number of threads, calls and    *)
(* samples: lifecycle_mutex_ excludes, running_ means an open queue and a  *)
(* started core, wait_for_first_sample() answers for its own run, and the  *)
(* core is used within its contract.                                       *)
(***************************************************************************)
EXTENDS NativeUse, TLAPS

(* The labels between taking lifecycle_mutex_ and releasing it.            *)
Starting  == {"native_reset", "native_spawn"}
Critical  == {"native_start", "native_running", "start_commit", "start_failed",
              "native_stop", "native_stop_core", "stop_unlock"} \cup Starting
Passed    == {"read_wait", "wait_core", "wait_slice", "wait_recheck"}
UseLabels == {"idle", "lock_start", "lock_stop", "read", "read_done", "wait"}
             \cup ReadLabels \cup WaitLabels \cup Critical

NativeType ==
  /\ pc \in [Threads -> UseLabels]
  /\ close_generation_ \in Nat /\ spawned_at \in Nat
  /\ generation \in [Threads -> Nat]
  /\ core_run \in Nat /\ core_delivered \in Nat
  /\ received_sample \in [Threads -> BOOLEAN]

FlagType ==
  /\ closed_ \in BOOLEAN /\ running_ \in BOOLEAN
  /\ core_live \in BOOLEAN /\ core_faulted \in BOOLEAN

GenerationsPast == \A t \in Threads : generation[t] <= close_generation_

MutexInv == \A t \in Threads : pc[t] \in Critical => lifecycle_mutex_ = t

RunInv == running_ => spawned_at = close_generation_ /\ ~closed_ /\ core_live

(* What the thread in start() or stop() knows.                             *)
PhaseInv ==
  \A u \in Threads :
    /\ pc[u] \in Starting \cup {"native_running", "native_stop_core"} => ~running_
    /\ pc[u] = "native_spawn" => ~closed_
    /\ pc[u] = "native_running" => spawned_at = close_generation_ /\ ~closed_ /\ core_live
    /\ pc[u] \in Starting => ~core_live \/ core_faulted

(* A healthy run that readers do not see is being started or stopped.      *)
LiveInv ==
  core_live /\ ~core_faulted /\ ~running_ =>
    \E u \in Threads : pc[u] \in {"native_running", "native_stop_core"}

(* A reader or waiter past its check whose generation is still the queue's *)
(* is after the run in progress, and nobody is about to begin another.     *)
WaitInv ==
  \A t \in Threads :
    pc[t] \in Passed /\ generation[t] = close_generation_ =>
      /\ spawned_at = generation[t]
      /\ \A u \in Threads : pc[u] \notin Starting
      /\ pc[t] = "wait_recheck" /\ received_sample[t] => core_delivered = core_run

NativeInv ==
  /\ NativeType /\ FlagType /\ GenerationsPast /\ MutexInv /\ RunInv
  /\ PhaseInv /\ LiveInv /\ WaitInv

(* The invariant holds before the first call.                              *)
LEMMA NativeInvInit == UseInit => NativeInv
<1> SUFFICES ASSUME UseInit PROVE NativeInv
  OBVIOUS
<1> USE DEF UseInit, NativeInit, QueueInit
<1>1. NativeType
  BY DEF NativeType, UseLabels
<1>2. FlagType
  BY Zenon DEF FlagType
<1>3. GenerationsPast /\ RunInv /\ LiveInv
  BY DEF GenerationsPast, RunInv, LiveInv
<1>4. MutexInv /\ PhaseInv
  BY DEF MutexInv, PhaseInv, Critical, Starting
<1>5. WaitInv
  BY DEF WaitInv, Passed
<1> QED BY <1>1, <1>2, <1>3, <1>4, <1>5 DEF NativeInv

(* A step of a thread outside lifecycle_mutex_ that leaves the shared      *)
(* state alone disturbs only what is known of that thread's own wait.      *)
LEMMA OutsideStep ==
  ASSUME NativeInv, NEW t \in Threads, NEW label \in UseLabels \ Critical,
         pc[t] \notin Critical, pc' = [pc EXCEPT ![t] = label],
         UNCHANGED <<closed_, close_generation_, running_, core_live, core_faulted,
                     core_run, core_delivered, lifecycle_mutex_, spawned_at>>,
         generation' \in [Threads -> Nat], received_sample' \in [Threads -> BOOLEAN],
         \A u \in Threads : u # t => /\ generation'[u] = generation[u]
                                     /\ received_sample'[u] = received_sample[u],
         generation'[t] <= close_generation_,
         label \in Passed /\ generation'[t] = close_generation_ =>
           /\ spawned_at = generation'[t]
           /\ \A u \in Threads : pc[u] \notin Starting
           /\ label = "wait_recheck" /\ received_sample'[t] => core_delivered = core_run
  PROVE  NativeInv'
<1>1. NativeType' /\ FlagType'
  BY Zenon DEF NativeInv, NativeType, FlagType
<1>2. GenerationsPast' /\ RunInv'
  BY DEF NativeInv, NativeType, GenerationsPast, RunInv
<1>3. MutexInv' /\ PhaseInv'
  BY DEF NativeInv, NativeType, MutexInv, PhaseInv, Critical, Starting
<1>4. LiveInv'
  BY DEF NativeInv, NativeType, LiveInv, Critical
<1>5. \A u \in Threads : pc'[u] \in Starting => pc[u] \in Starting
  BY DEF NativeInv, NativeType, Critical
<1>6. WaitInv'
  BY <1>5 DEF NativeInv, NativeType, WaitInv
<1> QED BY <1>1, <1>2, <1>3, <1>4, <1>6 DEF NativeInv

(* The same for a step that sets the thread's own generation and goes to a *)
(* label before the check of a wait.                                       *)
LEMMA OutsideCapture ==
  ASSUME NativeInv, NEW t \in Threads, NEW label \in UseLabels \ (Critical \cup Passed),
         pc[t] \notin Critical, pc' = [pc EXCEPT ![t] = label],
         UNCHANGED <<closed_, close_generation_, running_, core_live, core_faulted,
                     core_run, core_delivered, lifecycle_mutex_, spawned_at>>,
         \/ generation' = [generation EXCEPT ![t] = 0]
         \/ generation' = [generation EXCEPT ![t] = close_generation_],
         \/ UNCHANGED received_sample
         \/ received_sample' = [received_sample EXCEPT ![t] = FALSE]
  PROVE  NativeInv'
<1>1. /\ generation \in [Threads -> Nat] /\ received_sample \in [Threads -> BOOLEAN]
      /\ close_generation_ \in Nat
  BY DEF NativeInv, NativeType
<1>2. received_sample' \in [Threads -> BOOLEAN]
      /\ \A u \in Threads : u # t => received_sample'[u] = received_sample[u]
  BY <1>1, Zenon
<1>3. /\ generation' \in [Threads -> Nat] /\ generation'[t] <= close_generation_
      /\ \A u \in Threads : u # t => generation'[u] = generation[u]
  BY <1>1
<1> QED BY <1>2, <1>3, OutsideStep, Zenon

(* Calls, reads and waits keep the invariant.                              *)
LEMMA OutsideActions ==
  ASSUME NativeInv, NEW t \in Threads,
         \/ Call(t) \/ ReadDone(t) \/ WaitStep(t)
         \/ /\ Read(t) \/ ReadGuard(t) \/ ReadWait(t) \/ ReadAgain(t)
            /\ UNCHANGED <<lifecycle_mutex_, waitVars, calls, spawned_at>>
  PROVE  NativeInv'
<1>t. /\ pc \in [Threads -> UseLabels] /\ close_generation_ \in Nat
      /\ generation \in [Threads -> Nat] /\ received_sample \in [Threads -> BOOLEAN]
      /\ \A u \in Threads : generation[u] <= close_generation_
  BY DEF NativeInv, NativeType, GenerationsPast
<1> USE DEF Goto, nativeVars, coreVars, queueVars, waitVars
<1>1. CASE Call(t)
  <2>1. PICK label \in {"lock_start", "lock_stop", "read", "wait"} : Goto(t, label)
    BY <1>1, Zenon DEF Call
  <2> QED BY <1>1, <1>t, <2>1, OutsideStep, Zenon
          DEF Call, UseLabels, Critical, Starting, Passed
<1>2. CASE ReadDone(t)
  BY <1>2, <1>t, OutsideStep, Zenon DEF ReadDone, UseLabels, Critical, Starting, Passed
<1>3. CASE Read(t) /\ UNCHANGED <<lifecycle_mutex_, waitVars, calls, spawned_at>>
  BY <1>3, <1>t, OutsideCapture, Zenon
     DEF Read, UseLabels, ReadLabels, Critical, Starting, Passed
<1>4. CASE ReadGuard(t) /\ UNCHANGED <<lifecycle_mutex_, waitVars, calls, spawned_at>>
  <2>0. pc[t] = "read_guard"
    BY <1>4 DEF ReadGuard
  <2>1. CASE Unreadable /\ ReadReturns(t, "Closed", NoSample)
    BY <1>4, <1>t, <2>0, <2>1, OutsideCapture, Zenon
       DEF ReadGuard, ReadReturns, UseLabels, ReadLabels, Critical, Starting, Passed
  <2>2. CASE ~Unreadable /\ Goto(t, "read_wait") /\ UNCHANGED <<generation, result>>
    <3>1. generation[t] = close_generation_ =>
            spawned_at = generation[t] /\ \A u \in Threads : pc[u] \notin Starting
      BY <2>2 DEF Unreadable, NativeInv, RunInv, PhaseInv
    <3> QED BY <1>4, <1>t, <2>0, <2>2, <3>1, OutsideStep, Zenon
       DEF ReadGuard, UseLabels, ReadLabels, Critical, Starting, Passed
  <2> QED BY <1>4, <2>1, <2>2 DEF ReadGuard
<1>5. CASE ReadWait(t) /\ UNCHANGED <<lifecycle_mutex_, waitVars, calls, spawned_at>>
  <2>0. pc[t] = "read_wait" /\ UNCHANGED <<closed_, close_generation_>>
    BY <1>5 DEF ReadWait, ReadSample, ReadClosed, ReadTimeout
  <2>1. CASE \E status, sample : ReadReturns(t, status, sample)
    BY <1>5, <1>t, <2>0, <2>1, OutsideCapture, Zenon
       DEF ReadWait, ReadReturns, UseLabels, ReadLabels, Critical, Starting, Passed
  <2>2. CASE Goto(t, "read_again") /\ UNCHANGED <<generation, result>>
    BY <1>5, <1>t, <2>0, <2>2, OutsideStep, Zenon
       DEF ReadWait, UseLabels, ReadLabels, Critical, Starting, Passed
  <2> QED BY <1>5, <2>1, <2>2 DEF ReadWait
<1>6. CASE ReadAgain(t) /\ UNCHANGED <<lifecycle_mutex_, waitVars, calls, spawned_at>>
  <2>0. pc[t] = "read_again"
    BY <1>6 DEF ReadAgain
  <2>1. CASE \E status, sample : ReadReturns(t, status, sample)
    BY <1>6, <1>t, <2>0, <2>1, OutsideCapture, Zenon
       DEF ReadAgain, ReadReturns, UseLabels, ReadLabels, Critical, Starting, Passed
  <2>2. CASE Goto(t, "read_guard") /\ UNCHANGED <<generation, result>>
    BY <1>6, <1>t, <2>0, <2>2, OutsideStep, Zenon
       DEF ReadAgain, UseLabels, ReadLabels, Critical, Starting, Passed
  <2> QED BY <1>6, <2>1, <2>2 DEF ReadAgain
<1> USE DEF WaitFrame
<1>7. CASE Wait(t)
  BY <1>7, <1>t, OutsideCapture, Zenon DEF Wait, UseLabels, WaitLabels, Critical, Starting, Passed
<1>8. CASE WaitCheck(t) /\ (Unreadable \/ close_generation_ # generation[t])
  BY <1>8, <1>t, OutsideCapture
     DEF WaitCheck, WaitReturns, UseLabels, WaitLabels, Critical, Starting, Passed
<1>9. CASE WaitCheck(t) /\ ~(Unreadable \/ close_generation_ # generation[t])
  <2>1. running_ /\ generation[t] = close_generation_
    BY <1>9 DEF Unreadable
  <2>2. spawned_at = generation[t] /\ \A u \in Threads : pc[u] \notin Starting
    BY <2>1 DEF NativeInv, RunInv, PhaseInv
  <2> QED BY <1>9, <1>t, <2>2, OutsideStep
          DEF WaitCheck, UseLabels, WaitLabels, Critical, Starting, Passed
<1>10. CASE WaitCore(t)
  <2>1. generation[t] = close_generation_ =>
          spawned_at = generation[t] /\ \A u \in Threads : pc[u] \notin Starting
    BY <1>10 DEF WaitCore, NativeInv, WaitInv, Passed
  <2> QED BY <1>10, <1>t, <2>1, OutsideStep, Zenon
          DEF WaitCore, UseLabels, WaitLabels, Critical, Starting, Passed
<1>11. CASE WaitSlice(t)
  <2>1. generation[t] = close_generation_ =>
          spawned_at = generation[t] /\ \A u \in Threads : pc[u] \notin Starting
    BY <1>11 DEF WaitSlice, NativeInv, WaitInv, Passed
  <2>2. received_sample'[t] => core_delivered = core_run
    BY <1>11, <1>t, Zenon DEF WaitSlice
  <2>3. received_sample' \in [Threads -> BOOLEAN]
    BY <1>11, <1>t DEF WaitSlice
  <2> QED BY <1>11, <1>t, <2>1, <2>2, <2>3, OutsideStep, Zenon
          DEF WaitSlice, UseLabels, WaitLabels, Critical, Starting, Passed
<1>12. CASE WaitAnswers(t)
  BY <1>12, <1>t, OutsideCapture, Zenon
     DEF WaitAnswers, WaitReturns, UseLabels, WaitLabels, Critical, Starting, Passed
<1>13. CASE WaitGivesUp(t)
  BY <1>13, <1>t, OutsideCapture, Zenon
     DEF WaitGivesUp, WaitReturns, UseLabels, WaitLabels, Critical, Starting, Passed
<1>14. CASE WaitAgain(t)
  BY <1>14, <1>t, OutsideStep, Zenon
     DEF WaitAgain, UseLabels, WaitLabels, Critical, Starting, Passed
<1> QED
  BY <1>1, <1>2, <1>3, <1>4, <1>5, <1>6, <1>7, <1>8, <1>9, <1>10, <1>11, <1>12, <1>13,
     <1>14 DEF WaitStep

(* A thread in start() or stop() is there alone.                           *)
LEMMA Alone ==
  ASSUME NativeInv, NEW t \in Threads, pc[t] \in Critical,
         NEW u \in Threads, u # t
  PROVE  pc[u] \notin Critical
BY DEF NativeInv, MutexInv

(* start() and stop() keep the invariant.                                  *)
LEMMA LifecycleActions ==
  ASSUME NativeInv, NEW t \in Threads,
         \/ Lock(t) \/ Unlock(t)
         \/ /\ \/ NativeStart(t) \/ NativeReset(t) \/ NativeSpawn(t) \/ NativeSpawnFails(t)
               \/ NativeRunning(t) \/ NativeStop(t) \/ NativeStopCore(t, "stop_unlock")
            /\ spawned_at' = IF core_run' # core_run THEN close_generation_ ELSE spawned_at
            /\ UNCHANGED <<lifecycle_mutex_, waitVars, calls>>
  PROVE  NativeInv'
<1> DEFINE History ==
      /\ spawned_at' = IF core_run' # core_run THEN close_generation_ ELSE spawned_at
      /\ UNCHANGED <<lifecycle_mutex_, waitVars, calls>>
<1>i. /\ NativeType /\ FlagType /\ GenerationsPast /\ MutexInv /\ RunInv
      /\ PhaseInv /\ LiveInv /\ WaitInv
  BY DEF NativeInv
<1>n. None \notin Threads
  BY UseBounds
<1> USE DEF Goto, nativeVars, coreVars, queueVars, waitVars
<1>1. CASE Lock(t)
  <2>0. \A u \in Threads : pc[u] \notin Critical
    BY <1>1, <1>i, <1>n DEF Lock, MutexInv
  <2>1. PICK label \in {"native_start", "native_stop"} : pc' = [pc EXCEPT ![t] = label]
    BY <1>1 DEF Lock
  <2>2. NativeType' /\ FlagType' /\ GenerationsPast' /\ RunInv'
    BY <1>1, <1>i, <2>1
       DEF Lock, NativeType, FlagType, GenerationsPast, RunInv, UseLabels, Critical
  <2>3. MutexInv' /\ PhaseInv'
    BY <1>1, <1>i, <2>0, <2>1 DEF Lock, NativeType, MutexInv, PhaseInv, Critical, Starting
  <2>4. LiveInv'
    BY <1>1, <1>i, <2>0 DEF Lock, LiveInv, Critical
  <2>5. WaitInv'
    BY <1>1, <1>i, <2>1 DEF Lock, NativeType, WaitInv, Passed, Starting
  <2> QED BY <2>2, <2>3, <2>4, <2>5 DEF NativeInv
<1>2. CASE Unlock(t)
  <2>0. \A u \in Threads : u # t => pc[u] \notin Critical
    BY <1>2, Alone DEF Unlock, Critical
  <2>1. NativeType' /\ FlagType' /\ GenerationsPast' /\ RunInv'
    BY <1>2, <1>i DEF Unlock, NativeType, FlagType, GenerationsPast, RunInv, UseLabels
  <2>2. MutexInv' /\ PhaseInv'
    BY <1>2, <1>i, <2>0 DEF Unlock, NativeType, MutexInv, PhaseInv, Critical, Starting
  <2>3. LiveInv'
    BY <1>2, <1>i, <2>0 DEF Unlock, NativeType, LiveInv, Critical
  <2>4. WaitInv'
    BY <1>2, <1>i DEF Unlock, NativeType, WaitInv, Passed, Starting
  <2> QED BY <2>1, <2>2, <2>3, <2>4 DEF NativeInv
<1>3. CASE NativeStart(t) /\ running_ /\ ~core_faulted /\ History
  <2>0. \A u \in Threads : u # t => pc[u] \notin Critical
    BY <1>3, Alone DEF NativeStart, Critical
  <2>1. NativeType' /\ FlagType' /\ GenerationsPast' /\ RunInv' /\ LiveInv'
    BY <1>3, <1>i DEF NativeStart, NativeType, FlagType, GenerationsPast, RunInv, LiveInv,
                      UseLabels, Critical
  <2>2. MutexInv' /\ PhaseInv'
    BY <1>3, <1>i, <2>0 DEF NativeStart, NativeType, MutexInv, PhaseInv, Critical, Starting
  <2>3. WaitInv'
    BY <1>3, <1>i DEF NativeStart, NativeType, WaitInv, Passed, Starting
  <2> QED BY <2>1, <2>2, <2>3 DEF NativeInv
<1>4. CASE NativeStart(t) /\ ~(running_ /\ ~core_faulted) /\ History
  <2>0. \A u \in Threads : u # t => pc[u] \notin Critical
    BY <1>4, Alone DEF NativeStart, Critical
  <2>1. ~core_live \/ core_faulted
    BY <1>4, <1>i, <2>0 DEF NativeStart, LiveInv, Critical
  <2>2. pc' = [pc EXCEPT ![t] = "native_reset"] /\ close_generation_' = close_generation_ + 1
        /\ closed_' = TRUE /\ running_' = FALSE
    BY <1>4 DEF NativeStart, CloseQueue
  <2>f. FlagType'
    BY <1>4, <1>i, <2>2, Zenon DEF NativeStart, FlagType
  <2>3. NativeType' /\ GenerationsPast' /\ RunInv' /\ LiveInv'
    BY <1>4, <1>i, <2>1, <2>2
       DEF NativeStart, NativeType, GenerationsPast, RunInv, LiveInv, UseLabels,
           Critical, Starting
  <2>4. MutexInv' /\ PhaseInv'
    BY <1>4, <1>i, <2>0, <2>1, <2>2
       DEF NativeStart, NativeType, MutexInv, PhaseInv, Critical, Starting
  <2>5. WaitInv'
    BY <1>4, <1>i, <2>2 DEF NativeStart, NativeType, GenerationsPast, WaitInv
  <2> QED BY <2>f, <2>3, <2>4, <2>5 DEF NativeInv
<1>5. CASE NativeReset(t) /\ History
  <2>0. \A u \in Threads : u # t => pc[u] \notin Critical
    BY <1>5, Alone DEF NativeReset, Critical, Starting
  <2>1. NativeType' /\ FlagType' /\ GenerationsPast'
    BY <1>5, <1>i, Zenon DEF NativeReset, ResetQueue, NativeType, FlagType, GenerationsPast,
                      UseLabels, Critical, Starting
  <2>2. RunInv' /\ LiveInv' /\ MutexInv' /\ PhaseInv'
    BY <1>5, <1>i, <2>0 DEF NativeReset, ResetQueue, NativeType, RunInv, LiveInv, MutexInv,
                            PhaseInv, Critical, Starting
  <2>3. WaitInv'
    BY <1>5, <1>i DEF NativeReset, ResetQueue, NativeType, WaitInv, Passed, Starting
  <2> QED BY <2>1, <2>2, <2>3 DEF NativeInv
<1>6. CASE NativeSpawn(t) /\ History
  <2>0. \A u \in Threads : u # t => pc[u] \notin Critical
    BY <1>6, Alone DEF NativeSpawn, Critical, Starting
  <2>1. spawned_at' = close_generation_ /\ core_run' = core_run + 1 /\ core_live' = TRUE
    BY <1>6, <1>i DEF NativeSpawn, NativeType
  <2>f. FlagType'
    BY <1>6, <1>i, Zenon DEF NativeSpawn, FlagType
  <2>2. NativeType' /\ GenerationsPast' /\ RunInv'
    BY <1>6, <1>i, <2>1 DEF NativeSpawn, NativeType, GenerationsPast, RunInv, PhaseInv,
                            UseLabels, Critical, Starting
  <2>3. MutexInv' /\ PhaseInv' /\ LiveInv'
    BY <1>6, <1>i, <2>0, <2>1
       DEF NativeSpawn, NativeType, MutexInv, PhaseInv, LiveInv, Critical, Starting
  <2>4. WaitInv'
    BY <1>6, <1>i, <2>1 DEF NativeSpawn, NativeType, WaitInv, Passed, Starting
  <2> QED BY <2>f, <2>2, <2>3, <2>4 DEF NativeInv
<1>7. CASE NativeSpawnFails(t) /\ History
  <2>0. \A u \in Threads : u # t => pc[u] \notin Critical
    BY <1>7, Alone DEF NativeSpawnFails, Critical, Starting
  <2>f. FlagType'
    BY <1>7, <1>i, Zenon DEF NativeSpawnFails, CloseQueue, FlagType
  <2>1. NativeType' /\ GenerationsPast' /\ RunInv'
    BY <1>7, <1>i DEF NativeSpawnFails, CloseQueue, NativeType, GenerationsPast,
                      RunInv, UseLabels, Critical
  <2>2. MutexInv' /\ PhaseInv' /\ LiveInv'
    BY <1>7, <1>i, <2>0 DEF NativeSpawnFails, CloseQueue, NativeType, MutexInv, PhaseInv,
                            LiveInv, Critical, Starting
  <2>3. WaitInv'
    BY <1>7, <1>i DEF NativeSpawnFails, CloseQueue, NativeType, GenerationsPast, WaitInv
  <2> QED BY <2>f, <2>1, <2>2, <2>3 DEF NativeInv
<1>8. CASE NativeRunning(t) /\ History
  <2>0. \A u \in Threads : u # t => pc[u] \notin Critical
    BY <1>8, Alone DEF NativeRunning, Critical
  <2>1. NativeType' /\ FlagType' /\ GenerationsPast' /\ RunInv' /\ LiveInv'
    BY <1>8, <1>i DEF NativeRunning, NativeType, FlagType, GenerationsPast, RunInv, LiveInv,
                      PhaseInv, UseLabels, Critical
  <2>2. MutexInv' /\ PhaseInv'
    BY <1>8, <1>i, <2>0 DEF NativeRunning, NativeType, MutexInv, PhaseInv, Critical, Starting
  <2>3. WaitInv'
    BY <1>8, <1>i DEF NativeRunning, NativeType, WaitInv, Passed, Starting
  <2> QED BY <2>1, <2>2, <2>3 DEF NativeInv
<1>9. CASE NativeStop(t) /\ History
  <2>0. \A u \in Threads : u # t => pc[u] \notin Critical
    BY <1>9, Alone DEF NativeStop, Critical
  <2>f. FlagType'
    BY <1>9, <1>i, Zenon DEF NativeStop, CloseQueue, FlagType
  <2>1. NativeType' /\ GenerationsPast' /\ RunInv'
    BY <1>9, <1>i DEF NativeStop, CloseQueue, NativeType, GenerationsPast, RunInv,
                      UseLabels, Critical
  <2>2. MutexInv' /\ PhaseInv' /\ LiveInv'
    BY <1>9, <1>i, <2>0 DEF NativeStop, CloseQueue, NativeType, MutexInv, PhaseInv, LiveInv,
                            Critical, Starting
  <2>3. WaitInv'
    BY <1>9, <1>i DEF NativeStop, CloseQueue, NativeType, GenerationsPast, WaitInv
  <2> QED BY <2>f, <2>1, <2>2, <2>3 DEF NativeInv
<1>10. CASE NativeStopCore(t, "stop_unlock") /\ History
  <2>0. \A u \in Threads : u # t => pc[u] \notin Critical
    BY <1>10, Alone DEF NativeStopCore, Critical
  <2>1. NativeType' /\ FlagType' /\ GenerationsPast'
    BY <1>10, <1>i, Zenon DEF NativeStopCore, CoreStops, NativeType, FlagType, GenerationsPast,
                       UseLabels, Critical
  <2>2. RunInv' /\ MutexInv' /\ PhaseInv' /\ LiveInv'
    BY <1>10, <1>i, <2>0 DEF NativeStopCore, CoreStops, NativeType, RunInv, MutexInv,
                             PhaseInv, LiveInv, Critical, Starting
  <2>3. WaitInv'
    BY <1>10, <1>i DEF NativeStopCore, NativeType, WaitInv, Passed, Starting
  <2> QED BY <2>1, <2>2, <2>3 DEF NativeInv
<1> QED
  BY <1>1, <1>2, <1>3, <1>4, <1>5, <1>6, <1>7, <1>8, <1>9, <1>10

(* So do the steps of the core, and stuttering.                            *)
LEMMA CoreActions ==
  ASSUME NativeInv, CoreStep \/ UNCHANGED useVars
  PROVE  NativeInv'
<1> USE DEF nativeVars, coreVars, queueVars, waitVars
<1>1. CASE CoreStep /\ CorePush
  BY <1>1 DEF CoreStep, CorePush, Push, NativeInv, NativeType, FlagType, GenerationsPast,
              MutexInv, RunInv, PhaseInv, LiveInv, WaitInv
<1>2. CASE CoreStep /\ CoreFault
  <2>1. FlagType'
    BY <1>2 DEF CoreStep, CoreFault, NativeInv, FlagType
  <2>2. QED
    BY <1>2, <2>1 DEF CoreStep, CoreFault, NativeInv, NativeType, GenerationsPast,
                      MutexInv, RunInv, PhaseInv, LiveInv, WaitInv
<1>3. CASE UNCHANGED useVars
  BY <1>3 DEF useVars, NativeInv, NativeType, FlagType, GenerationsPast,
              MutexInv, RunInv, PhaseInv, LiveInv, WaitInv
<1> QED BY <1>1, <1>2, <1>3 DEF CoreStep

(* Every step keeps the invariant.                                         *)
LEMMA NativeInvStep == NativeInv /\ [UseNext]_useVars => NativeInv'
<1> SUFFICES ASSUME NativeInv, [UseNext]_useVars PROVE NativeInv'
  OBVIOUS
<1>1. CASE CoreStep \/ UNCHANGED useVars
  BY <1>1, CoreActions
<1>2. ASSUME NEW t \in Threads, Call(t) \/ Lock(t) \/ UseStep(t)
      PROVE  NativeInv'
  <2>1. CASE Call(t) \/ ReadDone(t) \/ WaitStep(t)
    BY <2>1, OutsideActions
  <2>2. CASE Lock(t) \/ Unlock(t)
    BY <2>2, LifecycleActions
  <2>3. CASE Native(t) /\ (Read(t) \/ ReadGuard(t) \/ ReadWait(t) \/ ReadAgain(t))
    <3>1. UNCHANGED <<lifecycle_mutex_, waitVars, calls, spawned_at>>
      BY <2>3 DEF Native, Read, ReadGuard, ReadWait, ReadAgain, coreVars
    <3> QED BY <2>3, <3>1, OutsideActions
  <2>4. CASE Native(t) /\ ~(Read(t) \/ ReadGuard(t) \/ ReadWait(t) \/ ReadAgain(t))
    BY <2>4, LifecycleActions DEF Native, NativeStep
  <2> QED BY <1>2, <2>1, <2>2, <2>3, <2>4 DEF UseStep
<1> QED BY <1>1, <1>2 DEF UseNext

(* For any number of threads, the invariant holds throughout.              *)
THEOREM NativeInvariant == UseSpec => []NativeInv
BY NativeInvInit, NativeInvStep, PTL DEF UseSpec

(* start() and stop() exclude each other through lifecycle_mutex_, however *)
(* many threads call them.                                                 *)
THEOREM LifecycleMutex == UseSpec => []LifecycleExclusive
<1>1. NativeInv => LifecycleExclusive
  BY DEF NativeInv, NativeType, MutexInv, LifecycleExclusive, UseLabels
<1> QED BY <1>1, NativeInvariant, PTL

(* running_ always means an open queue and a core that has been started.   *)
THEOREM RunningMeansOpen == UseSpec => []RunningIsOpen
<1>1. NativeInv => RunningIsOpen
  BY DEF NativeInv, RunInv, RunningIsOpen
<1> QED BY <1>1, NativeInvariant, PTL

(* wait_for_first_sample() answers true only for the run it began with.    *)
THEOREM WaitOwnRun == UseSpec => WaitAnswersForOwnRun
<1>1. NativeInv =>
        [\A t \in Threads :
           WaitAnswers(t) => spawned_at = generation[t] /\ core_delivered = core_run]_useVars
  BY Zenon DEF NativeInv, WaitInv, WaitAnswers, Answers, Passed
<1> QED BY <1>1, NativeInvariant, PTL DEF WaitAnswersForOwnRun

-----------------------------------------------------------------------------
(* Reads                                                                   *)

(* An open queue holds samples of the latest run only, and none when the   *)
(* run is about to begin.                                                  *)
SampleInv ==
  /\ samples_ \in Seq(Nat)
  /\ ~closed_ => \A i \in 1 .. Len(samples_) : samples_[i] = core_run
  /\ \A u \in Threads : pc[u] = "native_spawn" => samples_ = <<>>
  /\ result = [t \in Threads |-> result[t]]

(* Taking the oldest sample away, or adding one of the same run, leaves    *)
(* only samples of that run.                                               *)
LEMMA SameRun ==
  ASSUME NEW s \in Seq(Nat), NEW run \in Nat, \A i \in 1 .. Len(s) : s[i] = run
  PROVE  /\ s # <<>> => /\ Tail(s) \in Seq(Nat)
                        /\ \A i \in 1 .. Len(Tail(s)) : Tail(s)[i] = run
         /\ Append(s, run) \in Seq(Nat)
         /\ \A i \in 1 .. Len(Append(s, run)) : Append(s, run)[i] = run
<1>1. ASSUME s # <<>>
      PROVE  Tail(s) \in Seq(Nat) /\ \A i \in 1 .. Len(Tail(s)) : Tail(s)[i] = run
  <2>1. Tail(s) \in Seq(Nat) /\ Len(Tail(s)) = Len(s) - 1 /\ Len(s) \in Nat
    BY <1>1
  <2>2. \A i \in 1 .. Len(Tail(s)) : Tail(s)[i] = s[i + 1]
    BY <1>1
  <2> QED BY <2>1, <2>2
<1>2. Append(s, run) \in Seq(Nat) /\ \A i \in 1 .. Len(Append(s, run)) : Append(s, run)[i] = run
  OBVIOUS
<1> QED BY <1>1, <1>2

(* A step that leaves the samples and the run alone, opens nothing and     *)
(* moves no thread to the start of the core keeps SampleInv.               *)
LEMMA SamplesKept ==
  ASSUME NativeType, SampleInv, NEW t \in Threads, NEW label, label # "native_spawn",
         pc' = [pc EXCEPT ![t] = label],
         UNCHANGED <<samples_, core_run>>, closed_' \/ UNCHANGED closed_,
         result' = [u \in Threads |-> result'[u]]
  PROVE  SampleInv'
BY Zenon DEF NativeType, SampleInv

(* Every step keeps SampleInv.                                             *)
LEMMA SampleStep == NativeInv /\ SampleInv /\ [UseNext]_useVars => SampleInv'
<1> SUFFICES ASSUME NativeInv, SampleInv, [UseNext]_useVars PROVE SampleInv'
  OBVIOUS
<1>t. NativeType /\ result = [u \in Threads |-> result[u]]
  BY DEF NativeInv, SampleInv
<1> USE DEF Goto, nativeVars, coreVars, queueVars
<1>1. CASE CorePush
  <2>1. \A u \in Threads : pc[u] # "native_spawn"
    BY <1>1 DEF CorePush, NativeInv, PhaseInv, Starting
  <2>2. samples_' \in Seq(Nat) /\ core_run \in Nat
    BY <1>1, CapacityPositive DEF CorePush, Push, SampleInv, NativeInv, NativeType
  <2>3. ~closed_ => \A i \in 1 .. Len(samples_') : samples_'[i] = core_run
    <3> SUFFICES ASSUME ~closed_
                 PROVE  \A i \in 1 .. Len(samples_') : samples_'[i] = core_run
      OBVIOUS
    <3>1. samples_ \in Seq(Nat) /\ \A i \in 1 .. Len(samples_) : samples_[i] = core_run
      BY DEF SampleInv
    <3>2. CASE Len(samples_) = Capacity
      <4>1. samples_ # <<>> /\ samples_' = Append(Tail(samples_), core_run)
        BY <1>1, <3>2, CapacityPositive DEF CorePush, Push
      <4>2. Tail(samples_) \in Seq(Nat)
            /\ \A i \in 1 .. Len(Tail(samples_)) : Tail(samples_)[i] = core_run
        BY <2>2, <3>1, <4>1, SameRun
      <4> QED BY <2>2, <4>1, <4>2, SameRun
    <3>3. CASE Len(samples_) # Capacity
      BY <1>1, <2>2, <3>1, <3>3, SameRun DEF CorePush, Push
    <3> QED BY <3>2, <3>3
  <2> QED BY <1>1, <2>1, <2>2, <2>3 DEF CorePush, Push, SampleInv
<1>2. CASE CoreFault \/ UNCHANGED useVars
  BY <1>2 DEF CoreFault, useVars, SampleInv
<1>3. ASSUME NEW t \in Threads, Call(t) \/ Lock(t) \/ Unlock(t) \/ ReadDone(t) \/ WaitStep(t)
      PROVE  SampleInv'
  <2>1. CASE Call(t)
    BY <2>1, <1>t, SamplesKept, Zenon DEF Call
  <2>2. CASE Lock(t) \/ Unlock(t) \/ ReadDone(t)
    BY <2>2, <1>t, SamplesKept DEF Lock, Unlock, ReadDone
  <2>3. CASE WaitStep(t)
    BY <2>3, <1>t, SamplesKept
       DEF WaitStep, Wait, WaitCheck, WaitCore, WaitSlice, WaitAnswers, WaitGivesUp,
           WaitAgain, WaitReturns, WaitFrame
  <2> QED BY <1>3, <2>1, <2>2, <2>3
<1>4. ASSUME NEW t \in Threads, Read(t) \/ ReadGuard(t) \/ ReadWait(t) \/ ReadAgain(t)
      PROVE  SampleInv'
  <2>1. CASE Read(t) \/ ReadGuard(t) \/ ReadAgain(t)
    BY <2>1, <1>t, SamplesKept DEF Read, ReadGuard, ReadAgain, ReadReturns
  <2>2. CASE ReadWait(t) /\ UNCHANGED queueVars
    BY <2>2, <1>t, SamplesKept DEF ReadWait, ReadReturns
  <2>3. CASE ReadWait(t) /\ ReadSample(generation[t], Head(samples_))
             /\ ReadReturns(t, "Sample", Head(samples_))
    <3>1. /\ samples_' \in Seq(Nat)
          /\ ~closed_ => \A i \in 1 .. Len(samples_') : samples_'[i] = core_run
      <4>1. samples_ # <<>> /\ samples_' = Tail(samples_) /\ core_run \in Nat
        BY <2>3, <1>t DEF ReadSample, NativeType
      <4>2. samples_' \in Seq(Nat)
        BY <4>1 DEF SampleInv
      <4>3. ~closed_ => \A i \in 1 .. Len(samples_') : samples_'[i] = core_run
        BY <4>1, SameRun, Zenon DEF SampleInv
      <4> QED BY <4>2, <4>3
    <3>2. \A u \in Threads : pc'[u] # "native_spawn"
      BY <2>3, <1>t DEF ReadSample, ReadReturns, SampleInv, NativeType
    <3> QED BY <2>3, <1>t, <3>1, <3>2, Zenon DEF ReadWait, ReadSample, ReadReturns, SampleInv
  <2> QED BY <1>4, <2>1, <2>2, <2>3 DEF ReadWait, ReadClosed, ReadTimeout
<1>5. ASSUME NEW t \in Threads,
             \/ NativeStart(t) \/ NativeReset(t) \/ NativeSpawn(t) \/ NativeSpawnFails(t)
             \/ NativeRunning(t) \/ NativeStop(t) \/ NativeStopCore(t, "stop_unlock")
      PROVE  SampleInv'
  <2>1. CASE NativeStart(t) \/ NativeSpawnFails(t) \/ NativeStop(t)
    BY <2>1, <1>t, SamplesKept DEF NativeStart, NativeSpawnFails, NativeStop, CloseQueue
  <2>2. CASE NativeRunning(t) \/ NativeStopCore(t, "stop_unlock")
    BY <2>2, <1>t, SamplesKept DEF NativeRunning, NativeStopCore
  <2>3. CASE NativeReset(t)
    BY <2>3 DEF NativeReset, ResetQueue, SampleInv
  <2>4. CASE NativeSpawn(t)
    BY <2>4 DEF NativeSpawn, SampleInv
  <2> QED BY <1>5, <2>1, <2>2, <2>3, <2>4
<1> QED
  BY <1>1, <1>2, <1>3, <1>4, <1>5 DEF UseNext, CoreStep, UseStep, Native, NativeStep

(* The step in which a read returns a sample.                              *)
LEMMA OnlyReadWaitReturnsSamples ==
  ASSUME NativeInv, SampleInv, UseNext, NEW t \in Threads,
         result'[t].status = "Sample", result[t] = NoResult
  PROVE  pc[t] = "read_wait" /\ ReadSample(generation[t], Head(samples_))
         /\ result'[t].sample = Head(samples_)
<1>r. result = [u \in Threads |-> result[u]] /\ result[t].status # "Sample"
  BY DEF SampleInv, NoResult
<1> USE DEF Goto, nativeVars, coreVars, queueVars
<1>1. CASE CoreStep
  BY <1>1, <1>r, SMTT(30) DEF CoreStep, CorePush, CoreFault
<1>2. ASSUME NEW u \in Threads, Call(u) \/ Lock(u) \/ Unlock(u) \/ WaitStep(u)
      PROVE  UNCHANGED result
  BY <1>2, Zenon DEF Call, Lock, Unlock, WaitStep, Wait, WaitCheck, WaitCore, WaitSlice,
              WaitAnswers, WaitGivesUp, WaitAgain, WaitFrame
<1>3. ASSUME NEW u \in Threads,
             \/ NativeStart(u) \/ NativeReset(u) \/ NativeSpawn(u) \/ NativeSpawnFails(u)
             \/ NativeRunning(u) \/ NativeStop(u) \/ NativeStopCore(u, "stop_unlock")
      PROVE  UNCHANGED result
  BY <1>3, Zenon DEF NativeStart, NativeReset, NativeSpawn, NativeSpawnFails, NativeRunning,
              NativeStop, NativeStopCore
<1>4. ASSUME NEW u \in Threads, ReadDone(u) \/ Read(u) \/ ReadGuard(u) \/ ReadAgain(u)
      PROVE  FALSE
  BY <1>4, <1>r DEF ReadDone, Read, ReadGuard, ReadAgain, ReadReturns, NoResult
<1>5. ASSUME NEW u \in Threads, ReadWait(u)
      PROVE  pc[t] = "read_wait" /\ ReadSample(generation[t], Head(samples_))
             /\ result'[t].sample = Head(samples_)
  BY <1>5, <1>r DEF ReadWait, ReadReturns
<1> QED
  BY <1>r, <1>1, <1>2, <1>3, <1>4, <1>5 DEF UseNext, UseStep, Native, NativeStep

(* read() returns only samples of the run that was current when it was     *)
(* called, however the run is stopped and replaced meanwhile.              *)
THEOREM ReadOwnRun == UseSpec => ReadsOwnRun
<1>1. UseInit => SampleInv
  BY DEF UseInit, NativeInit, QueueInit, SampleInv
<1>2. UseSpec => []SampleInv
  BY <1>1, SampleStep, NativeInvariant, PTL DEF UseSpec
<1>3. NativeInv /\ SampleInv /\ [UseNext]_useVars =>
        [\A t \in Threads :
           result'[t].status = "Sample" /\ result[t] = NoResult =>
             result'[t].sample = core_run /\ spawned_at = generation[t]]_useVars
  <2> SUFFICES ASSUME NativeInv, SampleInv, UseNext, NEW t \in Threads,
                      result'[t].status = "Sample", result[t] = NoResult
               PROVE  result'[t].sample = core_run /\ spawned_at = generation[t]
    OBVIOUS
  <2>1. pc[t] = "read_wait" /\ ReadSample(generation[t], Head(samples_))
        /\ result'[t].sample = Head(samples_)
    BY OnlyReadWaitReturnsSamples
  <2>2. Head(samples_) = core_run
    BY <2>1, SMTT(30) DEF ReadSample, ClosedFor, SampleInv
  <2>3. spawned_at = generation[t]
    BY <2>1, Zenon DEF ReadSample, ClosedFor, NativeInv, WaitInv, Passed
  <2> QED BY <2>1, <2>2, <2>3
<1> QED BY <1>2, <1>3, NativeInvariant, PTL DEF UseSpec, ReadsOwnRun

-----------------------------------------------------------------------------
(* The contract of the core                                                *)

(* A step that changes neither the core nor who is about to stop it is a   *)
(* stuttering step of the contract.                                        *)
LEMMA ContractStutters ==
  ASSUME NativeType, NEW t \in Threads, NEW label, label # "native_stop_core",
         pc[t] # "native_stop_core", pc' = [pc EXCEPT ![t] = label],
         UNCHANGED <<core_live, core_faulted, core_run, core_delivered>>
  PROVE  UNCHANGED Contract!contractVars
<1>1. (\E u \in Threads : pc'[u] = "native_stop_core")
        <=> (\E u \in Threads : pc[u] = "native_stop_core")
  BY DEF NativeType
<1> QED BY <1>1 DEF Contract!contractVars

(* Every step of the binding is a step of the contract or a stutter.       *)
LEMMA ContractStep ==
  NativeInv /\ [UseNext]_useVars => [Contract!ContractNext]_(Contract!contractVars)
<1> SUFFICES ASSUME NativeInv, [UseNext]_useVars
             PROVE  [Contract!ContractNext]_(Contract!contractVars)
  OBVIOUS
<1>t. NativeType
  BY DEF NativeInv
<1> USE DEF Goto, nativeVars, coreVars, queueVars
<1>1. CASE CorePush
  BY <1>1 DEF CorePush, Contract!ContractNext, Contract!Deliver
<1>2. CASE CoreFault
  BY <1>2 DEF CoreFault, Contract!ContractNext, Contract!Fault
<1>3. CASE UNCHANGED useVars
  BY <1>3 DEF useVars, Contract!contractVars
<1>4. ASSUME NEW t \in Threads, Call(t) \/ Lock(t) \/ Unlock(t) \/ ReadDone(t) \/ WaitStep(t)
      PROVE  UNCHANGED Contract!contractVars
  <2>1. CASE Call(t)
    BY <2>1, <1>t, ContractStutters, Zenon DEF Call
  <2>2. CASE Lock(t) \/ Unlock(t) \/ ReadDone(t)
    BY <2>2, <1>t, ContractStutters, SMTT(30) DEF Lock, Unlock, ReadDone
  <2>3. CASE WaitStep(t)
    BY <2>3, <1>t, ContractStutters, SMTT(30)
       DEF WaitStep, Wait, WaitCheck, WaitCore, WaitSlice, WaitAnswers, WaitGivesUp,
           WaitAgain, WaitReturns, WaitFrame
  <2> QED BY <1>4, <2>1, <2>2, <2>3
<1>5. ASSUME NEW t \in Threads, Read(t) \/ ReadGuard(t) \/ ReadWait(t) \/ ReadAgain(t)
      PROVE  UNCHANGED Contract!contractVars
  BY <1>5, <1>t, ContractStutters, Zenon DEF Read, ReadGuard, ReadWait, ReadAgain, ReadReturns
<1>6. ASSUME NEW t \in Threads,
             \/ NativeStart(t) \/ NativeReset(t) \/ NativeSpawnFails(t) \/ NativeRunning(t)
      PROVE  UNCHANGED Contract!contractVars
  BY <1>6, <1>t, ContractStutters
     DEF NativeStart, NativeReset, NativeSpawnFails, NativeRunning
<1>7. ASSUME NEW t \in Threads, NativeSpawn(t)
      PROVE  Contract!Begin
  <2>1. ~(core_live /\ ~core_faulted)
    BY <1>7 DEF NativeSpawn, NativeInv, PhaseInv, Starting
  <2>2. \A u \in Threads : pc'[u] # "native_stop_core"
    BY <1>7, <1>t, Alone DEF NativeSpawn, NativeType, Critical, Starting
  <2> QED BY <1>7, <2>1, <2>2 DEF NativeSpawn, Contract!Begin
<1>8. ASSUME NEW t \in Threads, NativeStop(t)
      PROVE  [Contract!RequestStop]_(Contract!contractVars)
  <2>1. pc'[t] = "native_stop_core"
    BY <1>8, <1>t DEF NativeStop, NativeType
  <2> QED BY <1>8, <2>1 DEF NativeStop, Contract!RequestStop, Contract!contractVars
<1>9. ASSUME NEW t \in Threads, NativeStopCore(t, "stop_unlock")
      PROVE  [Contract!End]_(Contract!contractVars)
  BY <1>9 DEF NativeStopCore, CoreStops, Contract!End, Contract!contractVars
<1> QED
  BY <1>1, <1>2, <1>3, <1>4, <1>5, <1>6, <1>7, <1>8, <1>9
     DEF UseNext, CoreStep, UseStep, Native, NativeStep, Contract!ContractNext

(* For any number of threads the binding uses the core within CoreContract,*)
(* which ClientImplementsContract shows the core to implement.             *)
THEOREM BindingUsesContract == UseSpec => UsesContract
<1>1. UseInit => Contract!ContractInit
  BY DEF UseInit, NativeInit, Contract!ContractInit
<1> QED
  BY <1>1, ContractStep, NativeInvariant, PTL
     DEF UseSpec, UsesContract, Contract!ContractSpec
=============================================================================
