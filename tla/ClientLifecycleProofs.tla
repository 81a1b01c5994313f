------------------------ MODULE ClientLifecycleProofs ------------------------
(***************************************************************************)
(* TLAPS proofs about ClientLifecycle, for any set of application threads  *)
(* and any number of calls.                                                *)
(***************************************************************************)
EXTENDS ClientLifecycle, TLAPS

(* TypeOK in two parts, for the two provers: the Boolean variables, and    *)
(* everything else.                                                        *)
FlagsOK ==
  /\ socket_ \in BOOLEAN
  /\ shutdown_requested_ \in BOOLEAN
  /\ worker_ \in BOOLEAN
  /\ active_worker_id_ \in BOOLEAN
  /\ joining_ \in BOOLEAN
  /\ stopping_ \in BOOLEAN
  /\ worker_exited_ \in BOOLEAN
  /\ session_started_ \in BOOLEAN
  /\ faulted_ \in BOOLEAN
  /\ owes_stop \in BOOLEAN

ValuesOK ==
  /\ recovery_policy \in {"FailStop", "Reconnect"}
  /\ lifecycle_mutex_ \in Threads \cup {Nobody}
  /\ lifecycle_waiters \subseteq Threads
  /\ state_ \in States
  /\ generation_ \in Nat
  /\ delivered_generation_ \in Nat
  /\ previous \in [stopping : BOOLEAN, worker_exited : BOOLEAN,
                   faulted : BOOLEAN, state : States, generation : Nat,
                   delivered : Nat]
  /\ pc \in [Threads -> CallLabels]
  /\ captured \in [Threads -> Nat]
  /\ run_pc \in RunLabels
  /\ result \in {"None", "Stopped", "Failed"}
  /\ budget \in Nat
  /\ runs \in Nat
  /\ delivered_run \in Nat
  /\ quiesced \in Nat

(* TypeOK is the Boolean-valued part and the rest: each backend is good    *)
(* at one of them.                                                         *)
LEMMA TypeParts == TypeOK <=> FlagsOK /\ ValuesOK
  BY DEF TypeOK, FlagsOK, ValuesOK

(* Every step keeps the flags and latches of Client::Impl Boolean.         *)
LEMMA FlagsStep == TypeOK /\ [Next]_vars => FlagsOK'
<1> USE DEF FlagsOK, flagVars, threadVars, lockVars, netVars, dataVars, callVars,
            runVars, history, callerSide, callFrame, runFrame, quietFrame,
          joinFrame, genVars, transportVars
<1> SUFFICES ASSUME TypeOK, [Next]_vars PROVE FlagsOK'
  OBVIOUS
<1> FlagsOK
  BY TypeParts
<1>0. /\ previous.stopping \in BOOLEAN
      /\ previous.worker_exited \in BOOLEAN
      /\ previous.faulted \in BOOLEAN
  BY DEF TypeOK
<1>1. ASSUME NEW p \in Threads, Call(p) PROVE FlagsOK'
  BY <1>1, Zenon DEF Call, Begin
<1>2. ASSUME NEW p \in Threads, StartStep(p) PROVE FlagsOK'
  <2>1. CASE StartEnter(p) \/ StartWake(p) \/ StartFaultEval(p)
             \/ StartFaultBlock(p) \/ StartFaultWake(p)
    BY <2>1
       DEF StartEnter, AwaitNoJoin, StartWake, StartFaultEval, StartFaultBlock, StartFaultWake
  <2>2. CASE StartCheck(p)
    BY <2>2, Zenon DEF StartCheck, TakeWorker
  <2>3. CASE StartPublish(p) \/ StartFlags(p) \/ StartSpawn(p)
    <3>1. CASE StartPublish(p)
      BY <3>1, Zenon DEF StartPublish
    <3>2. CASE StartFlags(p)
      BY <3>2, Zenon DEF StartFlags
    <3>3. CASE StartSpawn(p)
      BY <3>3, Zenon DEF StartSpawn
    <3>4. QED
      BY <2>3, <3>1, <3>2, <3>3
  <2>4. CASE StartSpawnFails(p) \/ StartRollback(p) \/ StartRelatch(p)
    <3>1. CASE StartSpawnFails(p)
      BY <3>1, <1>0, Zenon DEF StartSpawnFails
    <3>2. CASE StartRollback(p)
      BY <3>2 DEF StartRollback, RestoreGeneration
    <3>3. CASE StartRelatch(p)
      BY <3>3, <1>0, Zenon DEF StartRelatch
    <3>4. QED
      BY <2>4, <3>1, <3>2, <3>3
  <2>5. CASE StartJoin(p) \/ StartReap(p)
    <3>1. CASE StartJoin(p)
      BY <3>1, Zenon DEF StartJoin
    <3>2. CASE StartReap(p)
      BY <3>2, Zenon DEF StartReap
    <3>3. QED
      BY <2>5, <3>1, <3>2
  <2>6. QED
    BY <1>2, <2>1, <2>2, <2>3, <2>4, <2>5 DEF StartStep
<1>3. ASSUME NEW p \in Threads, StopStep(p) PROVE FlagsOK'
  <2>0. CASE StopSignal(p) \/ StopFinish(p)
    <3>1. CASE StopSignal(p)
      BY <3>1, Zenon DEF StopSignal
    <3>2. CASE StopFinish(p)
      BY <3>2, Zenon DEF StopFinish
    <3>3. QED
      BY <2>0, <3>1, <3>2
  <2>1. CASE StopWake(p) \/ StopJoin(p)
    BY <2>1 DEF StopWake, StopJoin
  <2>2. CASE StopCommand(p)
    BY <2>2, Zenon DEF StopCommand, StopStreaming, TransportShutdown
  <2>3. CASE StopDecide(p)
    BY <2>3, ZenonT(40) DEF StopDecide, TakeWorker
  <2>4. QED
    BY <1>3, <2>0, <2>1, <2>2, <2>3 DEF StopStep
<1>4. ASSUME NEW p \in Threads, QueryStep(p) \/ SpuriousWake(p) PROVE FlagsOK'
  <2>1. CASE Bias(p)
    BY <2>1, Zenon DEF Bias
  <2>2. CASE WaitCapture(p) \/ SpuriousWake(p)
    BY <2>2 DEF WaitCapture, SpuriousWake
  <2>3. ASSUME NEW value \in BOOLEAN, WaitReturn(p, value) PROVE FlagsOK'
    BY <2>3 DEF WaitReturn
  <2>4. QED
    BY <1>4, <2>1, <2>2, <2>3 DEF QueryStep
<1>5. ASSUME RunStep PROVE FlagsOK'
  <2>1. CASE RunLoop \/ Connecting \/ Discover \/ Backoff \/ HandleRecord
             \/ ReceiveLoop \/ ReceiveEnter \/ Receive
    BY <2>1 DEF RunLoop, Connecting, Discover, Backoff, HandleRecord,
       ReceiveLoop, ReceiveEnter, Receive
  <2>2. CASE Connect \/ StartRealtime
    <3>1. CASE Connect
      BY <3>1, Zenon DEF Connect, TransportConnect
    <3>2. CASE StartRealtime
      BY <3>2, Zenon DEF StartRealtime
    <3>3. QED
      BY <2>2, <3>1, <3>2
  <2>3. CASE CallbackReturns \/ CallbackThrows \/ Delivered
    BY <2>3 DEF CallbackReturns, CallbackThrows, Delivered
  <2>4. CASE Close \/ FinishClose
    <3>1. CASE Close
      BY <3>1, Zenon DEF Close, CloseSession, StopStreaming, TransportClose
    <3>2. CASE FinishClose
      BY <3>2, Zenon DEF FinishClose, CloseSession, StopStreaming, TransportClose
    <3>3. QED
      BY <2>4, <3>1, <3>2
  <2>5. CASE Decide \/ Caught
    <3>1. CASE Decide
      BY <3>1, Zenon DEF Decide, SetFault, PublishFault
    <3>2. CASE Caught
      BY <3>2, Zenon DEF Caught, SetFault, PublishFault
    <3>3. QED
      BY <2>5, <3>1, <3>2
  <2>6. CASE FinishStore \/ FinishState \/ FinishNotify
    <3>1. CASE FinishStore
      BY <3>1, Zenon DEF FinishStore
    <3>2. CASE FinishState \/ FinishNotify
      BY <3>2 DEF FinishState, FinishNotify
    <3>3. QED
      BY <2>6, <3>1, <3>2
  <2>7. QED
    BY <1>5, <2>1, <2>2, <2>3, <2>4, <2>5, <2>6, Zenon DEF RunStep
<1>6. CASE UNCHANGED vars
  BY <1>6, Zenon DEF vars
<1>7. QED
  BY <1>1, <1>2, <1>3, <1>4, <1>5, <1>6 DEF Next, CallStep

(* Every step keeps the other variables of Client::Impl in their types.    *)
LEMMA ValuesStep == TypeOK /\ [Next]_vars => ValuesOK'
<1> USE DEF ValuesOK, flagVars, threadVars, lockVars, netVars, dataVars, callVars,
          runVars, history, callerSide, callFrame, runFrame, quietFrame,
          joinFrame, genVars, transportVars
<1> SUFFICES ASSUME TypeOK, [Next]_vars PROVE ValuesOK'
  OBVIOUS
<1> ValuesOK
  BY TypeParts
<1>1. ASSUME NEW p \in Threads, Call(p) PROVE ValuesOK'
  <2>1. PICK label \in {"start", "stop", "bias", "wait"} : Begin(p, label)
    BY <1>1, Zenon DEF Call
  <2>2. QED
    BY <2>1 DEF Begin, Goto, CallLabels, StartLabels, StopLabels
<1>2. ASSUME NEW p \in Threads, StartStep(p) PROVE ValuesOK'
  <2> USE DEF Goto, CallLabels, StartLabels, StopLabels, StartHolding
  <2>1. CASE StartEnter(p)
    BY <2>1 DEF StartEnter, AwaitNoJoin, Block, Acquire, Release
  <2>2. CASE StartWake(p)
    BY <2>2 DEF StartWake, AwaitNoJoin, Block, Acquire, Release
  <2>3. CASE StartCheck(p)
    BY <2>3 DEF StartCheck, TakeWorker, Release
  <2>4. CASE StartFaultEval(p)
    BY <2>4 DEF StartFaultEval, Release
  <2>5. CASE StartFaultBlock(p)
    BY <2>5 DEF StartFaultBlock, Block, Release
  <2>6. CASE StartFaultWake(p)
    BY <2>6 DEF StartFaultWake, Acquire
  <2>7. CASE StartPublish(p)
    <3>1. Previous \in [stopping : BOOLEAN, worker_exited : BOOLEAN,
                       faulted : BOOLEAN, state : States, generation : Nat,
                       delivered : Nat]
      BY TypeParts, Zenon DEF FlagsOK, Previous
    <3>2. QED
      BY <2>7, <3>1 DEF StartPublish, States
  <2>8. CASE StartFlags(p)
    BY <2>8 DEF StartFlags
  <2>9. CASE StartSpawn(p)
    BY <2>9 DEF StartSpawn, NotifyLifecycle, Release, NoPrevious, RunLabels, States
  <2>10. CASE StartSpawnFails(p)
    BY <2>10 DEF StartSpawnFails
  <2>11. CASE StartRollback(p)
    BY <2>11 DEF StartRollback, RestoreGeneration
  <2>12. CASE StartRelatch(p)
    BY <2>12 DEF StartRelatch, NotifyLifecycle, Release, NoPrevious, States
  <2>13. CASE StartJoin(p)
    BY <2>13 DEF StartJoin, RunLabels
  <2>14. CASE StartReap(p)
    BY <2>14, Zenon DEF StartReap, NotifyLifecycle
  <2>15. QED
    BY <1>2, <2>1, <2>2, <2>3, <2>4, <2>5, <2>6, <2>7, <2>8, <2>9, <2>10,
       <2>11, <2>12, <2>13, <2>14, Zenon DEF StartStep
<1>3. ASSUME NEW p \in Threads, StopStep(p) PROVE ValuesOK'
  <2> USE DEF Goto, CallLabels, StartLabels, StopLabels, StopHolding
  <2>1. CASE StopSignal(p)
    BY <2>1 DEF StopSignal, Acquire, NotifyLifecycle
  <2>2. CASE StopCommand(p)
    BY <2>2 DEF StopCommand, StopStreaming, TransportShutdown
  <2>3. CASE StopDecide(p)
    BY <2>3 DEF StopDecide, Block, Release, TakeWorker, StopReturned,
                SetStoppedUnlessFaulted, States
  <2>4. CASE StopWake(p)
    BY <2>4 DEF StopWake, Block, Release
  <2>5. CASE StopJoin(p)
    BY <2>5 DEF StopJoin, RunLabels
  <2>6. CASE StopFinish(p)
    BY <2>6 DEF StopFinish, StopReturned, SetStoppedUnlessFaulted,
                NotifyLifecycle, States
  <2>7. QED
    BY <1>3, <2>1, <2>2, <2>3, <2>4, <2>5, <2>6 DEF StopStep
<1>4. ASSUME NEW p \in Threads, QueryStep(p) \/ SpuriousWake(p) PROVE ValuesOK'
  <2> USE DEF Goto, CallLabels
  <2>1. CASE Bias(p)
    BY <2>1 DEF Bias
  <2>2. CASE WaitCapture(p)
    BY <2>2 DEF WaitCapture
  <2>3. ASSUME NEW value \in BOOLEAN, WaitReturn(p, value) PROVE ValuesOK'
    BY <2>3 DEF WaitReturn
  <2>4. CASE SpuriousWake(p)
    BY <2>4, Zenon DEF SpuriousWake
  <2>5. QED
    BY <1>4, <2>1, <2>2, <2>3, <2>4 DEF QueryStep
<1>5. ASSUME RunStep PROVE ValuesOK'
  <2> USE DEF RunLabels, InSession, EndSession, Outcome
  <2>1. CASE RunLoop \/ Backoff \/ Discover \/ Connect \/ StartRealtime
    BY <2>1, Zenon DEF RunLoop, Backoff, Discover, Connect, StartRealtime, TransportConnect
  <2>2. CASE Connecting \/ HandleRecord
    BY <2>2 DEF Connecting, HandleRecord, States
  <2>3. CASE ReceiveLoop \/ ReceiveEnter \/ Receive
    BY <2>3 DEF ReceiveLoop, ReceiveEnter, Receive
  <2>4. CASE CallbackReturns \/ CallbackThrows \/ Delivered
    BY <2>4 DEF CallbackReturns, CallbackThrows, Delivered, NotifyLifecycle
  <2>5. CASE Close \/ FinishClose
    BY <2>5 DEF Close, FinishClose, CloseSession, StopStreaming, TransportClose
  <2>6. CASE Decide \/ Caught
    BY <2>6 DEF Decide, Caught, SetFault, PublishFault, NotifyLifecycle, States
  <2>7. CASE FinishStore \/ FinishState \/ FinishNotify
    BY <2>7 DEF FinishStore, FinishState, FinishNotify, NotifyLifecycle,
                SetStoppedUnlessFaulted, States
  <2>8. QED
    BY <1>5, <2>1, <2>2, <2>3, <2>4, <2>5, <2>6, <2>7 DEF RunStep
<1>6. CASE UNCHANGED vars
  BY <1>6 DEF vars
<1>7. QED
  BY <1>1, <1>2, <1>3, <1>4, <1>5, <1>6 DEF Next, CallStep

(* Init and every step of the client keep every variable in its type.      *)
THEOREM TypeCorrect == Spec => []TypeOK
<1>1. Init => TypeOK
  <2> USE DEF Init, TransportInit
  <2>1. Init => FlagsOK
    BY Zenon DEF FlagsOK
  <2>2. Init => ValuesOK
    BY MaxCallsNat DEF ValuesOK, NoPrevious, States, CallLabels, RunLabels
  <2>3. QED
    BY <2>1, <2>2, TypeParts
<1>2. TypeOK /\ [Next]_vars => TypeOK'
  <2>1. (FlagsOK /\ ValuesOK => TypeOK)'
    BY DEF TypeOK, FlagsOK, ValuesOK
  <2>2. QED
    BY <2>1, FlagsStep, ValuesStep
<1>3. QED
  BY <1>1, <1>2, PTL DEF Spec

-----------------------------------------------------------------------------
(* Ownership of the worker thread.                                         *)

(* OneOwner and StopIsSynchronous are not inductive: what makes the        *)
(* transfer of worker_ safe is that lifecycle_mutex_ is held from the test *)
(* of joining_ and worker_ to the assignment that depends on it.           *)
OwnerInv ==
  /\ \A p \in Threads :
       lifecycle_mutex_ = p <=> pc[p] \in StartHolding \cup StopHolding
  /\ \A p \in Threads :
       /\ pc[p] = "start_check" => ~joining_
       /\ pc[p] \in Publishing \cup {"start_publish"} => ~joining_ /\ ~worker_
  /\ OneOwner
  /\ quiesced <= runs
  /\ StopIsSynchronous

(* The worker's own steps leave the ownership of its thread alone.         *)
LEMMA RunStepFrame ==
  RunStep => /\ UNCHANGED callerSide
             /\ run_pc # "none"
             /\ run_pc' # "none"
<1> SUFFICES ASSUME RunStep
             PROVE UNCHANGED callerSide /\ run_pc # "none" /\ run_pc' # "none"
  OBVIOUS
<1> USE DEF EndSession, runFrame, quietFrame
<1>1. CASE RunLoop \/ Connecting \/ Discover \/ Connect \/ StartRealtime
  BY <1>1, Zenon DEF RunLoop, Connecting, Discover, Connect, StartRealtime
<1>2. CASE ReceiveLoop \/ ReceiveEnter \/ Receive \/ HandleRecord
  BY <1>2 DEF ReceiveLoop, ReceiveEnter, Receive, HandleRecord
<1>3. CASE CallbackReturns \/ CallbackThrows \/ Delivered \/ Close \/ Backoff
  BY <1>3 DEF CallbackReturns, CallbackThrows, Delivered, Close, Backoff
<1>4. CASE Decide \/ Caught
  BY <1>4 DEF Decide, Caught, SetFault, PublishFault
<1>5. CASE FinishClose \/ FinishStore \/ FinishState \/ FinishNotify
  BY <1>5 DEF FinishClose, FinishStore, FinishState, FinishNotify
<1>6. QED
  BY <1>1, <1>2, <1>3, <1>4, <1>5 DEF RunStep

(* Every step of start(), stop(), the queries and the worker preserves the *)
(* ownership invariant.                                                    *)
LEMMA OwnerStep == TypeOK /\ OwnerInv /\ [Next]_vars => OwnerInv'
<1> SUFFICES ASSUME TypeOK, OwnerInv, [Next]_vars PROVE OwnerInv'
  OBVIOUS
<1> USE ThreadsDistinct DEF OwnerInv, OneOwner, StopIsSynchronous, callFrame, joinFrame
<1>0. /\ pc \in [Threads -> CallLabels]
      /\ runs \in Nat
      /\ quiesced \in Nat
  BY DEF TypeOK
<1>1. ASSUME NEW p \in Threads, Call(p) PROVE OwnerInv'
  BY <1>0, <1>1 DEF Call, Begin, Goto, lockVars, threadVars, runVars, history,
     StartHolding, StopHolding, Publishing, Joining
<1>2. ASSUME NEW p \in Threads, StartStep(p) PROVE OwnerInv'
  <2> USE <1>0 DEF Goto, lockVars, threadVars, runVars, history,
                   StartHolding, StopHolding, Publishing, Joining
  <2>1. CASE StartEnter(p)
    BY <2>1 DEF StartEnter, AwaitNoJoin, Block, Acquire, Release
  <2>2. CASE StartWake(p)
    BY <2>2 DEF StartWake, AwaitNoJoin, Block, Acquire, Release, Awake
  <2>3. CASE StartCheck(p)
    BY <2>3 DEF StartCheck, TakeWorker, Release
  <2>4. CASE StartFaultEval(p)
    BY <2>4 DEF StartFaultEval, Release
  <2>5. CASE StartFaultBlock(p)
    BY <2>5 DEF StartFaultBlock, Block, Release
  <2>6. CASE StartFaultWake(p)
    BY <2>6, Zenon DEF StartFaultWake, Acquire
  <2>7. CASE StartPublish(p) \/ StartFlags(p) \/ StartSpawnFails(p) \/ StartRollback(p)
    BY <2>7 DEF StartPublish, StartFlags, StartSpawnFails, StartRollback, RestoreGeneration
  <2>8. CASE StartSpawn(p)
    BY <2>8 DEF StartSpawn, Release
  <2>9. CASE StartRelatch(p)
    BY <2>9 DEF StartRelatch, Release
  <2>10. CASE StartJoin(p)
    BY <2>10 DEF StartJoin
  <2>11. CASE StartReap(p)
    BY <2>11, Zenon DEF StartReap
  <2>12. QED
    BY <1>2, <2>1, <2>2, <2>3, <2>4, <2>5, <2>6, <2>7, <2>8, <2>9, <2>10, <2>11, Zenon
       DEF StartStep
<1>3. ASSUME NEW p \in Threads, StopStep(p) PROVE OwnerInv'
  <2> USE <1>0 DEF Goto, lockVars, threadVars, runVars, history,
                   StartHolding, StopHolding, Publishing, Joining
  <2>1. CASE StopSignal(p)
    BY <2>1, Zenon DEF StopSignal, Acquire
  <2>2. CASE StopCommand(p)
    BY <2>2, Zenon DEF StopCommand
  <2>3. CASE StopDecide(p)
    BY <2>3 DEF StopDecide, Block, Release, TakeWorker, StopReturned, CalledFromWorker
  <2>4. CASE StopWake(p)
    BY <2>4, Zenon DEF StopWake, Block, Release, Awake
  <2>5. CASE StopJoin(p)
    BY <2>5, Zenon DEF StopJoin
  <2>6. CASE StopFinish(p)
    BY <2>6 DEF StopFinish, StopReturned
  <2>7. QED
    BY <1>3, <2>1, <2>2, <2>3, <2>4, <2>5, <2>6 DEF StopStep
<1>4. ASSUME NEW p \in Threads, QueryStep(p) \/ SpuriousWake(p) PROVE OwnerInv'
  <2> USE <1>0 DEF Goto, lockVars, threadVars, runVars, callVars, history,
                   StartHolding, StopHolding, Publishing, Joining
  <2>1. CASE Bias(p)
    BY <2>1, Zenon DEF Bias
  <2>2. CASE WaitCapture(p)
    BY <2>2, Zenon DEF WaitCapture
  <2>3. ASSUME NEW value \in BOOLEAN, WaitReturn(p, value) PROVE OwnerInv'
    BY <2>3, Zenon DEF WaitReturn
  <2>4. CASE SpuriousWake(p)
    BY <2>4 DEF SpuriousWake
  <2>5. QED
    BY <1>4, <2>1, <2>2, <2>3, <2>4, Zenon DEF QueryStep
<1>5. ASSUME RunStep PROVE OwnerInv'
  BY <1>5, RunStepFrame DEF callerSide, threadVars, callVars
<1>6. CASE UNCHANGED vars
  BY <1>6 DEF vars, lockVars, threadVars, callVars, runVars, history
<1>7. QED
  BY <1>1, <1>2, <1>3, <1>4, <1>5, <1>6, Zenon DEF Next, CallStep

(* The ownership invariant holds in every reachable state.                 *)
LEMMA OwnerInvariant == Spec => []OwnerInv
<1>1. Init => OwnerInv
  BY ThreadsDistinct DEF Init, OwnerInv, OneOwner, StopIsSynchronous,
     StartHolding, StopHolding, Publishing, Joining
<1>2. QED
  BY <1>1, OwnerStep, TypeCorrect, PTL DEF Spec

(* For any number of threads calling start() and stop() in any order, the  *)
(* worker thread is owned by worker_ or by the one call that joins it, so  *)
(* it is joined exactly once and never overwritten while joinable.         *)
THEOREM WorkerHasOneOwner == Spec => []OneOwner
  BY OwnerInvariant, PTL DEF OwnerInv

(* When an external stop() has returned, no worker of that run is alive,   *)
(* whatever other start(), stop() and callback calls were in flight.       *)
THEOREM StopJoins == Spec => []StopIsSynchronous
  BY OwnerInvariant, PTL DEF OwnerInv

(* While a start() publishes a run there is no worker, and no other call   *)
(* does the same: it holds lifecycle_mutex_.                               *)
LEMMA PublishingAlone ==
  ASSUME OwnerInv, NEW p \in Threads, pc[p] \in Publishing \cup {"start_publish"}
  PROVE  /\ run_pc = "none"
         /\ \A q \in Threads : pc[q] \in Publishing \cup {"start_publish"} => q = p
  BY ThreadsDistinct DEF OwnerInv, OneOwner, StartHolding, StopHolding, Publishing, Joining

-----------------------------------------------------------------------------
(* Streams and sockets.                                                    *)

(* Where run() has no socket: before it connects, and after it has closed. *)
Unconnected == {"none", "loop", "connecting", "discover", "connect", "decide",
                "backoff", "exit_store", "exit_state", "exit_notify", "done"}

(* NoStreamAfterStop, PromptStop and QuietAfterExit are not inductive:     *)
(* they rest on session_started_ being raised only over a socket and with  *)
(* stopping_ read under command_mutex_, so that whoever is stopped while   *)
(* it is receiving was stopped after that, and shutdown() reached the      *)
(* socket it receives from.                                                *)
StreamInv ==
  /\ run_pc \in Unconnected => ~socket_ /\ ~session_started_ /\ ~owes_stop
  /\ run_pc = "command" => socket_ /\ ~session_started_ /\ ~owes_stop
  /\ session_started_ => socket_
  /\ owes_stop => session_started_
  /\ stopping_ /\ (\A p \in Threads : pc[p] # "stop_command")
       => /\ ~session_started_
          /\ run_pc \in InSession \ {"close"} => shutdown_requested_

(* Every step of start(), stop(), bias() and the worker preserves it.      *)
LEMMA StreamStep ==
  TypeOK /\ OwnerInv /\ StreamInv /\ [Next]_vars => StreamInv'
<1> SUFFICES ASSUME TypeOK, OwnerInv, StreamInv, [Next]_vars PROVE StreamInv'
  OBVIOUS
<1> USE DEF StreamInv
<1>0. pc \in [Threads -> CallLabels]
  BY DEF TypeOK
<1>1. ASSUME NEW p \in Threads, Call(p) PROVE StreamInv'
  BY <1>0, <1>1 DEF Call, Begin, Goto, netVars, transportVars, flagVars, runVars
<1>2. ASSUME NEW p \in Threads, StartStep(p) PROVE StreamInv'
  <2> USE <1>0 DEF Goto, netVars, transportVars, flagVars, runVars, callFrame
  <2>1. CASE StartEnter(p) \/ StartWake(p)
    BY <2>1 DEF StartEnter, StartWake, AwaitNoJoin
  <2>2. CASE StartCheck(p) \/ StartFaultEval(p)
    BY <2>2 DEF StartCheck, StartFaultEval
  <2>3. CASE StartFaultBlock(p) \/ StartFaultWake(p) \/ StartReap(p) \/ StartRollback(p)
    BY <2>3 DEF StartFaultBlock, StartFaultWake, StartReap, StartRollback
  <2>4. CASE StartPublish(p) \/ StartRelatch(p)
    BY <2>4 DEF StartPublish, StartRelatch
  <2>5. CASE StartFlags(p) \/ StartSpawnFails(p)
    <3>1. run_pc = "none"
      BY <2>5, PublishingAlone DEF StartFlags, StartSpawnFails, Publishing
    <3>2. QED
      BY <2>5, <3>1 DEF StartFlags, StartSpawnFails, Unconnected, InSession
  <2>6. CASE StartSpawn(p)
    <3>1. run_pc = "none"
      BY <2>6, PublishingAlone, Zenon DEF StartSpawn, Publishing
    <3>2. QED
      BY <2>6, <3>1 DEF StartSpawn, Unconnected, InSession
  <2>7. CASE StartJoin(p)
    BY <2>7, Zenon DEF StartJoin, joinFrame, Unconnected, InSession
  <2>8. QED
    BY <1>2, <2>1, <2>2, <2>3, <2>4, <2>5, <2>6, <2>7, Zenon DEF StartStep
<1>3. ASSUME NEW p \in Threads, StopStep(p) PROVE StreamInv'
  <2> USE <1>0 DEF Goto, netVars, transportVars, flagVars, runVars, callFrame
  <2>1. CASE StopSignal(p)
    BY <2>1 DEF StopSignal
  <2>2. CASE StopCommand(p)
    BY <2>2, Zenon DEF StopCommand, StopStreaming, TransportShutdown
  <2>3. CASE StopDecide(p)
    BY <2>3, Zenon DEF StopDecide
  <2>4. CASE StopWake(p) \/ StopFinish(p)
    BY <2>4 DEF StopWake, StopFinish
  <2>5. CASE StopJoin(p)
    BY <2>5, Zenon DEF StopJoin, joinFrame, Unconnected, InSession
  <2>6. QED
    BY <1>3, <2>1, <2>2, <2>3, <2>4, <2>5 DEF StopStep
<1>4. ASSUME NEW p \in Threads, QueryStep(p) \/ SpuriousWake(p) PROVE StreamInv'
  <2> USE <1>0 DEF Goto, netVars, transportVars, flagVars, runVars, callVars, callFrame
  <2>1. CASE Bias(p)
    BY <2>1 DEF Bias, CanBias, CanSend
  <2>2. CASE WaitCapture(p)
    BY <2>2 DEF WaitCapture
  <2>3. CASE SpuriousWake(p)
    BY <2>3 DEF SpuriousWake
  <2>4. ASSUME NEW value \in BOOLEAN, WaitReturn(p, value) PROVE StreamInv'
    BY <2>4 DEF WaitReturn
  <2>5. QED
    BY <1>4, <2>1, <2>2, <2>3, <2>4 DEF QueryStep
<1>5. ASSUME RunStep PROVE StreamInv'
  <2> USE DEF EndSession, runFrame, quietFrame, callerSide, callVars, netVars,
              transportVars, Unconnected, InSession
  <2>1. CASE RunLoop \/ Connecting \/ Discover \/ Backoff
    BY <2>1 DEF RunLoop, Connecting, Discover, Backoff
  <2>2. CASE Connect
    BY <2>2 DEF Connect, TransportConnect
  <2>3. CASE StartRealtime
    BY <2>3 DEF StartRealtime, CanSend
  <2>4. CASE ReceiveLoop \/ ReceiveEnter \/ Receive
    BY <2>4 DEF ReceiveLoop, ReceiveEnter, Receive
  <2>5. CASE HandleRecord \/ CallbackReturns \/ CallbackThrows
    BY <2>5 DEF HandleRecord, CallbackReturns, CallbackThrows
  <2>6. CASE Delivered
    BY <2>6 DEF Delivered
  <2>7. CASE Close \/ FinishClose
    BY <2>7, Zenon DEF Close, FinishClose, CloseSession, StopStreaming, TransportClose
  <2>8. CASE Decide \/ Caught
    BY <2>8 DEF Decide, Caught, SetFault
  <2>9. CASE FinishStore \/ FinishState \/ FinishNotify
    BY <2>9 DEF FinishStore, FinishState, FinishNotify
  <2>10. QED
    BY <1>5, <2>1, <2>2, <2>3, <2>4, <2>5, <2>6, <2>7, <2>8, <2>9, Zenon DEF RunStep
<1>6. CASE UNCHANGED vars
  BY <1>6 DEF vars, flagVars, callVars, runVars, netVars, transportVars
<1>7. QED
  BY <1>1, <1>2, <1>3, <1>4, <1>5, <1>6, Zenon DEF Next, CallStep

(* The stream invariant holds in every reachable state.                    *)
LEMMA StreamInvariant == Spec => []StreamInv
<1>1. Init => StreamInv
  BY DEF Init, TransportInit, StreamInv, Unconnected, InSession
<1>2. QED
  BY <1>1, StreamStep, TypeCorrect, OwnerInvariant, PTL DEF Spec

(* For any number of threads: after stop() has sent its commands no stream *)
(* is running, however a connect, a bias() or a reconnect raced with it.   *)
THEOREM StopEndsStream == Spec => []NoStreamAfterStop
<1>1. StreamInv => NoStreamAfterStop
  BY DEF StreamInv, NoStreamAfterStop
<1>2. QED
  BY <1>1, StreamInvariant, PTL

(* A worker that polls while it is being stopped polls a socket that       *)
(* shutdown() has reached, never one that a later connect() made.          *)
THEOREM StopInterruptsReceive == Spec => []PromptStop
<1>1. StreamInv => PromptStop
  BY DEF StreamInv, PromptStop, InSession
<1>2. QED
  BY <1>1, StreamInvariant, PTL

(* On every path out of run(), the socket is closed and every stream that  *)
(* was started has been sent a StopStreaming.                              *)
THEOREM ExitLeavesNothing == Spec => []QuietAfterExit
<1>1. StreamInv => QuietAfterExit
  BY DEF StreamInv, QuietAfterExit, Unconnected
<1>2. QED
  BY <1>1, StreamInvariant, PTL

-----------------------------------------------------------------------------
(* Runs, faults and the contract.                                          *)

(* What the refinement needs besides the ownership of the worker: a fault  *)
(* is set aside only while start() publishes a run, a live run has none,   *)
(* and a session that ended "Stopped" was stopped.                         *)
ContractInv ==
  /\ \A p \in Threads : pc[p] \in Publishing => ~faulted_
  /\ \A p \in Threads : pc[p] = "start_spawn" => ~stopping_
  /\ previous.faulted => \E p \in Threads : pc[p] \in Publishing
  /\ Live => ~faulted_
  /\ run_pc \in {"none", "done"} => result = "None"
  /\ Live /\ result = "Stopped" => stopping_

(* Every step of start(), stop(), the queries and the worker preserves the *)
(* invariant of the refinement.                                            *)
LEMMA ContractStep ==
  TypeOK /\ OwnerInv /\ ContractInv /\ [Next]_vars => ContractInv'
<1> SUFFICES ASSUME TypeOK, OwnerInv, ContractInv, [Next]_vars PROVE ContractInv'
  OBVIOUS
<1> USE DEF ContractInv, Live
<1>0. /\ pc \in [Threads -> CallLabels]
      /\ previous \in [stopping : BOOLEAN, worker_exited : BOOLEAN,
                       faulted : BOOLEAN, state : States, generation : Nat,
                       delivered : Nat]
  BY Zenon DEF TypeOK
<1>1. ASSUME NEW p \in Threads, Call(p) PROVE ContractInv'
  BY <1>0, <1>1 DEF Call, Begin, Goto, Publishing, dataVars, flagVars, runVars
<1>2. ASSUME NEW p \in Threads, StartStep(p) PROVE ContractInv'
  <2> USE <1>0 DEF Goto, Publishing, flagVars, runVars, dataVars, callFrame
  <2>1. CASE StartEnter(p) \/ StartWake(p)
    BY <2>1 DEF StartEnter, StartWake, AwaitNoJoin
  <2>2. CASE StartCheck(p) \/ StartFaultEval(p)
    BY <2>2 DEF StartCheck, StartFaultEval
  <2>3. CASE StartFaultBlock(p) \/ StartFaultWake(p) \/ StartReap(p)
    BY <2>3 DEF StartFaultBlock, StartFaultWake, StartReap
  <2>4. CASE StartPublish(p)
    BY <2>4, PublishingAlone, Zenon DEF StartPublish
  <2>5. CASE StartFlags(p)
    BY <2>5, PublishingAlone, Zenon DEF StartFlags
  <2>6. CASE StartSpawn(p)
    BY <2>6, PublishingAlone, Zenon DEF StartSpawn, NoPrevious
  <2>7. CASE StartSpawnFails(p) \/ StartRollback(p)
    BY <2>7, PublishingAlone DEF StartSpawnFails, StartRollback
  <2>8. CASE StartRelatch(p)
    BY <2>8, PublishingAlone DEF StartRelatch, NoPrevious
  <2>9. CASE StartJoin(p)
    BY <2>9, Zenon DEF StartJoin, joinFrame
  <2>10. QED
    BY <1>2, <2>1, <2>2, <2>3, <2>4, <2>5, <2>6, <2>7, <2>8, <2>9, Zenon DEF StartStep
<1>3. ASSUME NEW p \in Threads, StopStep(p) PROVE ContractInv'
  <2> USE <1>0 DEF Goto, Publishing, flagVars, runVars, dataVars, callFrame
  <2>0. CASE StopSignal(p)
    <3>1. \A q \in Threads : pc[q] # "start_spawn"
      BY <2>0, ThreadsDistinct DEF StopSignal, Acquire, OwnerInv, StartHolding, StopHolding
    <3>2. QED
      BY <2>0, <3>1 DEF StopSignal
  <2>1. CASE StopCommand(p)
    BY <2>1, Zenon DEF StopCommand
  <2>2. CASE StopDecide(p)
    BY <2>2, Zenon DEF StopDecide
  <2>3. CASE StopWake(p) \/ StopFinish(p)
    BY <2>3 DEF StopWake, StopFinish
  <2>4. CASE StopJoin(p)
    BY <2>4, Zenon DEF StopJoin, joinFrame
  <2>5. QED
    BY <1>3, <2>0, <2>1, <2>2, <2>3, <2>4, Zenon DEF StopStep
<1>4. ASSUME NEW p \in Threads, QueryStep(p) \/ SpuriousWake(p) PROVE ContractInv'
  <2> USE <1>0 DEF Goto, Publishing, flagVars, runVars, callVars, dataVars,
                   callFrame
  <2>1. CASE Bias(p)
    BY <2>1, Zenon DEF Bias
  <2>2. CASE WaitCapture(p)
    BY <2>2, Zenon DEF WaitCapture
  <2>3. CASE SpuriousWake(p)
    BY <2>3, Zenon DEF SpuriousWake
  <2>4. ASSUME NEW value \in BOOLEAN, WaitReturn(p, value) PROVE ContractInv'
    BY <2>4 DEF WaitReturn
  <2>5. QED
    BY <1>4, <2>1, <2>2, <2>3, <2>4, Zenon DEF QueryStep
<1>5. ASSUME RunStep PROVE ContractInv'
  <2>0. \A p \in Threads : pc[p] \notin Publishing
    BY <1>5, RunStepFrame, PublishingAlone, Zenon
  <2> USE <2>0 DEF EndSession, Outcome, runFrame, quietFrame, callerSide, callVars,
                   dataVars
  <2>1. CASE RunLoop \/ Connecting \/ Discover \/ Connect \/ StartRealtime
    <3>1. CASE RunLoop
      BY <3>1, Zenon DEF RunLoop
    <3>2. CASE Connecting
      BY <3>2 DEF Connecting
    <3>3. CASE Discover
      BY <3>3 DEF Discover
    <3>4. CASE Connect
      BY <3>4 DEF Connect
    <3>5. CASE StartRealtime
      BY <3>5, Zenon DEF StartRealtime
    <3>6. QED
      BY <2>1, <3>1, <3>2, <3>3, <3>4, <3>5, Zenon
  <2>2. CASE ReceiveLoop \/ ReceiveEnter \/ Receive \/ HandleRecord
    BY <2>2, SMTT(30) DEF ReceiveLoop, ReceiveEnter, Receive, HandleRecord
  <2>3. CASE CallbackReturns \/ CallbackThrows \/ Delivered \/ Close \/ Backoff
    BY <2>3 DEF CallbackReturns, CallbackThrows, Delivered, Close, Backoff
  <2>4. CASE Decide \/ Caught
    BY <2>4 DEF Decide, Caught, SetFault, PublishFault
  <2>5. CASE FinishClose \/ FinishStore \/ FinishState \/ FinishNotify
    BY <2>5 DEF FinishClose, FinishStore, FinishState, FinishNotify
  <2>6. QED
    BY <1>5, <2>1, <2>2, <2>3, <2>4, <2>5, Zenon DEF RunStep
<1>6. CASE UNCHANGED vars
  BY <1>6, Zenon DEF vars, flagVars, callVars, runVars, dataVars
<1>7. QED
  BY <1>1, <1>2, <1>3, <1>4, <1>5, <1>6, Zenon DEF Next, CallStep

(* The invariant of the refinement holds in every reachable state.         *)
LEMMA ContractInvariant == Spec => []ContractInv
<1>1. Init => ContractInv
  BY SMTT(30) DEF Init, NoPrevious, ContractInv, Live, Publishing
<1>2. QED
  BY <1>1, ContractStep, TypeCorrect, OwnerInvariant, PTL DEF Spec

(* Every step of the client is a step of the contract or leaves what the   *)
(* contract speaks of unchanged.                                           *)
LEMMA RefinementStep ==
  TypeOK /\ OwnerInv /\ ContractInv /\ [Next]_vars
    => [Contract!ContractNext]_(Contract!contractVars)
<1> SUFFICES ASSUME TypeOK, OwnerInv, ContractInv, [Next]_vars
             PROVE  [Contract!ContractNext]_(Contract!contractVars)
  OBVIOUS
<1> USE DEF Contract!contractVars
<1>0. /\ previous \in [stopping : BOOLEAN, worker_exited : BOOLEAN,
                       faulted : BOOLEAN, state : States, generation : Nat,
                       delivered : Nat]
      /\ faulted_ \in BOOLEAN
      /\ ContractInv
  BY DEF TypeOK
<1>1. ASSUME NEW p \in Threads, Call(p) PROVE UNCHANGED Contract!contractVars
  BY <1>1 DEF Call, Begin, Live, dataVars, flagVars, runVars, history
<1>2. ASSUME NEW p \in Threads, StartStep(p)
      PROVE  [Contract!ContractNext]_(Contract!contractVars)
  <2> USE DEF Live, flagVars, runVars, dataVars, callFrame, history
  <2>1. CASE StartEnter(p) \/ StartWake(p) \/ StartCheck(p) \/ StartFaultEval(p)
             \/ StartFaultBlock(p) \/ StartFaultWake(p) \/ StartReap(p)
    <3>1. CASE StartEnter(p) \/ StartWake(p)
      BY <3>1 DEF StartEnter, StartWake
    <3>2. CASE StartCheck(p) \/ StartFaultEval(p)
      BY <3>2 DEF StartCheck, StartFaultEval
    <3>3. CASE StartFaultBlock(p) \/ StartFaultWake(p) \/ StartReap(p)
      BY <3>3 DEF StartFaultBlock, StartFaultWake, StartReap
    <3>4. QED
      BY <2>1, <3>1, <3>2, <3>3, Zenon
  <2>2. CASE StartPublish(p)
    <3>1. run_pc = "none" /\ ~previous.faulted
      BY <2>2, <1>0, PublishingAlone DEF StartPublish, ContractInv, Publishing
    <3>2. faulted_' = FALSE /\ previous'.faulted = faulted_
      BY <2>2, Zenon DEF StartPublish, Previous
    <3>3. QED
      BY <1>0, <2>2, <3>1, <3>2, Zenon DEF StartPublish
  <2>3. CASE StartFlags(p) \/ StartSpawnFails(p) \/ StartRollback(p)
    <3>1. run_pc = "none"
      BY <2>3, PublishingAlone, Zenon
         DEF StartFlags, StartSpawnFails, StartRollback, Publishing
    <3>2. QED
      BY <2>3, <3>1 DEF StartFlags, StartSpawnFails, StartRollback
  <2>4. CASE StartSpawn(p)
    <3>1. run_pc = "none" /\ ~faulted_ /\ ~stopping_
      BY <2>4, <1>0, PublishingAlone, Zenon DEF StartSpawn, ContractInv, Publishing
    <3>2. QED
      BY <2>4, <3>1 DEF StartSpawn, NoPrevious, Contract!ContractNext, Contract!Begin
  <2>5. CASE StartRelatch(p)
    <3>1. run_pc = "none" /\ ~faulted_
      BY <2>5, <1>0, PublishingAlone DEF StartRelatch, ContractInv, Publishing
    <3>2. QED
      BY <1>0, <2>5, <3>1, Zenon DEF StartRelatch, NoPrevious
  <2>6. CASE StartJoin(p)
    BY <2>6, Zenon DEF StartJoin, joinFrame
  <2>7. QED
    BY <1>2, <2>1, <2>2, <2>3, <2>4, <2>5, <2>6, Zenon DEF StartStep
<1>3. ASSUME NEW p \in Threads, StopStep(p)
      PROVE  [Contract!ContractNext]_(Contract!contractVars)
  <2> USE DEF Live, flagVars, runVars, dataVars, callFrame, history
  <2>1. CASE StopSignal(p)
    BY <2>1, Zenon DEF StopSignal, Contract!ContractNext, Contract!RequestStop
  <2>2. CASE StopCommand(p) \/ StopDecide(p) \/ StopWake(p) \/ StopFinish(p)
    <3>1. CASE StopCommand(p)
      BY <3>1 DEF StopCommand
    <3>2. CASE StopDecide(p)
      BY <3>2 DEF StopDecide
    <3>3. CASE StopWake(p) \/ StopFinish(p)
      BY <3>3 DEF StopWake, StopFinish
    <3> QED BY <2>2, <3>1, <3>2, <3>3, Zenon
  <2>3. CASE StopJoin(p)
    BY <2>3, Zenon DEF StopJoin, joinFrame
  <2>4. QED
    BY <1>3, <2>1, <2>2, <2>3, Zenon DEF StopStep
<1>4. ASSUME NEW p \in Threads, QueryStep(p) \/ SpuriousWake(p)
      PROVE  UNCHANGED Contract!contractVars
  <2> USE DEF Live, flagVars, runVars, callVars, dataVars, callFrame, history
  <2>1. CASE Bias(p)
    BY <2>1, Zenon DEF Bias
  <2>2. CASE WaitCapture(p)
    BY <2>2 DEF WaitCapture
  <2>3. CASE SpuriousWake(p)
    BY <2>3, Zenon DEF SpuriousWake
  <2>4. ASSUME NEW value \in BOOLEAN, WaitReturn(p, value)
        PROVE  UNCHANGED Contract!contractVars
    BY <2>4 DEF WaitReturn
  <2>5. QED
    BY <1>4, <2>1, <2>2, <2>3, <2>4, Zenon DEF QueryStep
<1>5. ASSUME RunStep PROVE [Contract!ContractNext]_(Contract!contractVars)
  <2> USE DEF Live, EndSession, Outcome, runFrame, quietFrame, callerSide, callVars,
              dataVars
  <2>1. CASE RunLoop
    BY <1>0, <2>1, Zenon DEF RunLoop, ContractInv, Contract!ContractNext, Contract!End
  <2>2. CASE Connecting \/ Discover \/ Connect \/ StartRealtime
    <3>1. CASE Connecting \/ Discover
      BY <3>1 DEF Connecting, Discover
    <3>2. CASE Connect
      BY <3>2 DEF Connect
    <3>3. CASE StartRealtime
      BY <3>3, Zenon DEF StartRealtime
    <3>4. QED
      BY <2>2, <3>1, <3>2, <3>3, Zenon
  <2>3. CASE ReceiveLoop \/ ReceiveEnter \/ Receive \/ HandleRecord
    BY <2>3 DEF ReceiveLoop, ReceiveEnter, Receive, HandleRecord
  <2>4. CASE CallbackReturns \/ CallbackThrows \/ Close \/ Backoff
    BY <2>4 DEF CallbackReturns, CallbackThrows, Close, Backoff
  <2>5. CASE Delivered
    BY <2>5, Zenon DEF Delivered, Contract!ContractNext, Contract!Deliver
  <2>6. CASE Decide
    BY <1>0, <2>6, Zenon DEF Decide, SetFault, PublishFault, ContractInv,
       Contract!ContractNext, Contract!End, Contract!Fault
  <2>7. CASE Caught
    BY <2>7 DEF Caught, SetFault, PublishFault, Contract!ContractNext, Contract!End,
       Contract!Fault
  <2>8. CASE FinishClose \/ FinishStore \/ FinishState \/ FinishNotify
    BY <2>8 DEF FinishClose, FinishStore, FinishState, FinishNotify
  <2>9. QED
    BY <1>5, <2>1, <2>2, <2>3, <2>4, <2>5, <2>6, <2>7, <2>8, Zenon DEF RunStep
<1>6. CASE UNCHANGED vars
  BY <1>6 DEF vars, Live, flagVars, callVars, runVars, dataVars, history
<1>7. QED
  BY <1>1, <1>2, <1>3, <1>4, <1>5, <1>6 DEF Next, CallStep

(* For any number of threads and calls, the client implements CoreContract:*)
(* runs never overlap, every run ends stopped or with its fault latched,   *)
(* delivers only while live, and only a new run clears the latch.          *)
THEOREM ClientImplementsContract == Spec => ImplementsContract
<1>1. Init => Contract!ContractInit
  BY DEF Init, NoPrevious, Live, Contract!ContractInit
<1>2. QED
  BY <1>1, ContractInvariant, RefinementStep, TypeCorrect, OwnerInvariant, PTL
     DEF Spec, ImplementsContract, Contract!ContractSpec

-----------------------------------------------------------------------------
(* Health and the fault latch.                                             *)

(* HealthCoherent needs to know that what start() set aside was coherent,  *)
(* and that nobody touches the state between the two halves of a rollback. *)
HealthInv ==
  /\ HealthCoherent
  /\ previous.state = "Faulted" <=> previous.faulted
  /\ \A p \in Threads : pc[p] = "start_relatch" => state_ = previous.state

(* Every step of start(), stop() and the worker preserves it.              *)
LEMMA HealthStep ==
  TypeOK /\ OwnerInv /\ ContractInv /\ HealthInv /\ [Next]_vars => HealthInv'
<1> SUFFICES ASSUME TypeOK, OwnerInv, ContractInv, HealthInv, [Next]_vars
             PROVE  HealthInv'
  OBVIOUS
<1> USE DEF HealthInv, HealthCoherent
<1>0. /\ pc \in [Threads -> CallLabels]
      /\ previous \in [stopping : BOOLEAN, worker_exited : BOOLEAN,
                       faulted : BOOLEAN, state : States, generation : Nat,
                       delivered : Nat]
  BY DEF TypeOK
<1>1. ASSUME NEW p \in Threads, Call(p) PROVE HealthInv'
  BY <1>0, <1>1 DEF Call, Begin, Goto, dataVars
<1>2. ASSUME NEW p \in Threads, StartStep(p) PROVE HealthInv'
  <2> USE <1>0 DEF Goto, dataVars, callFrame
  <2>1. CASE StartEnter(p) \/ StartWake(p)
    BY <2>1 DEF StartEnter, StartWake, AwaitNoJoin
  <2>2. CASE StartCheck(p) \/ StartFaultEval(p)
    BY <2>2 DEF StartCheck, StartFaultEval
  <2>3. CASE StartFaultBlock(p) \/ StartFaultWake(p) \/ StartReap(p)
    BY <2>3 DEF StartFaultBlock, StartFaultWake, StartReap
  <2>4. CASE StartPublish(p)
    <3>1. \A q \in Threads : pc[q] # "start_relatch"
      BY <2>4, PublishingAlone, Zenon DEF StartPublish, Publishing
    <3>2. previous'.state = state_ /\ previous'.faulted = faulted_
      BY <2>4, Zenon DEF StartPublish, Previous
    <3>3. QED
      BY <2>4, <3>1, <3>2, Zenon DEF StartPublish
  <2>5. CASE StartFlags(p) \/ StartSpawnFails(p)
    BY <2>5 DEF StartFlags, StartSpawnFails
  <2>6. CASE StartSpawn(p)
    <3>1. \A q \in Threads : pc[q] # "start_relatch"
      BY <2>6, PublishingAlone, Zenon DEF StartSpawn, Publishing
    <3>2. QED
      BY <2>6, <3>1, Zenon DEF StartSpawn, NoPrevious
  <2>7. CASE StartRollback(p)
    <3>1. \A q \in Threads : pc[q] # "start_relatch"
      BY <2>7, PublishingAlone, Zenon DEF StartRollback, Publishing
    <3>2. QED
      BY <2>7, <3>1, Zenon DEF StartRollback
  <2>8. CASE StartRelatch(p)
    <3>1. \A q \in Threads : pc[q] = "start_relatch" => q = p
      BY <2>8, PublishingAlone, Zenon DEF StartRelatch, Publishing
    <3>2. QED
      BY <2>8, <3>1, Zenon DEF StartRelatch, NoPrevious
  <2>9. CASE StartJoin(p)
    BY <2>9, Zenon DEF StartJoin, joinFrame
  <2>10. QED
    BY <1>2, <2>1, <2>2, <2>3, <2>4, <2>5, <2>6, <2>7, <2>8, <2>9, Zenon DEF StartStep
<1>3. ASSUME NEW p \in Threads, StopStep(p) PROVE HealthInv'
  <2> USE <1>0 DEF Goto, dataVars, callFrame
  <2>1. CASE StopSignal(p) \/ StopCommand(p)
    BY <2>1 DEF StopSignal, StopCommand
  <2>2. CASE StopDecide(p) \/ StopFinish(p)
    <3>1. \A q \in Threads : pc[q] # "start_relatch"
      BY <2>2, ThreadsDistinct, Zenon
         DEF StopDecide, StopFinish, OwnerInv, StartHolding, StopHolding
    <3>2. QED
      BY <2>2, <3>1 DEF StopDecide, StopFinish, SetStoppedUnlessFaulted
  <2>3. CASE StopWake(p)
    BY <2>3, Zenon DEF StopWake
  <2>4. CASE StopJoin(p)
    BY <2>4, Zenon DEF StopJoin, joinFrame
  <2>5. QED
    BY <1>3, <2>1, <2>2, <2>3, <2>4, Zenon DEF StopStep
<1>4. ASSUME NEW p \in Threads, QueryStep(p) \/ SpuriousWake(p) PROVE HealthInv'
  <2> USE <1>0 DEF Goto, callVars, dataVars, callFrame
  <2>1. CASE Bias(p)
    BY <2>1, Zenon DEF Bias
  <2>2. CASE WaitCapture(p)
    BY <2>2, Zenon DEF WaitCapture
  <2>3. CASE SpuriousWake(p)
    BY <2>3, Zenon DEF SpuriousWake
  <2>4. ASSUME NEW value \in BOOLEAN, WaitReturn(p, value) PROVE HealthInv'
    BY <2>4 DEF WaitReturn
  <2>5. QED
    BY <1>4, <2>1, <2>2, <2>3, <2>4, Zenon DEF QueryStep
<1>5. ASSUME RunStep PROVE HealthInv'
  <2>0. \A p \in Threads : pc[p] # "start_relatch"
    BY <1>5, RunStepFrame, PublishingAlone DEF Publishing
  <2>a. Live => ~faulted_
    BY DEF ContractInv
  <2>b. ASSUME UNCHANGED <<state_, faulted_, previous, pc>> PROVE HealthInv'
    BY <2>0, <2>b
  <2> USE <2>0 DEF EndSession, runFrame, quietFrame, callerSide, callVars, dataVars
  <2>1. CASE RunLoop \/ Discover \/ Connect \/ StartRealtime \/ Backoff
    BY <2>1, <2>b, Zenon DEF RunLoop, Discover, Connect, StartRealtime, Backoff
  <2>2. CASE Connecting \/ HandleRecord
    BY <2>2, <2>a DEF Connecting, HandleRecord, Live
  <2>3. CASE ReceiveLoop \/ ReceiveEnter \/ Receive
    BY <2>3, <2>b, Zenon DEF ReceiveLoop, ReceiveEnter, Receive
  <2>4. CASE CallbackReturns \/ CallbackThrows \/ Delivered \/ Close
    BY <2>4, <2>b DEF CallbackReturns, CallbackThrows, Delivered, Close
  <2>5. CASE Decide \/ Caught
    <3>1. /\ previous' = previous /\ pc' = pc
          /\ ~faulted_
      BY <2>5, <2>a, Zenon DEF Decide, Caught, Live
    <3>2. \/ faulted_' = TRUE /\ state_' = "Faulted"
          \/ UNCHANGED <<faulted_, state_>>
          \/ UNCHANGED faulted_ /\ state_' = "Backoff"
      BY <2>5, <3>1, Zenon DEF Decide, Caught, SetFault, PublishFault
    <3>3. QED
      BY <3>1, <3>2
  <2>6. CASE FinishClose \/ FinishStore \/ FinishState \/ FinishNotify
    BY <2>6 DEF FinishClose, FinishStore, FinishState, FinishNotify, SetStoppedUnlessFaulted
  <2>7. QED
    BY <1>5, <2>1, <2>2, <2>3, <2>4, <2>5, <2>6, Zenon DEF RunStep
<1>6. CASE UNCHANGED vars
  BY <1>6 DEF vars, callVars, dataVars
<1>7. QED
  BY <1>1, <1>2, <1>3, <1>4, <1>5, <1>6, Zenon DEF Next, CallStep

(* For any number of threads, health() shows a faulted state exactly when  *)
(* a fault code is latched, but for the rollback of a start() that could   *)
(* not create its thread.                                                  *)
THEOREM HealthMatchesLatch == Spec => []HealthCoherent
<1>1. Init => HealthInv
  BY DEF Init, NoPrevious, HealthInv, HealthCoherent
<1>2. HealthInv => HealthCoherent
  BY DEF HealthInv
<1>3. QED
  BY <1>1, <1>2, HealthStep, TypeCorrect, OwnerInvariant, ContractInvariant, PTL DEF Spec

-----------------------------------------------------------------------------
(* wait_for_first_sample().                                                *)

(* A generation that has delivered is the current run's, also the one that *)
(* a start() has set aside, and while start() publishes a run its          *)
(* generation has delivered nothing yet.                                   *)
FirstSampleInv ==
  /\ delivered_generation_ = generation_ /\ generation_ # 0 => delivered_run = runs
  /\ previous.delivered = previous.generation /\ previous.generation # 0
       => delivered_run = runs
  /\ previous.generation # 0 => \E p \in Threads : pc[p] \in Publishing
  /\ \A p \in Threads :
       /\ pc[p] \in {"start_flags", "start_spawn", "start_rollback"}
            => generation_ # 0 /\ delivered_generation_ = 0
       /\ pc[p] = "waiting" => captured[p] # 0

(* Every step of start(), the wait and the worker preserves it.            *)
LEMMA FirstSampleStep ==
  TypeOK /\ OwnerInv /\ FirstSampleInv /\ [Next]_vars => FirstSampleInv'
<1> SUFFICES ASSUME TypeOK, OwnerInv, FirstSampleInv, [Next]_vars
             PROVE  FirstSampleInv'
  OBVIOUS
<1> USE DEF FirstSampleInv
<1>0. /\ pc \in [Threads -> CallLabels]
      /\ captured \in [Threads -> Nat]
      /\ generation_ \in Nat
      /\ previous \in [stopping : BOOLEAN, worker_exited : BOOLEAN,
                       faulted : BOOLEAN, state : States, generation : Nat,
                       delivered : Nat]
  BY Zenon DEF TypeOK
<1>1. ASSUME NEW p \in Threads, Call(p) PROVE FirstSampleInv'
  BY <1>0, <1>1 DEF Call, Begin, Goto, Publishing, dataVars, genVars, history
<1>2. ASSUME NEW p \in Threads, StartStep(p) PROVE FirstSampleInv'
  <2> USE <1>0 DEF Goto, Publishing, dataVars, genVars, callFrame, history
  <2>1. CASE StartEnter(p) \/ StartWake(p)
    BY <2>1, Zenon DEF StartEnter, StartWake, AwaitNoJoin
  <2>2. CASE StartCheck(p) \/ StartFaultEval(p)
    BY <2>2, Zenon DEF StartCheck, StartFaultEval
  <2>3. CASE StartFaultBlock(p) \/ StartFaultWake(p) \/ StartReap(p)
    BY <2>3, Zenon DEF StartFaultBlock, StartFaultWake, StartReap
  <2>4. CASE StartPublish(p)
    <3>1. previous'.generation = generation_ /\ previous'.delivered = delivered_generation_
      BY <2>4, Zenon DEF StartPublish, Previous
    <3>2. QED
      BY <2>4, <3>1 DEF StartPublish
  <2>5. CASE StartFlags(p) \/ StartSpawnFails(p)
    BY <2>5, Zenon DEF StartFlags, StartSpawnFails
  <2>6. CASE StartSpawn(p)
    BY <2>6, PublishingAlone, Zenon DEF StartSpawn, NoPrevious
  <2>7. CASE StartRollback(p)
    BY <2>7, PublishingAlone, Zenon DEF StartRollback, RestoreGeneration
  <2>8. CASE StartRelatch(p)
    BY <2>8, Zenon DEF StartRelatch, NoPrevious
  <2>9. CASE StartJoin(p)
    BY <2>9 DEF StartJoin, joinFrame
  <2>10. QED
    BY <1>2, <2>1, <2>2, <2>3, <2>4, <2>5, <2>6, <2>7, <2>8, <2>9, Zenon DEF StartStep
<1>3. ASSUME NEW p \in Threads, StopStep(p) PROVE FirstSampleInv'
  <2> USE <1>0 DEF Goto, Publishing, dataVars, genVars, callFrame, history
  <2>1. CASE StopSignal(p) \/ StopCommand(p)
    BY <2>1, Zenon DEF StopSignal, StopCommand
  <2>2. CASE StopDecide(p)
    BY <2>2, Zenon DEF StopDecide
  <2>3. CASE StopWake(p) \/ StopFinish(p)
    BY <2>3, Zenon DEF StopWake, StopFinish
  <2>4. CASE StopJoin(p)
    BY <2>4 DEF StopJoin, joinFrame
  <2>5. QED
    BY <1>3, <2>1, <2>2, <2>3, <2>4, Zenon DEF StopStep
<1>4. ASSUME NEW p \in Threads, QueryStep(p) \/ SpuriousWake(p) PROVE FirstSampleInv'
  <2> USE <1>0 DEF Goto, Publishing, callVars, dataVars, genVars, callFrame, history
  <2>1. CASE Bias(p)
    BY <2>1, Zenon DEF Bias
  <2>2. CASE WaitCapture(p)
    BY <2>2, Zenon DEF WaitCapture
  <2>3. CASE SpuriousWake(p)
    BY <2>3, Zenon DEF SpuriousWake
  <2>4. ASSUME NEW value \in BOOLEAN, WaitReturn(p, value) PROVE FirstSampleInv'
    BY <2>4 DEF WaitReturn
  <2>5. QED
    BY <1>4, <2>1, <2>2, <2>3, <2>4, Zenon DEF QueryStep
<1>5. ASSUME RunStep PROVE FirstSampleInv'
  <2>0. UNCHANGED callerSide /\ \A p \in Threads : pc[p] \notin Publishing
    BY <1>5, RunStepFrame, PublishingAlone, Zenon
  <2>1. CASE Delivered
    BY <2>0, <2>1, Zenon DEF Delivered, callerSide, callVars, Publishing
  <2>2. ASSUME UNCHANGED <<genVars, delivered_run>> PROVE FirstSampleInv'
    BY <2>0, <2>2, Zenon DEF callerSide, callVars, genVars, Publishing
  <2> USE DEF EndSession, runFrame, quietFrame, dataVars
  <2>3. CASE RunLoop \/ Connecting \/ Discover \/ Connect \/ StartRealtime
    BY <2>2, <2>3, Zenon DEF RunLoop, Connecting, Discover, Connect, StartRealtime
  <2>4. CASE ReceiveLoop \/ ReceiveEnter \/ Receive \/ HandleRecord
    BY <2>2, <2>4, Zenon DEF ReceiveLoop, ReceiveEnter, Receive, HandleRecord
  <2>5. CASE CallbackReturns \/ CallbackThrows \/ Close \/ Backoff
    BY <2>2, <2>5, Zenon DEF CallbackReturns, CallbackThrows, Close, Backoff
  <2>6. CASE Decide \/ Caught
    BY <2>2, <2>6, Zenon DEF Decide, Caught, SetFault, PublishFault
  <2>7. CASE FinishClose \/ FinishStore \/ FinishState \/ FinishNotify
    BY <2>2, <2>7, Zenon DEF FinishClose, FinishStore, FinishState, FinishNotify
  <2>8. QED
    BY <1>5, <2>1, <2>3, <2>4, <2>5, <2>6, <2>7, Zenon DEF RunStep
<1>6. CASE UNCHANGED vars
  BY <1>6, Zenon DEF vars, callVars, dataVars, genVars, history, Publishing
<1>7. QED
  BY <1>1, <1>2, <1>3, <1>4, <1>5, <1>6, Zenon DEF Next, CallStep

(* For any number of restarts, concurrent or not, a TRUE answer of         *)
(* wait_for_first_sample() is about the run that is current when it is     *)
(* given.                                                                  *)
THEOREM WaitTellsTheTruth == Spec => WaitTruthful
<1>1. Init => FirstSampleInv
  BY DEF Init, NoPrevious, FirstSampleInv, Publishing
<1>2. Spec => []FirstSampleInv
  BY <1>1, FirstSampleStep, TypeCorrect, OwnerInvariant, PTL DEF Spec
<1>3. FirstSampleInv => \A p \in Threads : WaitReturn(p, TRUE) => delivered_run = runs
  BY DEF FirstSampleInv, WaitReturn, FirstSampleArrived
<1>4. FirstSampleInv /\ [Next]_vars
        => [\A p \in Threads : WaitReturn(p, TRUE) => delivered_run = runs]_vars
  BY <1>3, Zenon
<1>5. QED
  BY <1>2, <1>4, PTL DEF Spec, WaitTruthful
=============================================================================
