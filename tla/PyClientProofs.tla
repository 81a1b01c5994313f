---------------------------- MODULE PyClientProofs ----------------------------
(***************************************************************************)
(* Proofs about the Python client for any number of application threads,   *)
(* runs, calls and samples, and any queue capacity: what _lock protects    *)
(* while it is held across native.start() and native.stop(), and what a    *)
(* consumer that reads without it can rely on.                             *)
(***************************************************************************)
EXTENDS PyClient, TLAPS

-----------------------------------------------------------------------------
(* Where a thread can be.                                                  *)

Reading  == {"read", "read_guard", "read_wait", "read_again", "read_done"}
Resting  == {"native_start", "native_reset", "native_spawn", "start_failed"}
Starting == {"native_running", "start_commit"} \cup Resting
Stopping == {"native_stop", "native_stop_core"}
Locked   == Starting \cup Stopping       \* a thread here holds _lock

AppLabels == {"idle", "start", "start_join", "failed_join", "stop", "stop_join", "wait",
              "waiting", "samples", "next", "closed"} \cup Reading \cup Locked

DispatcherLabels == {"new", "await", "check", "callback", "record_error", "closed",
                     "finish", "done", "stop", "stop_join"} \cup Reading \cup Stopping

AppThen        == {"idle", "stop_join", "failed_join"}
DispatcherThen == {"callback", "stop_join", "finish"}

LabelInv ==
  /\ pc \in [Threads -> AppLabels \cup DispatcherLabels]
  /\ \A p \in Apps : pc[p] \in AppLabels
  /\ \A d \in Dispatchers : pc[d] \in DispatcherLabels
  /\ \A t \in Threads : pc[t] \in Stopping =>
       then \in IF t \in Apps THEN AppThen ELSE DispatcherThen

(* What native.read() returns; to a dispatcher it never says Timeout.      *)
Result == [status : {"none", "Sample", "Closed", "Timeout"}, sample : Nat]

ResultInv ==
  /\ result \in [Threads -> Result]
  /\ \A d \in Dispatchers : pc[d] = "read_done" => result[d].status \in {"Sample", "Closed"}

(* The thread at one of the labels above is the one that holds _lock.      *)
HolderInv ==
  /\ _lock \in Threads \cup {None}
  /\ \A t \in Threads : pc[t] \in Locked <=> _lock = t

(* While a run is current the lock is free and the native client delivers; *)
(* otherwise it rests, but for the steps of the start() or stop() under    *)
(* way.                                                                    *)
PhaseInv ==
  /\ _running => Free /\ running_ /\ core_live /\ ~closed_
  /\ _running => _mode \in {"iterator", "callback"}
  /\ Free /\ ~_running => ~running_ /\ ~core_live
  /\ \A t \in Threads :
       /\ pc[t] \in Resting => ~running_ /\ ~core_live
       /\ pc[t] \in {"native_spawn", "native_running", "start_commit"} => ~closed_
       /\ pc[t] \in {"native_running", "start_commit"} => core_live
       /\ pc[t] = "start_commit" => running_
       /\ pc[t] = "native_stop_core" => ~running_
       /\ pc[t] = "native_spawn" => samples_ = <<>>

(* The token of the last run is the number of the core's, and an open      *)
(* queue holds samples of the core's last run only.                        *)
TokenInv ==
  /\ _run_token \in Nat /\ core_run \in Nat /\ objects \in 0 .. MaxRuns
  /\ samples_ \in Seq(Nat)
  /\ \A t \in Threads : pc[t] \in {"native_running", "start_commit"} =>
       core_run = _run_token + 1
  /\ (\A t \in Threads : pc[t] \notin {"native_running", "start_commit"}) =>
       core_run = _run_token
  /\ ~closed_ => \A i \in 1 .. Len(samples_) : samples_[i] = core_run

LockInv == LabelInv /\ ResultInv /\ HolderInv /\ PhaseInv /\ TokenInv

-----------------------------------------------------------------------------
(* The steps of a thread that neither holds _lock nor takes it.            *)

lockedVars == <<_lock, _running, then, running_, core_live, core_faulted, core_run,
                closed_, close_generation_, _run_token, _callback_run, objects>>

QuietMove(t) ==
  /\ UNCHANGED lockedVars
  /\ pc[t] \notin Locked
  /\ \E label : /\ Goto(t, label)
                /\ label \notin Locked
                /\ t \in Apps => label \in AppLabels
                /\ t \in Dispatchers => label \in DispatcherLabels
                /\ \/ UNCHANGED result /\ label # "read_done"
                   \/ /\ \E r \in Result : result' = [result EXCEPT ![t] = r]
                      /\ t \in Dispatchers /\ label = "read_done" =>
                           result'[t].status \in {"Sample", "Closed"}
  /\ UNCHANGED _mode \/ (_mode # "callback" /\ _mode' = "iterator")
  /\ UNCHANGED samples_ \/ (samples_ # <<>> /\ samples_' = Tail(samples_))

(* The steps that take _lock, are under it, or release it.                 *)
Takes(t) ==
  \/ t \in Apps /\ Start(t) /\ _lock' = t
  \/ Stop(t) /\ _running
  \/ t \in Apps /\ IterClosed(t) /\ IteratorIsCurrent(iter[t]) /\ core_faulted
  \/ t \in Dispatchers /\ RecordError(t) /\ CallbackRunIsCurrent(t)
  \/ t \in Dispatchers /\ FinishCallbackClosed(t) /\ CallbackRunIsCurrent(t)

LockStep(t) ==
  \/ Takes(t) /\ UNCHANGED <<nativeVars, result, calls>>
  \/ /\ \/ NativeStart(t) \/ NativeReset(t) \/ NativeSpawn(t) \/ NativeSpawnFails(t)
        \/ NativeRunning(t) \/ NativeStop(t)
     /\ UNCHANGED pyVars
  \/ t \in Apps /\ StartCommit(t) /\ UNCHANGED <<nativeVars, result, calls>>
  \/ t \in Apps /\ StartFailed(t) /\ UNCHANGED <<nativeVars, result, calls>>
  \/ StopLockedEnds(t)

(* A thread's step is of one kind or the other.                            *)
LEMMA StepKinds ==
  ASSUME LockInv, NEW t \in Threads, Call(t) \/ ThreadStep(t)
  PROVE  QuietMove(t) \/ LockStep(t)
<1> DEFINE labels == AppLabels \cup DispatcherLabels
<1>t. /\ t \in Apps \/ t \in Dispatchers
      /\ t \in Apps => pc[t] \in AppLabels
      /\ t \in Dispatchers => pc[t] \in DispatcherLabels
      /\ ~(t \in Apps /\ t \in Dispatchers)
  BY ThreadsApart DEF LockInv, LabelInv, Threads
<1>m. ASSUME UNCHANGED <<lockVars, running_, coreVars, closed_, close_generation_,
                          _run_token, _callback_run, objects, _mode, samples_, result>>,
             NEW label, Goto(t, label), label \notin Locked \cup {"read_done"},
             pc[t] \notin Locked,
             /\ t \in Apps => label \in AppLabels
             /\ t \in Dispatchers => label \in DispatcherLabels
      PROVE  QuietMove(t)
  BY <1>m, Zenon DEF QuietMove, lockedVars, lockVars, coreVars
<1>r. ASSUME UNCHANGED <<lockVars, running_, coreVars, closed_, close_generation_,
                          _run_token, _callback_run, objects, _mode>>,
             UNCHANGED samples_ \/ (samples_ # <<>> /\ samples_' = Tail(samples_)),
             pc[t] \in Reading,
             NEW status \in {"Sample", "Closed", "Timeout"}, NEW sample \in Nat,
             status = "Timeout" => t \in Apps,
             ReadReturns(t, status, sample)
      PROVE  QuietMove(t)
  <2>1. [status |-> status, sample |-> sample] \in Result
    BY DEF Result
  <2>2. result' = [result EXCEPT ![t] = [status |-> status, sample |-> sample]]
    BY <1>r, Zenon DEF ReadReturns
  <2>3. t \in Dispatchers => result'[t].status \in {"Sample", "Closed"}
    BY <1>r, <1>t, <2>2 DEF LockInv, ResultInv
  <2>4. /\ "read_done" \in AppLabels /\ "read_done" \in DispatcherLabels
        /\ "read_done" \notin Locked /\ pc[t] \notin Locked
    BY <1>r DEF AppLabels, DispatcherLabels, Reading, Locked, Starting, Stopping, Resting
  <2> QED BY <1>r, <2>1, <2>2, <2>3, <2>4, Zenon
          DEF QuietMove, lockedVars, lockVars, coreVars, ReadReturns
<1>l. /\ Reading \subseteq AppLabels \cap DispatcherLabels
      /\ {"idle", "start", "start_join", "stop", "stop_join", "wait", "waiting", "samples",
          "next", "closed"} \subseteq AppLabels
      /\ {"check", "callback", "record_error", "closed", "finish", "done", "stop",
          "stop_join"} \subseteq DispatcherLabels
  BY DEF AppLabels, DispatcherLabels
<1>u. /\ (AppLabels \cup DispatcherLabels) \ Locked =
           {"idle", "start", "start_join", "failed_join", "stop", "stop_join", "wait",
            "waiting", "samples", "next", "closed", "new", "await", "check", "callback",
            "record_error", "finish", "done"} \cup Reading
  BY DEF AppLabels, DispatcherLabels, Reading, Locked, Starting, Stopping, Resting
<1> USE DEF nativeVars, queueVars, clientVars, lockVars, runVars, callVars, history, coreVars
<1>1. CASE Call(t)
  <2>1. \E label \in {"start", "stop", "samples", "wait", "next"} :
          /\ Goto(t, label)
          /\ t \in Dispatchers => label = "stop"
    BY <1>1, <1>t DEF Call, DispatcherLabels, Reading, Stopping
  <2>2. /\ pc[t] \in {"idle", "callback"}
        /\ UNCHANGED <<nativeVars, result, clientVars, runVars>>
    BY <1>1, Zenon DEF Call
  <2> QED BY <2>1, <2>2, <1>m, <1>l, <1>u DEF Reading
<1>2. CASE NativeStep(t) /\ UNCHANGED pyVars
  <2>1. CASE Read(t)
    BY <1>2, <2>1, <1>m, <1>l, <1>u DEF Read, Reading, pyVars
  <2>2. CASE ReadGuard(t)
    <3>1. CASE ReadReturns(t, "Closed", 0)
      BY <1>2, <2>2, <3>1, <1>r DEF ReadGuard, Reading, pyVars
    <3>2. CASE Goto(t, "read_wait") /\ UNCHANGED result
      BY <1>2, <2>2, <3>2, <1>m, <1>l, <1>u DEF ReadGuard, Reading, pyVars
    <3> QED BY <2>2, <3>1, <3>2, Zenon DEF ReadGuard, NoSample
  <2>3. CASE ReadWait(t)
    <3>1. CASE samples_ # <<>> /\ samples_' = Tail(samples_)
               /\ ReadReturns(t, "Sample", Head(samples_))
      <4>1. Head(samples_) \in Nat
        BY <3>1 DEF LockInv, TokenInv
      <4> QED BY <1>2, <2>3, <3>1, <4>1, <1>r
              DEF ReadWait, ReadSample, ReadClosed, ReadTimeout, Reading, pyVars
    <3>2. CASE UNCHANGED samples_ /\ ReadReturns(t, "Closed", 0)
      BY <1>2, <2>3, <3>2, <1>r
         DEF ReadWait, ReadSample, ReadClosed, ReadTimeout, Reading, pyVars
    <3>3. CASE UNCHANGED <<samples_, result>> /\ Goto(t, "read_again")
      BY <1>2, <2>3, <3>3, <1>m, <1>l, <1>u
         DEF ReadWait, ReadSample, ReadClosed, ReadTimeout, Reading, pyVars
    <3> QED BY <2>3, <3>1, <3>2, <3>3, Zenon
            DEF ReadWait, ReadSample, ReadClosed, ReadTimeout, NoSample
  <2>4. CASE ReadAgain(t)
    <3>1. CASE ReadReturns(t, "Closed", 0) \/ (t \in Apps /\ ReadReturns(t, "Timeout", 0))
      BY <1>2, <2>4, <3>1, <1>r DEF ReadAgain, Reading, pyVars
    <3>2. CASE Goto(t, "read_guard") /\ UNCHANGED result
      BY <1>2, <2>4, <3>2, <1>m, <1>l, <1>u DEF ReadAgain, Reading, pyVars
    <3> QED BY <2>4, <3>1, <3>2, Zenon DEF ReadAgain, NoSample
  <2> QED BY <1>2, <2>1, <2>2, <2>3, <2>4, Zenon DEF NativeStep, LockStep
<1>3. CASE StopLockedEnds(t)
  BY <1>3, Zenon DEF LockStep
<1>4. CASE ReadReturned(t)
  <2>1. /\ pc[t] = "read_done" /\ result' = [result EXCEPT ![t] = NoResult]
        /\ UNCHANGED <<nativeVars, lockVars, _mode, _run_token, _callback_run, objects>>
    BY <1>4, Zenon DEF ReadReturned, IterReturn, DispatchReturn, iterFrame, dispatchFrame
  <2>2. NoResult \in Result
    BY DEF Result, NoResult, NoSample
  <2>3. \E label : /\ Goto(t, label)
                   /\ label \in {"idle", "closed", "finish", "callback"}
                   /\ t \in Apps => label \in {"idle", "closed"}
                   /\ t \in Dispatchers => label \in {"finish", "callback", "closed"}
    <3>1. CASE t \in Apps
      BY <1>4, <3>1, <1>t DEF ReadReturned, IterReturn, EndIterator
    <3>2. CASE t \in Dispatchers
      <4>1. result[t].status \in {"Sample", "Closed"}
        BY <2>1, <3>2 DEF LockInv, ResultInv
      <4> QED BY <1>4, <3>2, <4>1, <1>t DEF ReadReturned, DispatchReturn
    <3> QED BY <1>t, <3>1, <3>2
  <2> QED BY <2>1, <2>2, <2>3, <1>l, <1>u, Zenon DEF QuietMove, lockedVars, Reading
<1>5. CASE PyStep(t)
  <2>1. UNCHANGED <<nativeVars, result, calls>>
    BY <1>5, Zenon DEF PyStep
  <2>2. CASE Stop(t)
    BY <2>1, <2>2, <1>m, <1>t, <1>l, <1>u DEF Stop, Return, LockStep, Takes
  <2>3. CASE StopJoin(t)
    BY <2>1, <2>3, <1>m, <1>t, <1>l, <1>u DEF StopJoin, Joined, Return
  <2>4. CASE t \in Apps /\ AppStep(t)
    <3>1. CASE Start(t)
      BY <2>1, <2>4, <3>1, <1>m, <1>t, <1>l, <1>u
         DEF Start, StartIteratorLocked, StartCallbackLocked, LockStep, Takes
    <3>2. CASE StartJoin(t) \/ FailedJoin(t) \/ Wait(t) \/ Waited(t)
      BY <2>1, <2>4, <3>2, <1>m, <1>t, <1>l, <1>u
         DEF StartJoin, Joined, FailedJoin, Wait, Waited
    <3>3. CASE StartCommit(t) \/ StartFailed(t)
      BY <2>1, <2>4, <3>3, Zenon DEF LockStep
    <3>4. CASE Samples(t)
      BY <2>1, <2>4, <3>4, <1>t, <1>l, <1>u DEF Samples, QuietMove, lockedVars
    <3>5. CASE IterNext(t)
      BY <2>1, <2>4, <3>5, <1>m, <1>t, <1>l, <1>u
         DEF IterNext, EndIterator, iterFrame, Reading
    <3>6. CASE IterClosed(t)
      BY <2>1, <2>4, <3>6, <1>m, <1>t, <1>l, <1>u
         DEF IterClosed, EndIterator, iterFrame, LockStep, Takes
    <3> QED BY <2>4, <3>1, <3>2, <3>3, <3>4, <3>5, <3>6, Zenon DEF AppStep
  <2>5. CASE t \in Dispatchers /\ DispatcherStep(t)
    <3>1. CASE Await(t) \/ Check(t) \/ CallbackEnds(t) \/ Finish(t)
      BY <2>1, <2>5, <3>1, <1>m, <1>t, <1>l, <1>u, Zenon
         DEF Await, Check, CallbackEnds, Finish, dispatchFrame, Reading
    <3>2. CASE RecordError(t) \/ FinishCallbackClosed(t)
      BY <2>1, <2>5, <3>2, <1>m, <1>t, <1>l, <1>u, Zenon
         DEF RecordError, FinishCallbackClosed, StopIfCurrent, dispatchFrame, LockStep, Takes
    <3> QED BY <2>5, <3>1, <3>2, Zenon DEF DispatcherStep
  <2> QED BY <1>5, <2>2, <2>3, <2>4, <2>5, Zenon DEF PyStep
<1> QED BY <1>1, <1>2, <1>3, <1>4, <1>5, Zenon DEF ThreadStep

(* A move of the program counter, and what it leaves alone.                *)
LEMMA GotoEffect ==
  ASSUME LabelInv, NEW t \in Threads, NEW label, Goto(t, label)
  PROVE  pc'[t] = label /\ \A u \in Threads : u # t => pc'[u] = pc[u]
  BY DEF LabelInv, Goto

(* What is left of a queue when its first sample is taken.                 *)
LEMMA TailFacts ==
  ASSUME NEW q \in Seq(Nat), q # <<>>
  PROVE  /\ Tail(q) \in Seq(Nat)
         /\ Len(Tail(q)) = Len(q) - 1
         /\ \A i \in 1 .. Len(Tail(q)) : i + 1 \in 1 .. Len(q) /\ Tail(q)[i] = q[i + 1]
  OBVIOUS

(* A step that neither holds nor takes the lock keeps the lock's invariant. *)
LEMMA QuietLock ==
  ASSUME LockInv, NEW t \in Threads, QuietMove(t)
  PROVE  LockInv'
<1>1. PICK label :
        /\ Goto(t, label)
        /\ label \notin Locked
        /\ t \in Apps => label \in AppLabels
        /\ t \in Dispatchers => label \in DispatcherLabels
        /\ \/ UNCHANGED result /\ label # "read_done"
           \/ /\ \E r \in Result : result' = [result EXCEPT ![t] = r]
              /\ t \in Dispatchers /\ label = "read_done" =>
                   result'[t].status \in {"Sample", "Closed"}
  BY Zenon DEF QuietMove
<1>2. pc'[t] = label /\ \A u \in Threads : u # t => pc'[u] = pc[u]
  BY <1>1, GotoEffect DEF LockInv
<1>3. /\ UNCHANGED lockedVars
      /\ pc[t] \notin Locked
      /\ UNCHANGED _mode \/ (_mode # "callback" /\ _mode' = "iterator")
      /\ UNCHANGED samples_ \/ (samples_ # <<>> /\ samples_' = Tail(samples_))
  BY Zenon DEF QuietMove
<1>4. LabelInv'
  <2>1. label \in AppLabels \cup DispatcherLabels
    BY <1>1 DEF Threads
  <2>2. pc' \in [Threads -> AppLabels \cup DispatcherLabels]
    BY <1>1, <2>1 DEF LockInv, LabelInv, Goto
  <2>3. \A u \in Threads : pc'[u] \in Stopping => pc[u] \in Stopping
    BY <1>1, <1>2 DEF Locked
  <2>4. /\ \A p \in Apps : pc'[p] \in AppLabels
        /\ \A d \in Dispatchers : pc'[d] \in DispatcherLabels
    BY <1>1, <1>2 DEF LockInv, LabelInv, Threads
  <2> QED BY <1>3, <2>2, <2>3, <2>4 DEF LockInv, LabelInv, lockedVars
<1>5. ResultInv'
  <2>1. CASE UNCHANGED result /\ label # "read_done"
    BY <1>2, <2>1 DEF LockInv, ResultInv, Threads
  <2>2. CASE /\ \E r \in Result : result' = [result EXCEPT ![t] = r]
             /\ t \in Dispatchers /\ label = "read_done" =>
                  result'[t].status \in {"Sample", "Closed"}
    BY <1>2, <2>2 DEF LockInv, ResultInv, Threads
  <2> QED BY <1>1, <2>1, <2>2
<1>6. \A u \in Threads : \A l \in Locked : pc'[u] = l <=> pc[u] = l
  BY <1>1, <1>2, <1>3
<1>7. HolderInv'
  BY <1>3, <1>6 DEF LockInv, HolderInv, lockedVars
<1>8. PhaseInv'
  BY <1>3, <1>6
     DEF LockInv, PhaseInv, lockedVars, Free, Locked, Starting, Stopping, Resting
<1>9. TokenInv'
  <2>1. samples_' \in Seq(Nat)
    BY <1>3, TailFacts, Zenon DEF LockInv, TokenInv
  <2>2. ~closed_ => \A i \in 1 .. Len(samples_') : samples_'[i] = core_run
    BY <1>3, TailFacts, Zenon DEF LockInv, TokenInv
  <2>3. \A u \in Threads : pc'[u] \in {"native_running", "start_commit"}
                             <=> pc[u] \in {"native_running", "start_commit"}
    BY <1>6 DEF Locked, Starting
  <2> QED BY <1>3, <2>1, <2>2, <2>3 DEF LockInv, TokenInv, lockedVars
<1> QED BY <1>4, <1>5, <1>7, <1>8, <1>9 DEF LockInv

(* Who holds the lock is alone at the labels under it.                     *)
LEMMA HolderAlone ==
  ASSUME LockInv, NEW t \in Threads, pc[t] \in Locked \/ Free
  PROVE  /\ pc[t] \in Locked => _lock = t
         /\ Free => pc[t] \notin Locked
         /\ \A u \in Threads : u # t => pc[u] \notin Locked
  BY ThreadsApart DEF LockInv, HolderInv, Free

(* A step of the thread that takes, holds or releases the lock, perhaps    *)
(* creating a dispatcher.                                                  *)
LEMMA HolderMove ==
  ASSUME LockInv, NEW t \in Threads, pc[t] \in Locked \/ Free,
         pc' \in [Threads -> AppLabels \cup DispatcherLabels],
         \A u \in Threads : u # t =>
           pc'[u] = pc[u] \/ (u \in Dispatchers /\ pc'[u] = "await"),
         UNCHANGED result, pc'[t] # "read_done",
         t \in Apps => pc'[t] \in AppLabels,
         t \in Dispatchers => pc'[t] \in DispatcherLabels,
         pc'[t] \in Stopping => then' \in IF t \in Apps THEN AppThen ELSE DispatcherThen,
         _lock' = IF pc'[t] \in Locked THEN t ELSE None
  PROVE  /\ LabelInv' /\ ResultInv' /\ HolderInv'
         /\ \A u \in Threads : u # t => pc[u] \notin Locked /\ pc'[u] \notin Locked
<1>1. \A u \in Threads : u # t => pc[u] \notin Locked
  BY HolderAlone
<1>2. "await" \notin Locked /\ "await" \in DispatcherLabels /\ Stopping \subseteq Locked
  BY DEF DispatcherLabels, Locked, Starting, Stopping, Resting
<1>3. \A u \in Threads : u # t => pc'[u] \notin Locked
  BY <1>1, <1>2
<1>4. LabelInv'
  <2>1. /\ \A p \in Apps : pc'[p] \in AppLabels
        /\ \A d \in Dispatchers : pc'[d] \in DispatcherLabels
    BY <1>2, ThreadsApart DEF LockInv, LabelInv, Threads
  <2> QED BY <1>2, <1>3, <2>1 DEF LabelInv
<1>5. ResultInv'
  BY DEF LockInv, ResultInv, Threads
<1>6. HolderInv'
  BY <1>3, ThreadsApart DEF HolderInv
<1> QED BY <1>1, <1>3, <1>4, <1>5, <1>6

(* A step that takes _lock or gives it back, as a single Goto, keeps the   *)
(* labels, the results and the holder in order.                            *)
LEMMA HolderGoto ==
  ASSUME LockInv, NEW t \in Threads, pc[t] \in Locked \/ Free,
         NEW label, Goto(t, label), UNCHANGED result, label # "read_done",
         t \in Apps => label \in AppLabels,
         t \in Dispatchers => label \in DispatcherLabels,
         label \in Stopping => then' \in IF t \in Apps THEN AppThen ELSE DispatcherThen,
         _lock' = IF label \in Locked THEN t ELSE None
  PROVE  /\ LabelInv' /\ ResultInv' /\ HolderInv'
         /\ pc'[t] = label
         /\ \A u \in Threads : u # t => pc[u] \notin Locked /\ pc'[u] \notin Locked
<1>1. pc'[t] = label /\ \A u \in Threads : u # t => pc'[u] = pc[u]
  BY GotoEffect DEF LockInv
<1>2. pc' \in [Threads -> AppLabels \cup DispatcherLabels]
  BY DEF LockInv, LabelInv, Goto, Threads
<1> QED BY <1>1, <1>2, HolderMove

(* The thread keeps the lock.                                              *)
LEMMA HolderStays ==
  ASSUME LockInv, NEW t \in Threads, NEW label \in Locked, Goto(t, label),
         pc[t] \in Locked,
         UNCHANGED <<result, _lock, _running>>,
         t \in Apps => label \in AppLabels,
         t \in Dispatchers => label \in DispatcherLabels,
         label \in Stopping => then' \in IF t \in Apps THEN AppThen ELSE DispatcherThen
  PROVE  /\ LabelInv' /\ ResultInv' /\ HolderInv'
         /\ pc'[t] = label
         /\ ~Free /\ ~Free' /\ ~_running /\ ~_running'
         /\ \A u \in Threads : u # t => pc[u] \notin Locked /\ pc'[u] \notin Locked
<1>1. _lock' = IF label \in Locked THEN t ELSE None
  BY HolderAlone
<1>2. label # "read_done"
  BY DEF Locked, Starting, Stopping, Resting
<1>3. ~Free /\ ~Free' /\ ~_running
  BY <1>1, ThreadsApart DEF Free, LockInv, HolderInv, PhaseInv
<1> QED BY <1>1, <1>2, <1>3, HolderGoto

(* Every step under the lock keeps its invariant.                          *)
LEMMA LockStepKeeps ==
  ASSUME LockInv, NEW t \in Threads, LockStep(t)
  PROVE  LockInv'
<1>l. /\ Stopping \subseteq AppLabels \cap DispatcherLabels
      /\ Starting \subseteq AppLabels
      /\ Stopping \cup Starting = Locked /\ Stopping \cap Starting = {}
      /\ Resting \subseteq Starting
      /\ {"native_running", "start_commit"} = Starting \ Resting
      /\ Starting \cap DispatcherLabels = {}
  BY DEF AppLabels, DispatcherLabels, Reading, Locked, Starting, Stopping, Resting
<1>t. /\ t \in Apps \/ t \in Dispatchers
      /\ t \in Apps => pc[t] \in AppLabels
      /\ t \in Dispatchers => pc[t] \in DispatcherLabels
      /\ ~(t \in Apps /\ t \in Dispatchers)
  BY ThreadsApart DEF LockInv, LabelInv, Threads
<1>s. /\ {"native_start", "native_reset", "native_spawn", "start_failed"} = Resting
      /\ {"native_stop", "native_stop_core"} = Stopping
  BY DEF Resting, Stopping
<1> USE DEF nativeVars, queueVars, clientVars, lockVars, runVars, callVars, history, coreVars
<1>1. ASSUME Free, _running, _running' = FALSE, _lock' = t, Goto(t, "native_stop"),
             then' \in IF t \in Apps THEN AppThen ELSE DispatcherThen,
             UNCHANGED <<nativeVars, result, _run_token, objects>>
      PROVE  LockInv'
  <2>1. /\ LabelInv' /\ ResultInv' /\ HolderInv'
        /\ pc'[t] = "native_stop"
        /\ \A u \in Threads : u # t => pc[u] \notin Locked /\ pc'[u] \notin Locked
    BY <1>1, <1>l, <1>s, HolderGoto
  <2>2. pc[t] \notin Locked /\ ~Free'
    BY <1>1, HolderAlone, ThreadsApart, Zenon DEF Free
  <2>3. PhaseInv'
    BY <1>1, <1>l, <1>s, <2>1, <2>2, Zenon DEF PhaseInv
  <2>4. TokenInv'
    BY <1>1, <1>l, <1>s, <2>1, <2>2, Zenon DEF LockInv, TokenInv
  <2> QED BY <2>1, <2>3, <2>4 DEF LockInv
<1>2. CASE Takes(t) /\ UNCHANGED <<nativeVars, result, calls>>
  <2>1. CASE Stop(t) /\ _running
    BY <1>1, <1>2, <1>t, <2>1, Zenon DEF Stop, StopLocked, Return, AppThen, DispatcherThen
  <2>2. CASE t \in Apps /\ IterClosed(t) /\ IteratorIsCurrent(iter[t]) /\ core_faulted
    BY <1>1, <1>2, <1>t, <2>2, Zenon
       DEF IterClosed, StopLocked, IteratorIsCurrent, AppThen, iterFrame
  <2>3. CASE /\ t \in Dispatchers
             /\ RecordError(t) \/ FinishCallbackClosed(t)
             /\ CallbackRunIsCurrent(t)
    BY <1>1, <1>2, <1>t, <2>3, Zenon
       DEF RecordError, FinishCallbackClosed, StopIfCurrent, StopLocked, DispatcherThen,
           CallbackRunIsCurrent, dispatchFrame
  <2>4. CASE t \in Apps /\ Start(t) /\ _lock' = t
    <3>1. /\ Free /\ ~_running /\ pc[t] = "start"
          /\ UNCHANGED <<_running, _mode, _run_token, then>>
          /\ objects' \in 0 .. MaxRuns
          /\ \/ Goto(t, "native_start")
             \/ \E d \in Dispatchers :
                  pc' = [pc EXCEPT ![t] = "native_start", ![d] = "await"]
      <4>1. Free /\ _lock' # _lock
        BY <2>4, ThreadsApart DEF Start, Free
      <4>2. ~_running /\ (StartIteratorLocked(t) \/ StartCallbackLocked(t))
        BY <2>4, <4>1 DEF Start
      <4>3. objects \in 0 .. MaxRuns /\ MaxRuns \in Nat
        BY NativeBounds DEF LockInv, TokenInv
      <4>4. StartCallbackLocked(t) =>
              /\ objects' \in Dispatchers
              /\ pc' = [pc EXCEPT ![t] = "native_start", ![objects'] = "await"]
        BY <4>1, <4>3 DEF StartCallbackLocked, Dispatchers
      <4> QED BY <2>4, <4>1, <4>2, <4>3, <4>4 DEF Start, StartIteratorLocked, Dispatchers
    <3>2. /\ pc' \in [Threads -> AppLabels \cup DispatcherLabels]
          /\ pc'[t] = "native_start"
          /\ \A u \in Threads : u # t =>
               pc'[u] = pc[u] \/ (u \in Dispatchers /\ pc'[u] = "await")
      <4>1. "native_start" \in AppLabels /\ "await" \in DispatcherLabels
        BY <1>l, <1>s DEF DispatcherLabels
      <4>2. CASE Goto(t, "native_start")
        BY <4>1, <4>2 DEF LockInv, LabelInv, Goto
      <4>3. ASSUME NEW d \in Dispatchers,
                   pc' = [pc EXCEPT ![t] = "native_start", ![d] = "await"]
            PROVE  /\ pc' \in [Threads -> AppLabels \cup DispatcherLabels]
                   /\ pc'[t] = "native_start"
                   /\ \A u \in Threads : u # t =>
                        pc'[u] = pc[u] \/ (u \in Dispatchers /\ pc'[u] = "await")
        <5>1. d \in Threads /\ d # t
          BY <1>t, <2>4, Zenon DEF Threads
        <5> QED BY <4>1, <4>3, <5>1 DEF LockInv, LabelInv
      <4> QED BY <3>1, <4>2, <4>3
    <3>3. /\ LabelInv' /\ ResultInv' /\ HolderInv'
          /\ \A u \in Threads : u # t => pc[u] \notin Locked /\ pc'[u] \notin Locked
      BY <1>2, <2>4, <1>l, <1>s, <1>t, <3>1, <3>2, HolderMove
    <3>4. pc[t] \notin Locked /\ ~Free'
      BY <2>4, <3>1, HolderAlone, ThreadsApart, Zenon DEF Free
    <3>5. PhaseInv'
      BY <1>2, <1>l, <1>s, <3>1, <3>2, <3>3, <3>4, Zenon DEF LockInv, PhaseInv
    <3>6. TokenInv'
      BY <1>2, <1>l, <1>s, <3>1, <3>2, <3>3, <3>4, Zenon DEF LockInv, TokenInv
    <3> QED BY <3>3, <3>5, <3>6 DEF LockInv
  <2> QED BY <1>2, <2>1, <2>2, <2>3, <2>4, Zenon DEF Takes
<1>3. ASSUME UNCHANGED pyVars
      PROVE  UNCHANGED <<_lock, _running, _mode, _run_token, objects, then>>
  BY <1>3, Zenon DEF pyVars
<1>4. CASE NativeStart(t) /\ UNCHANGED pyVars
  <2>1. pc[t] \in Resting /\ t \in Apps
    BY <1>4, <1>l, <1>s, <1>t DEF NativeStart
  <2>2. /\ Goto(t, "native_reset") /\ CloseQueue /\ running_' = FALSE
        /\ UNCHANGED <<coreVars, result>>
    BY <1>4, <2>1, Zenon DEF NativeStart, LockInv, PhaseInv
  <2>3. /\ LabelInv' /\ ResultInv' /\ HolderInv'
        /\ pc'[t] = "native_reset"
        /\ ~Free /\ ~Free' /\ ~_running /\ ~_running'
        /\ \A u \in Threads : u # t => pc[u] \notin Locked /\ pc'[u] \notin Locked
    BY <1>3, <1>4, <1>l, <1>s, <1>t, <2>1, <2>2, HolderStays, Zenon
  <2>4. PhaseInv'
    BY <1>l, <1>s, <2>1, <2>2, <2>3, Zenon DEF LockInv, PhaseInv, CloseQueue
  <2>5. TokenInv'
    BY <1>3, <1>4, <1>l, <1>s, <2>1, <2>2, <2>3, Zenon DEF LockInv, TokenInv, CloseQueue
  <2> QED BY <2>3, <2>4, <2>5, Zenon DEF LockInv
<1>5. CASE NativeReset(t) /\ UNCHANGED pyVars
  <2>1. pc[t] \in Resting /\ t \in Apps
    BY <1>5, <1>l, <1>s, <1>t DEF NativeReset
  <2>2. /\ Goto(t, "native_spawn") /\ ResetQueue
        /\ UNCHANGED <<running_, coreVars, result>>
    BY <1>5, Zenon DEF NativeReset
  <2>3. /\ LabelInv' /\ ResultInv' /\ HolderInv'
        /\ pc'[t] = "native_spawn"
        /\ ~Free /\ ~Free' /\ ~_running /\ ~_running'
        /\ \A u \in Threads : u # t => pc[u] \notin Locked /\ pc'[u] \notin Locked
    BY <1>3, <1>5, <1>l, <1>s, <1>t, <2>1, <2>2, HolderStays, Zenon
  <2>4. PhaseInv'
    BY <1>l, <1>s, <2>1, <2>2, <2>3, Zenon DEF LockInv, PhaseInv, ResetQueue
  <2>5. TokenInv'
    <3>1. samples_' = <<>> /\ UNCHANGED <<core_run, _run_token, objects>>
      BY <1>3, <1>5, <2>2, Zenon DEF ResetQueue
    <3>2. samples_' \in Seq(Nat) /\ \A i \in 1 .. Len(samples_') : samples_'[i] = core_run'
      BY <3>1
    <3>3. \A u \in Threads : /\ pc[u] \notin {"native_running", "start_commit"}
                             /\ pc'[u] \notin {"native_running", "start_commit"}
      BY <1>s, <2>1, <2>3, Zenon DEF Locked, Starting, Resting
    <3> QED BY <3>1, <3>2, <3>3, Zenon DEF LockInv, TokenInv
  <2> QED BY <2>3, <2>4, <2>5, Zenon DEF LockInv
<1>6. CASE NativeSpawn(t) /\ UNCHANGED pyVars
  <2>1. pc[t] \in Resting /\ t \in Apps
    BY <1>6, <1>l, <1>s, <1>t DEF NativeSpawn
  <2>2. /\ Goto(t, "native_running") /\ pc[t] = "native_spawn"
        /\ core_live' = TRUE /\ core_run' = core_run + 1
        /\ UNCHANGED <<running_, queueVars, result>>
    BY <1>6, Zenon DEF NativeSpawn
  <2>3. /\ LabelInv' /\ ResultInv' /\ HolderInv'
        /\ pc'[t] = "native_running"
        /\ ~Free /\ ~Free' /\ ~_running /\ ~_running'
        /\ \A u \in Threads : u # t => pc[u] \notin Locked /\ pc'[u] \notin Locked
    BY <1>3, <1>6, <1>l, <1>s, <1>t, <2>1, <2>2, HolderStays, Zenon
  <2>4. PhaseInv'
    BY <1>l, <1>s, <2>1, <2>2, <2>3, Zenon DEF LockInv, PhaseInv
  <2>5. TokenInv'
    <3>1. samples_ = <<>> /\ core_run = _run_token /\ samples_' = <<>>
      BY <1>l, <1>s, <2>1, <2>2, <2>3 DEF LockInv, PhaseInv, TokenInv
    <3>2. UNCHANGED <<_run_token, objects>> /\ _run_token \in Nat /\ objects \in 0 .. MaxRuns
      BY <1>3, <1>6, Zenon DEF LockInv, TokenInv
    <3>3. core_run' = _run_token' + 1 /\ core_run' \in Nat
      BY <2>2, <3>1, <3>2
    <3>4. samples_' \in Seq(Nat) /\ \A i \in 1 .. Len(samples_') : samples_'[i] = core_run'
      BY <3>1
    <3> QED BY <2>3, <3>2, <3>3, <3>4, Zenon DEF TokenInv
  <2> QED BY <2>3, <2>4, <2>5 DEF LockInv
<1>7. CASE NativeSpawnFails(t) /\ UNCHANGED pyVars
  <2>1. pc[t] \in Resting /\ t \in Apps
    BY <1>7, <1>l, <1>s, <1>t DEF NativeSpawnFails
  <2>2. /\ Goto(t, "start_failed") /\ CloseQueue /\ running_' = FALSE
        /\ UNCHANGED <<coreVars, result>>
    BY <1>7, Zenon DEF NativeSpawnFails
  <2>3. /\ LabelInv' /\ ResultInv' /\ HolderInv'
        /\ pc'[t] = "start_failed"
        /\ ~Free /\ ~Free' /\ ~_running /\ ~_running'
        /\ \A u \in Threads : u # t => pc[u] \notin Locked /\ pc'[u] \notin Locked
    BY <1>3, <1>7, <1>l, <1>s, <1>t, <2>1, <2>2, HolderStays, Zenon
  <2>4. PhaseInv'
    BY <1>l, <1>s, <2>1, <2>2, <2>3, Zenon DEF LockInv, PhaseInv, CloseQueue
  <2>5. TokenInv'
    BY <1>3, <1>7, <1>l, <1>s, <2>1, <2>2, <2>3, Zenon DEF LockInv, TokenInv, CloseQueue
  <2> QED BY <2>3, <2>4, <2>5 DEF LockInv
<1>8. CASE NativeRunning(t) /\ UNCHANGED pyVars
  <2>1. pc[t] \in Starting /\ t \in Apps
    BY <1>8, <1>l, <1>s, <1>t DEF NativeRunning
  <2>2. /\ Goto(t, "start_commit") /\ pc[t] = "native_running" /\ running_' = TRUE
        /\ UNCHANGED <<queueVars, coreVars, result>>
    BY <1>8, Zenon DEF NativeRunning
  <2>3. /\ LabelInv' /\ ResultInv' /\ HolderInv'
        /\ pc'[t] = "start_commit"
        /\ ~Free /\ ~Free' /\ ~_running /\ ~_running'
        /\ \A u \in Threads : u # t => pc[u] \notin Locked /\ pc'[u] \notin Locked
    BY <1>3, <1>8, <1>l, <1>s, <1>t, <2>1, <2>2, HolderStays, Zenon
  <2>4. PhaseInv'
    BY <1>l, <1>s, <2>1, <2>2, <2>3, Zenon DEF LockInv, PhaseInv
  <2>5. TokenInv'
    BY <1>3, <1>8, <1>l, <1>s, <2>1, <2>2, <2>3, Zenon DEF LockInv, TokenInv
  <2> QED BY <2>3, <2>4, <2>5 DEF LockInv
<1>9. CASE NativeStop(t) /\ UNCHANGED pyVars
  <2>1. pc[t] \in Stopping
    BY <1>9, <1>s DEF NativeStop
  <2>2. /\ Goto(t, "native_stop_core") /\ running_' = FALSE /\ closed_'
        /\ UNCHANGED <<samples_, core_live, core_run, result, _lock, _running, then, _mode,
                       _run_token, objects>>
    BY <1>3, <1>9, Zenon DEF NativeStop, CloseQueue
  <2>3. /\ LabelInv' /\ ResultInv' /\ HolderInv'
        /\ pc'[t] = "native_stop_core"
        /\ ~Free /\ ~Free' /\ ~_running /\ ~_running'
        /\ \A u \in Threads : u # t => pc[u] \notin Locked /\ pc'[u] \notin Locked
    <3>1. then' \in IF t \in Apps THEN AppThen ELSE DispatcherThen
      BY <2>1, <2>2, Zenon DEF LockInv, LabelInv
    <3> QED BY <1>l, <1>s, <2>1, <2>2, <3>1, HolderStays, Zenon
  <2>4. PhaseInv'
    BY <1>l, <1>s, <2>2, <2>3, Zenon DEF PhaseInv
  <2>5. TokenInv'
    BY <1>l, <1>s, <2>1, <2>2, <2>3, Zenon DEF LockInv, TokenInv
  <2> QED BY <2>3, <2>4, <2>5, Zenon DEF LockInv
<1>10. CASE t \in Apps /\ StartFailed(t) /\ UNCHANGED <<nativeVars, result, calls>>
  <2>1. pc[t] \in Resting
    BY <1>10, <1>s DEF StartFailed
  <2>2. /\ Goto(t, "native_stop") /\ then' \in AppThen
        /\ UNCHANGED <<_lock, _running, _mode, _run_token, objects>>
    BY <1>10, Zenon DEF StartFailed, AppThen
  <2>3. /\ LabelInv' /\ ResultInv' /\ HolderInv'
        /\ pc'[t] = "native_stop"
        /\ ~Free /\ ~Free' /\ ~_running /\ ~_running'
        /\ \A u \in Threads : u # t => pc[u] \notin Locked /\ pc'[u] \notin Locked
    BY <1>10, <1>l, <1>s, <1>t, <2>1, <2>2, HolderStays, Zenon
  <2>4. PhaseInv'
    BY <1>10, <1>l, <1>s, <2>2, <2>3, Zenon DEF PhaseInv
  <2>5. TokenInv'
    BY <1>10, <1>l, <1>s, <2>1, <2>2, <2>3, Zenon DEF LockInv, TokenInv
  <2> QED BY <2>3, <2>4, <2>5, Zenon DEF LockInv
<1>11. CASE t \in Apps /\ StartCommit(t) /\ UNCHANGED <<nativeVars, result, calls>>
  <2>1. pc[t] \in Starting /\ pc[t] = "start_commit"
    BY <1>11, <1>l DEF StartCommit
  <2>2. "idle" \notin Locked /\ "idle" \in AppLabels
    BY DEF AppLabels, Locked, Starting, Resting, Stopping
  <2>3. /\ LabelInv' /\ ResultInv' /\ HolderInv'
        /\ pc'[t] = "idle" /\ Free'
        /\ \A u \in Threads : u # t => pc[u] \notin Locked /\ pc'[u] \notin Locked
    BY <1>11, <1>l, <1>t, <2>1, <2>2, HolderGoto DEF StartCommit, Free
  <2>4. /\ _running' = TRUE /\ _run_token' = _run_token + 1
        /\ _mode' \in {"iterator", "callback"}
        /\ UNCHANGED <<running_, coreVars, queueVars, objects>>
    BY <1>11, Zenon DEF StartCommit
  <2>5. PhaseInv'
    <3>1. \A u \in Threads : pc'[u] \notin Locked
      BY <2>2, <2>3, Zenon
    <3> QED BY <1>l, <1>s, <2>1, <2>3, <2>4, <3>1 DEF LockInv, PhaseInv
  <2>6. TokenInv'
    BY <1>l, <2>1, <2>2, <2>3, <2>4, Zenon DEF LockInv, TokenInv
  <2> QED BY <2>3, <2>5, <2>6 DEF LockInv
<1>12. CASE StopLockedEnds(t)
  <2>1. pc[t] \in Stopping /\ pc[t] = "native_stop_core"
    BY <1>12, <1>s DEF StopLockedEnds, NativeStopCore
  <2>2. /\ then \notin Locked /\ then # "read_done"
        /\ t \in Apps => then \in AppLabels
        /\ t \in Dispatchers => then \in DispatcherLabels
    BY <1>t, <2>1, Zenon
       DEF LockInv, LabelInv, AppThen, DispatcherThen, AppLabels, DispatcherLabels,
                      Reading, Locked, Starting, Resting, Stopping
  <2>3. /\ LabelInv' /\ ResultInv' /\ HolderInv'
        /\ pc'[t] = then /\ Free'
        /\ \A u \in Threads : u # t => pc[u] \notin Locked /\ pc'[u] \notin Locked
    BY <1>12, <1>l, <1>t, <2>1, <2>2, HolderGoto, Zenon
       DEF StopLockedEnds, NativeStopCore, Free
  <2>4. ~_running /\ ~running_
    BY <2>1, <1>l, HolderAlone, ThreadsApart DEF LockInv, PhaseInv, Free
  <2>5. /\ core_live' = FALSE
        /\ UNCHANGED <<_running, _run_token, objects, running_, core_run, queueVars>>
    BY <1>12, Zenon DEF StopLockedEnds, NativeStopCore, CoreStops
  <2>6. PhaseInv'
    <3>1. \A u \in Threads : pc'[u] \notin Locked
      BY <2>2, <2>3, Zenon
    <3> QED BY <1>l, <1>s, <2>3, <2>4, <2>5, <3>1, Zenon DEF PhaseInv
  <2>7. TokenInv'
    BY <1>l, <2>1, <2>2, <2>3, <2>5 DEF LockInv, TokenInv
  <2> QED BY <2>3, <2>6, <2>7 DEF LockInv
<1> QED BY <1>2, <1>4, <1>5, <1>6, <1>7, <1>8, <1>9, <1>10, <1>11, <1>12, Zenon DEF LockStep

(* What push() leaves in a queue of samples of one run.                    *)
LEMMA PushFacts ==
  ASSUME samples_ \in Seq(Nat), NEW n \in Nat, Push(n)
  PROVE  /\ samples_' \in Seq(Nat)
         /\ (\A i \in 1 .. Len(samples_) : samples_[i] = n) =>
              \A i \in 1 .. Len(samples_') : samples_'[i] = n
         /\ UNCHANGED <<closed_, close_generation_>>
<1> DEFINE kept == IF Len(samples_) = Capacity THEN Tail(samples_) ELSE samples_
<1>1. samples_' = Append(kept, n) /\ UNCHANGED <<closed_, close_generation_>>
  BY DEF Push
<1>2. /\ kept \in Seq(Nat)
      /\ (\A i \in 1 .. Len(samples_) : samples_[i] = n) =>
           \A i \in 1 .. Len(kept) : kept[i] = n
  <2>1. Len(samples_) = Capacity => samples_ # <<>>
    BY CapacityPositive
  <2> QED BY <2>1, TailFacts
<1>3. ASSUME NEW q \in Seq(Nat)
      PROVE  /\ Append(q, n) \in Seq(Nat)
             /\ (\A i \in 1 .. Len(q) : q[i] = n) =>
                  \A i \in 1 .. Len(Append(q, n)) : Append(q, n)[i] = n
  OBVIOUS
<1> HIDE DEF kept
<1> QED BY <1>1, <1>2, <1>3

(* The core pushes only while it is live, and then into the queue of its   *)
(* own run.                                                                *)
LEMMA CoreLock ==
  ASSUME LockInv, CorePush \/ CoreFault, UNCHANGED pyVars
  PROVE  LockInv'
<1>1. /\ UNCHANGED <<_lock, _running, _mode, _run_token, objects, then>>
      /\ UNCHANGED <<pc, result, running_, core_live, core_run>>
  BY Zenon DEF pyVars, clientVars, lockVars, runVars, CorePush, CoreFault
<1>2. core_live
  BY DEF CorePush, CoreFault
<1>3. LabelInv' /\ ResultInv' /\ HolderInv'
  BY <1>1 DEF LockInv, LabelInv, ResultInv, HolderInv
<1>4. /\ UNCHANGED closed_
      /\ samples_' \in Seq(Nat)
      /\ ~closed_ => \A i \in 1 .. Len(samples_') : samples_'[i] = core_run
  <2>1. CASE CorePush
    BY <2>1, PushFacts, Zenon DEF CorePush, LockInv, TokenInv
  <2>2. CASE CoreFault
    BY <2>2 DEF CoreFault, queueVars, LockInv, TokenInv
  <2> QED BY <2>1, <2>2
<1>5. PhaseInv'
  <2>1. \A t \in Threads : pc[t] # "native_spawn"
    BY <1>2 DEF LockInv, PhaseInv, Resting
  <2> QED BY <1>1, <1>4, <2>1 DEF LockInv, PhaseInv, Free
<1>6. TokenInv'
  BY <1>1, <1>4 DEF LockInv, TokenInv
<1> QED BY <1>3, <1>5, <1>6 DEF LockInv

(* A client that was just constructed satisfies the lock invariant.        *)
LEMMA LockInit == Init => LockInv
<1> SUFFICES ASSUME Init PROVE LockInv
  OBVIOUS
<1> USE DEF Init, NativeInit, QueueInit
<1>1. \A t \in Threads : pc[t] = IF t \in Apps THEN "idle" ELSE "new"
  OBVIOUS
<1>2. \A t \in Threads : pc[t] \notin Locked /\ pc[t] # "read_done"
  BY <1>1 DEF Locked, Starting, Stopping, Resting
<1>3. LabelInv
  <2>1. "idle" \in AppLabels /\ "new" \in DispatcherLabels
    BY DEF AppLabels, DispatcherLabels
  <2> QED BY <1>1, <1>2, <2>1, ThreadsApart, Zenon DEF LabelInv, Threads, Locked
<1>4. ResultInv
  BY <1>2 DEF ResultInv, Result, NoResult, NoSample, Threads
<1>5. HolderInv
  BY <1>2, ThreadsApart DEF HolderInv
<1>6. PhaseInv
  BY <1>2 DEF PhaseInv, Locked, Starting, Stopping
<1>7. TokenInv
  BY <1>2, NativeBounds DEF TokenInv, Locked, Starting
<1> QED BY <1>3, <1>4, <1>5, <1>6, <1>7 DEF LockInv

(* Every step keeps the lock invariant.                                    *)
LEMMA LockNext == LockInv /\ [Next]_vars => LockInv'
<1> SUFFICES ASSUME LockInv, [Next]_vars PROVE LockInv'
  OBVIOUS
<1>1. CASE (CorePush \/ CoreFault) /\ UNCHANGED pyVars
  BY <1>1, CoreLock
<1>2. ASSUME NEW t \in Threads, Call(t) \/ ThreadStep(t) PROVE LockInv'
  BY <1>2, StepKinds, QuietLock, LockStepKeeps, Zenon
<1>3. CASE UNCHANGED vars
  <2>1. /\ UNCHANGED <<_lock, _running, _mode, _run_token, objects, then>>
        /\ UNCHANGED <<pc, result, running_, core_live, core_run, samples_, closed_>>
    BY <1>3, Zenon DEF vars, pyVars, clientVars, lockVars, runVars, nativeVars, coreVars,
                       queueVars
  <2> QED BY <2>1 DEF LockInv, LabelInv, ResultInv, HolderInv, PhaseInv, TokenInv, Free
<1> QED BY <1>1, <1>2, <1>3, Zenon DEF Next

-----------------------------------------------------------------------------
(* Callback runs and their dispatchers.                                    *)

Run == [token : Nat, activation : {"unset", "active", "cancelled"}, thread : BOOLEAN,
        error : {"none", "callback", "fault"}]

Unstarted == {"new", "await", "finish", "done"}

RunType ==
  /\ run \in [Dispatchers -> Run]
  /\ _callback_run \in 0 .. objects
  /\ joining \in [Threads -> 0 .. MaxRuns]
  /\ requested \in [Apps -> {None, "iterator", "callback"}]

(* A run that was activated is over, or it is the last one and nobody has  *)
(* joined its dispatcher; one that was not delivers nothing.               *)
ActiveInv ==
  \A d \in Dispatchers :
    IF run[d].activation = "active"
    THEN run[d].token <= _run_token /\ (pc[d] = "done" \/ (d = _callback_run /\ run[d].thread))
    ELSE pc[d] \in Unstarted

(* While start() holds the lock the dispatcher of the last run is joined,  *)
(* and that of the run being started waits for its activation.             *)
StartInv ==
  \A p \in Apps : pc[p] \in Starting =>
    /\ ~MustJoin
    /\ requested[p] \in {"iterator", "callback"}
    /\ requested[p] = "callback" =>
         /\ objects \in Dispatchers /\ objects # _callback_run
         /\ run[objects].token = _run_token + 1
         /\ run[objects].activation = "unset" /\ run[objects].thread
         /\ pc[objects] = "await"

RunInv == RunType /\ ActiveInv /\ StartInv

(* A step that changes no run: where the thread goes, and what it may do   *)
(* to its own call.                                                        *)
SteadyMove(t) ==
  /\ UNCHANGED <<run, objects, _callback_run, _run_token>>
  /\ joining' \in [Threads -> 0 .. MaxRuns]
  /\ requested' \in [Apps -> {None, "iterator", "callback"}]
  /\ \A p \in Apps : p # t => requested'[p] = requested[p]
  /\ \E label :
       /\ Goto(t, label)
       /\ t \in Apps /\ label \in Starting =>
            /\ requested'[t] = requested[t]
            /\ pc[t] \in Starting \/ (~MustJoin /\ requested[t] = "iterator")
       /\ t \in Dispatchers =>
            /\ pc[t] \notin {"new", "done"}
            /\ pc[t] = "await" => run[t].activation # "unset"
            /\ pc[t] = "await" /\ run[t].activation # "active" => label = "finish"
            /\ pc[t] = "finish" => label = "done"

(* A dispatcher was joined, or it recorded an error.                       *)
FieldMove(t) ==
  /\ Free
  /\ UNCHANGED <<objects, _callback_run, _run_token, requested>>
  /\ joining' \in [Threads -> 0 .. MaxRuns]
  /\ \/ \E d \in Dispatchers : pc[d] = "done" /\ run' = [run EXCEPT ![d].thread = FALSE]
     \/ \E d \in Dispatchers, error \in {"callback", "fault"} :
          run' = [run EXCEPT ![d].error = error]
  /\ \E label : /\ Goto(t, label)
                /\ label \notin Starting
                /\ t \in Dispatchers => pc[t] \notin Unstarted

(* start() creates a dispatcher.                                           *)
Creates(t) ==
  /\ t \in Apps
  /\ Start(t) /\ StartCallbackLocked(t) /\ _lock' = t

RunStep(t) ==
  \/ SteadyMove(t)
  \/ FieldMove(t)
  \/ Creates(t)
  \/ t \in Apps /\ StartCommit(t)
  \/ t \in Apps /\ StartFailed(t)

(* What a step does to the callback runs: nothing, one field of one run,   *)
(* or one of the three steps of start() that create, activate or cancel a  *)
(* run.                                                                    *)
LEMMA RunKinds ==
  ASSUME LockInv, RunInv, NEW t \in Threads, Call(t) \/ ThreadStep(t)
  PROVE  RunStep(t)
<1>t. /\ t \in Apps \/ t \in Dispatchers
      /\ t \in Apps => pc[t] \in AppLabels
      /\ t \in Dispatchers => pc[t] \in DispatcherLabels
      /\ ~(t \in Apps /\ t \in Dispatchers)
  BY ThreadsApart DEF LockInv, LabelInv, Threads
<1>l. /\ Starting = {"native_running", "start_commit", "native_start", "native_reset",
                     "native_spawn", "start_failed"}
      /\ Stopping = {"native_stop", "native_stop_core"}
      /\ Reading = {"read", "read_guard", "read_wait", "read_again", "read_done"}
      /\ Starting \cap DispatcherLabels = {}
      /\ AppThen \cap Starting = {} /\ DispatcherThen \cap Starting = {}
  BY DEF Starting, Resting, Stopping, Reading, DispatcherLabels, AppThen, DispatcherThen
<1>y. /\ joining \in [Threads -> 0 .. MaxRuns]
      /\ requested \in [Apps -> {None, "iterator", "callback"}]
      /\ run \in [Dispatchers -> Run]
      /\ objects \in 0 .. MaxRuns /\ _callback_run \in 0 .. objects
      /\ _callback_run \in 0 .. MaxRuns /\ MaxRuns \in Nat
  BY NativeBounds DEF LockInv, TokenInv, RunInv, RunType
(* Steps that change neither a run nor the arguments of a call.            *)
<1>m. ASSUME UNCHANGED <<run, objects, _callback_run, _run_token, requested>>,
             joining' \in [Threads -> 0 .. MaxRuns],
             NEW label, Goto(t, label),
             t \in Apps /\ label \in Starting => pc[t] \in Starting,
             t \in Dispatchers => pc[t] \notin {"new", "await", "finish", "done"}
      PROVE  RunStep(t)
  BY <1>m, <1>y, Zenon DEF RunStep, SteadyMove
<1> USE DEF clientVars, lockVars, runVars, callVars, history
<1>1. CASE Call(t)
  <2>1. CASE pc[t] = "callback" /\ Goto(t, "stop") /\ UNCHANGED requested
    BY <1>1, <2>1, <1>m, <1>l, <1>y, Zenon DEF Call
  <2>2. CASE pc[t] = "idle"
    <3>1. t \in Apps
      BY <1>t, <2>2, Zenon DEF DispatcherLabels, Reading, Stopping
    <3>2. CASE Goto(t, "start") /\ \E mode \in {"iterator", "callback"} :
                 requested' = [requested EXCEPT ![t] = mode]
      BY <1>1, <3>1, <3>2, <1>t, <1>l, <1>y, Zenon DEF Call, RunStep, SteadyMove
    <3>3. CASE UNCHANGED requested /\ \E label \in {"stop", "samples", "wait", "next"} :
                 Goto(t, label)
      BY <1>1, <2>2, <3>1, <3>3, <1>m, <1>t, <1>l, <1>y, Zenon DEF Call
    <3> QED BY <1>1, <2>2, <3>2, <3>3, Zenon DEF Call
  <2> QED BY <1>1, <2>1, <2>2, Zenon DEF Call
<1>2. CASE NativeStep(t) /\ UNCHANGED pyVars
  <2>1. /\ UNCHANGED <<run, objects, _callback_run, _run_token, requested, joining>>
    BY <1>2, Zenon DEF pyVars
  <2>2. CASE NativeStart(t) \/ NativeReset(t) \/ NativeSpawn(t) \/ NativeSpawnFails(t)
             \/ NativeRunning(t) \/ NativeStop(t)
    <3>1. \E label : /\ Goto(t, label)
                     /\ pc[t] \in Starting \/ (pc[t] \in Stopping /\ label \in Stopping)
      BY <2>2, <1>l DEF NativeStart, NativeReset, NativeSpawn, NativeSpawnFails,
                        NativeRunning, NativeStop
    <3> QED BY <1>m, <1>y, <1>l, <2>1, <3>1, Zenon
  <2>3. CASE Read(t) \/ ReadGuard(t) \/ ReadWait(t) \/ ReadAgain(t)
    <3>1. \E label : Goto(t, label) /\ pc[t] \in Reading /\ label \in Reading
      BY <2>3, <1>l, Zenon DEF Read, ReadGuard, ReadWait, ReadAgain, ReadReturns
    <3> QED BY <1>m, <1>y, <1>l, <2>1, <3>1, Zenon
  <2> QED BY <1>2, <2>2, <2>3, Zenon DEF NativeStep
<1>3. CASE StopLockedEnds(t)
  <2>1. then \notin Starting /\ pc[t] = "native_stop_core"
    BY <1>3, <1>t, <1>l DEF StopLockedEnds, NativeStopCore, LockInv, LabelInv
  <2> QED BY <1>3, <2>1, <1>m, <1>y, Zenon DEF StopLockedEnds, NativeStopCore
<1>4. CASE ReadReturned(t)
  <2>1. /\ pc[t] = "read_done"
        /\ UNCHANGED <<run, objects, _callback_run, _run_token, requested, joining>>
    BY <1>4, Zenon DEF ReadReturned, IterReturn, DispatchReturn, iterFrame, dispatchFrame
  <2>2. \E label : Goto(t, label) /\ (t \in Apps => label \notin Starting)
    BY <1>4, <1>t, <1>l DEF ReadReturned, IterReturn, DispatchReturn, EndIterator
  <2> QED BY <1>m, <1>y, <2>1, <2>2
<1>5. CASE PyStep(t)
  <2>2. CASE Stop(t)
    <3>1. ToJoin(t) \in 0 .. MaxRuns
      BY <1>y DEF ToJoin
    <3>2. joining' \in [Threads -> 0 .. MaxRuns]
      BY <2>2, <3>1, <1>y DEF Stop
    <3> QED BY <2>2, <3>2, <1>m, <1>l, <1>t DEF Stop, StopLocked, Return
  <2>3. CASE Joined(t) /\ \E label : Goto(t, label) /\ label \notin Starting
             /\ pc[t] \in {"stop_join", "start_join"}
    <3>1. joining' \in [Threads -> 0 .. MaxRuns]
      BY <2>3, <1>y DEF Joined
    <3>2. CASE UNCHANGED run
      BY <2>3, <3>1, <3>2, <1>m DEF Joined
    <3>3. CASE run' # run
      BY <2>3, <3>1, <3>3, <1>y, Zenon
         DEF Joined, RunStep, FieldMove, Unstarted, Dispatchers
    <3> QED BY <3>2, <3>3
  <2>4. CASE StopJoin(t)
    BY <2>3, <2>4, <1>l DEF StopJoin, Return
  <2>5. CASE t \in Apps /\ AppStep(t)
    <3>1. CASE Start(t)
      <4>1. CASE /\ joining' = [joining EXCEPT ![t] = _callback_run]
                 /\ Goto(t, "start_join") /\ UNCHANGED <<runVars, requested>>
        <5>1. joining' \in [Threads -> 0 .. MaxRuns]
          BY <4>1, <1>y
        <5> QED BY <2>5, <3>1, <4>1, <5>1, <1>m, <1>l, <1>t DEF Start
      <4>2. CASE StartIteratorLocked(t) /\ ~MustJoin
        BY <2>5, <3>1, <4>2, <1>l, <1>y, <1>t, SMTT(30)
           DEF Start, StartIteratorLocked, StartCallbackLocked, RunStep, SteadyMove
      <4>3. CASE requested' = [requested EXCEPT ![t] = None] /\ Goto(t, "idle")
                 /\ UNCHANGED runVars
        BY <2>5, <3>1, <4>3, <1>l, <1>y, <1>t DEF Start, RunStep, SteadyMove
      <4>4. CASE StartCallbackLocked(t) /\ _lock' = t
        BY <2>5, <3>1, <4>4, Zenon DEF RunStep, Creates
      <4> QED BY <3>1, <4>1, <4>2, <4>3, <4>4, Zenon
              DEF Start, StartCallbackLocked, runVars
    <3>2. CASE StartJoin(t)
      BY <2>3, <3>2, <1>l DEF StartJoin
    <3>3. CASE FailedJoin(t) \/ Wait(t) \/ Waited(t)
      <4>1. joining' \in [Threads -> 0 .. MaxRuns]
        BY <3>3, <1>y DEF FailedJoin, Wait, Waited
      <4> QED BY <2>5, <3>3, <4>1, <1>m, <1>l, <1>t, Zenon DEF FailedJoin, Wait, Waited
    <3>4. CASE StartCommit(t) \/ StartFailed(t)
      BY <2>5, <3>4, Zenon DEF RunStep
    <3>5. CASE Samples(t) \/ IterNext(t) \/ IterClosed(t)
      <4>1. UNCHANGED <<run, objects, _callback_run, _run_token, requested, joining>>
        BY <3>5, Zenon DEF Samples, IterNext, IterClosed, iterFrame
      <4>2. \E label : Goto(t, label) /\ label \notin Starting
        BY <3>5, <1>l DEF Samples, IterNext, IterClosed, EndIterator, StopLocked
      <4> QED BY <2>5, <4>1, <4>2, <1>m, <1>y, <1>t
    <3> QED BY <2>5, <3>1, <3>2, <3>3, <3>4, <3>5, Zenon DEF AppStep
  <2>6. CASE t \in Dispatchers /\ DispatcherStep(t)
    <3>1. CASE Check(t) \/ CallbackEnds(t)
      BY <2>6, <3>1, <1>m, <1>y, <1>t, Zenon DEF Check, CallbackEnds, dispatchFrame
    <3>2. CASE Await(t) \/ Finish(t)
      BY <2>6, <3>2, <1>y, <1>t DEF Await, Finish, dispatchFrame, RunStep, SteadyMove
    <3>3. CASE RecordError(t) \/ FinishCallbackClosed(t)
      <4>1. /\ Free /\ pc[t] \in {"record_error", "closed"}
            /\ UNCHANGED <<objects, _callback_run, _run_token, requested, joining>>
            /\ UNCHANGED run \/ \E error \in {"callback", "fault"} :
                                  run' = [run EXCEPT ![t].error = error]
        BY <3>3 DEF RecordError, FinishCallbackClosed, Record, dispatchFrame
      <4>2. \E label : Goto(t, label) /\ label \notin Starting
        BY <3>3, <1>l DEF RecordError, FinishCallbackClosed, StopIfCurrent, StopLocked
      <4>3. CASE UNCHANGED run
        BY <2>6, <4>1, <4>2, <4>3, <1>m, <1>y, <1>t
      <4>4. CASE \E error \in {"callback", "fault"} : run' = [run EXCEPT ![t].error = error]
        BY <2>6, <4>1, <4>2, <4>4, <1>y, <1>t, Zenon DEF RunStep, FieldMove, Unstarted
      <4> QED BY <4>1, <4>3, <4>4
    <3> QED BY <2>6, <3>1, <3>2, <3>3, Zenon DEF DispatcherStep
  <2> QED BY <1>5, <2>2, <2>4, <2>5, <2>6, Zenon DEF PyStep
<1> QED BY <1>1, <1>2, <1>3, <1>4, <1>5, Zenon DEF ThreadStep

(* A step that leaves the runs alone keeps the run invariant.              *)
LEMMA SteadyRun ==
  ASSUME LockInv, RunInv, NEW t \in Threads, SteadyMove(t), LockInv'
  PROVE  RunInv'
<1>1. PICK label :
       /\ Goto(t, label)
       /\ t \in Apps /\ label \in Starting =>
            /\ requested'[t] = requested[t]
            /\ pc[t] \in Starting \/ (~MustJoin /\ requested[t] = "iterator")
       /\ t \in Dispatchers =>
            /\ pc[t] \notin {"new", "done"}
            /\ pc[t] = "await" => run[t].activation # "unset"
            /\ pc[t] = "await" /\ run[t].activation # "active" => label = "finish"
            /\ pc[t] = "finish" => label = "done"
  BY Zenon DEF SteadyMove
<1>2. pc'[t] = label /\ \A u \in Threads : u # t => pc'[u] = pc[u]
  BY <1>1, GotoEffect, Zenon DEF LockInv
<1>3. /\ UNCHANGED <<run, objects, _callback_run, _run_token>>
      /\ joining' \in [Threads -> 0 .. MaxRuns]
      /\ requested' \in [Apps -> {None, "iterator", "callback"}]
      /\ \A p \in Apps : p # t => requested'[p] = requested[p]
  BY Zenon DEF SteadyMove
<1>4. RunType'
  BY <1>3, Zenon DEF RunInv, RunType
<1>5. ActiveInv'
  BY <1>1, <1>2, <1>3, Zenon DEF RunInv, ActiveInv, Unstarted, Threads
<1>6. StartInv'
  <2> SUFFICES ASSUME NEW p \in Apps, pc'[p] \in Starting
               PROVE  /\ ~MustJoin
                      /\ requested'[p] \in {"iterator", "callback"}
                      /\ requested'[p] = "callback" =>
                           /\ objects \in Dispatchers /\ objects # _callback_run
                           /\ run[objects].token = _run_token + 1
                           /\ run[objects].activation = "unset" /\ run[objects].thread
                           /\ pc'[objects] = "await"
    BY <1>3, Zenon DEF StartInv, MustJoin
  <2>1. \/ pc[p] \in Starting /\ requested'[p] = requested[p]
        \/ ~MustJoin /\ requested'[p] = "iterator"
    BY <1>1, <1>2, <1>3, Zenon DEF Threads
  <2>2. pc[p] \in Starting /\ requested[p] = "callback" => pc'[objects] = "await"
    BY <1>1, <1>2, Zenon DEF RunInv, StartInv, Threads
  <2> QED BY <2>1, <2>2, Zenon DEF RunInv, StartInv
<1> QED BY <1>4, <1>5, <1>6 DEF RunInv

(* A step that changes one field of one run (its error, its thread once    *)
(* joined) keeps the run invariant.                                        *)
LEMMA FieldRun ==
  ASSUME LockInv, RunInv, NEW t \in Threads, FieldMove(t)
  PROVE  RunInv'
<1>1. PICK label : /\ Goto(t, label)
                   /\ label \notin Starting
                   /\ t \in Dispatchers => pc[t] \notin Unstarted
  BY Zenon DEF FieldMove
<1>2. pc'[t] = label /\ \A u \in Threads : u # t => pc'[u] = pc[u]
  BY <1>1, GotoEffect, Zenon DEF LockInv
<1>3. /\ Free
      /\ UNCHANGED <<objects, _callback_run, _run_token, requested>>
      /\ joining' \in [Threads -> 0 .. MaxRuns]
  BY Zenon DEF FieldMove
<1> DEFINE Kept(d) == /\ run'[d].activation = run[d].activation
                      /\ run'[d].token = run[d].token
                      /\ run'[d].thread = run[d].thread \/ pc[d] = "done"
<1>4. run' \in [Dispatchers -> Run] /\ \A d \in Dispatchers : Kept(d)
  <2>1. run \in [Dispatchers -> Run]
    BY DEF RunInv, RunType
  <2>2. ASSUME NEW d \in Dispatchers, pc[d] = "done", run' = [run EXCEPT ![d].thread = FALSE]
        PROVE  run' \in [Dispatchers -> Run] /\ \A e \in Dispatchers : Kept(e)
    BY <2>1, <2>2, Zenon DEF Run
  <2>3. ASSUME NEW d \in Dispatchers, NEW error \in {"callback", "fault"},
               run' = [run EXCEPT ![d].error = error]
        PROVE  run' \in [Dispatchers -> Run] /\ \A e \in Dispatchers : Kept(e)
    BY <2>1, <2>3 DEF Run
  <2> QED BY <2>2, <2>3 DEF FieldMove
<1>5. ActiveInv'
  BY <1>1, <1>2, <1>3, <1>4, Zenon DEF RunInv, ActiveInv, Unstarted, Threads
<1>6. StartInv'
  <2>1. \A p \in Apps : pc'[p] \notin Starting
    BY <1>1, <1>2, <1>3, HolderAlone DEF Threads, Locked
  <2> QED BY <2>1, Zenon DEF StartInv
<1> QED BY <1>3, <1>4, <1>5, <1>6 DEF RunInv, RunType

(* The _CallbackRun that start() makes.                                    *)
LEMMA NewRun ==
  ASSUME NEW n \in Nat, NEW new, new = [NoRun EXCEPT !.token = n, !.thread = TRUE]
  PROVE  new \in Run /\ new.token = n /\ new.activation = "unset" /\ new.thread = TRUE
<1>1. NoRun \in Run
  BY DEF NoRun, Run
<1>2. new \in Run
  BY <1>1, Zenon DEF Run
<1> QED BY <1>2 DEF NoRun

(* start() in callback mode, which creates the next run, keeps the run     *)
(* invariant.                                                              *)
LEMMA CreateRun ==
  ASSUME LockInv, RunInv, NEW t \in Apps, Creates(t), LockInv'
  PROVE  RunInv'
<1>0. t \in Threads /\ t \notin Dispatchers
  BY ThreadsApart DEF Threads
<1>1. /\ Free /\ ~MustJoin
      /\ objects < MaxRuns /\ objects' = objects + 1
      /\ run' = [run EXCEPT ![objects'] =
                     [NoRun EXCEPT !.token = _run_token + 1, !.thread = TRUE]]
      /\ pc' = [pc EXCEPT ![t] = "native_start", ![objects'] = "await"]
      /\ UNCHANGED <<_callback_run, _run_token, requested, joining>>
      /\ requested[t] = "callback"
  BY <1>0, ThreadsApart DEF Creates, Start, StartCallbackLocked, StartIteratorLocked, Free
<1>2. /\ objects \in 0 .. MaxRuns /\ _run_token \in Nat /\ MaxRuns \in Nat
      /\ run \in [Dispatchers -> Run] /\ _callback_run \in 0 .. objects
  BY NativeBounds, Zenon DEF LockInv, TokenInv, RunInv, RunType
<1>3. objects' \in Dispatchers /\ objects' # _callback_run /\ objects' \in 0 .. MaxRuns
      /\ _callback_run \in 0 .. objects'
  BY <1>1, <1>2 DEF Dispatchers
<1> DEFINE new == [NoRun EXCEPT !.token = _run_token + 1, !.thread = TRUE]
<1>n. /\ new \in Run
      /\ new.token = _run_token + 1 /\ new.activation = "unset" /\ new.thread = TRUE
  <2>1. _run_token + 1 \in Nat
    BY <1>2
  <2> QED BY <2>1, NewRun, Zenon
<1> HIDE DEF new
<1>4. /\ run'[objects'] = new /\ run' \in [Dispatchers -> Run]
      /\ \A d \in Dispatchers : d # objects' => run'[d] = run[d]
  <2>1. run' = [run EXCEPT ![objects'] = new]
    BY <1>1, Zenon DEF new
  <2> QED BY <1>2, <1>3, <1>n, <2>1
<1>5. /\ pc'[t] = "native_start" /\ pc'[objects'] = "await"
      /\ \A u \in Threads : u # t /\ u # objects' => pc'[u] = pc[u]
  BY <1>0, <1>1, <1>3 DEF LockInv, LabelInv, Threads
<1>6. RunType'
  BY <1>1, <1>3, <1>4 DEF RunInv, RunType
<1>7. ActiveInv'
  <2>1. run'[objects'].activation # "active" /\ pc'[objects'] \in Unstarted
    BY <1>4, <1>5, <1>n DEF Unstarted
  <2>2. \A d \in Dispatchers : d # objects' => run'[d] = run[d] /\ pc'[d] = pc[d]
    BY <1>0, <1>4, <1>5 DEF Threads
  <2> QED BY <1>1, <2>1, <2>2, Zenon DEF RunInv, ActiveInv
<1>8. StartInv'
  <2>1. \A p \in Apps : p # t => pc'[p] \notin Starting
    BY <1>0, <1>1, <1>3, <1>5, HolderAlone, ThreadsApart, Zenon DEF Threads, Locked
  <2>2. ~MustJoin'
    BY <1>1, <1>2, <1>3, <1>4 DEF MustJoin, Dispatchers
  <2>3. /\ requested'[t] = "callback" /\ _run_token' = _run_token
        /\ run'[objects'].token = _run_token + 1
        /\ run'[objects'].activation = "unset" /\ run'[objects'].thread
    BY <1>1, <1>4, <1>n, Zenon
  <2> QED BY <1>1, <1>3, <1>5, <2>1, <2>2, <2>3, Zenon DEF StartInv
<1> QED BY <1>6, <1>7, <1>8 DEF RunInv

(* The commit of start(), which activates the new run, keeps the run       *)
(* invariant.                                                              *)
LEMMA CommitRun ==
  ASSUME LockInv, RunInv, NEW t \in Apps, StartCommit(t)
  PROVE  RunInv'
<1>0. t \in Threads /\ t \notin Dispatchers
  BY ThreadsApart DEF Threads
<1>1. /\ pc[t] = "start_commit" /\ pc[t] \in Starting /\ pc[t] \in Locked
      /\ _run_token' = _run_token + 1
      /\ requested' = [requested EXCEPT ![t] = None]
      /\ Goto(t, "idle") /\ "idle" \notin Starting
      /\ UNCHANGED <<objects, joining>>
      /\ \/ requested[t] = "iterator" /\ _callback_run' = 0 /\ UNCHANGED run
         \/ /\ requested[t] = "callback" /\ _callback_run' = objects
            /\ run' = [run EXCEPT ![objects].activation = "active"]
  BY DEF StartCommit, Locked, Starting, Resting
<1>2. /\ objects \in 0 .. MaxRuns /\ _run_token \in Nat /\ MaxRuns \in Nat
      /\ run \in [Dispatchers -> Run] /\ _callback_run \in 0 .. objects
  BY NativeBounds DEF LockInv, TokenInv, RunInv, RunType
<1>3. /\ pc'[t] = "idle" /\ \A u \in Threads : u # t => pc'[u] = pc[u]
  BY <1>0, <1>1, GotoEffect DEF LockInv
<1>4. StartInv'
  <2>1. \A p \in Apps : pc'[p] \notin Starting
    BY <1>0, <1>1, <1>3, HolderAlone DEF Threads, Locked
  <2> QED BY <2>1 DEF StartInv
<1>5. /\ requested' \in [Apps -> {None, "iterator", "callback"}]
      /\ joining' \in [Threads -> 0 .. MaxRuns]
  BY <1>1 DEF RunInv, RunType
<1>6. \A d \in Dispatchers : run[d].activation = "active" =>
        run[d].token <= _run_token /\ pc'[d] = "done"
  BY <1>0, <1>1, <1>2, <1>3 DEF RunInv, ActiveInv, StartInv, MustJoin, Dispatchers, Threads
<1>7. \A d \in Dispatchers : run[d].activation # "active" => pc'[d] \in Unstarted
  BY <1>0, <1>3 DEF RunInv, ActiveInv, Threads
<1>8. \A d \in Dispatchers : run[d].token \in Nat
  BY <1>2 DEF Run
<1>9. CASE requested[t] = "iterator" /\ _callback_run' = 0 /\ UNCHANGED run
  <2>1. ActiveInv'
    BY <1>1, <1>2, <1>6, <1>7, <1>8, <1>9 DEF ActiveInv
  <2>2. RunType'
    BY <1>1, <1>2, <1>5, <1>9 DEF RunType
  <2> QED BY <1>4, <2>1, <2>2 DEF RunInv
<1>10. CASE /\ requested[t] = "callback" /\ _callback_run' = objects
            /\ run' = [run EXCEPT ![objects].activation = "active"]
  <2>1. /\ objects \in Dispatchers /\ run[objects].token = _run_token + 1 /\ run[objects].thread
    BY <1>1, <1>10 DEF RunInv, StartInv
  <2>2. /\ run' \in [Dispatchers -> Run]
        /\ run'[objects].token = _run_token + 1 /\ run'[objects].thread
        /\ run'[objects].activation = "active"
        /\ \A d \in Dispatchers : d # objects => run'[d] = run[d]
    BY <1>2, <1>10, <2>1 DEF Run
  <2>3. ActiveInv'
    BY <1>1, <1>2, <1>6, <1>7, <1>8, <1>10, <2>1, <2>2 DEF ActiveInv
  <2>4. RunType'
    BY <1>1, <1>2, <1>5, <1>10, <2>2 DEF RunType
  <2> QED BY <1>4, <2>3, <2>4 DEF RunInv
<1> QED BY <1>1, <1>9, <1>10

(* The failure path of start(), which cancels the new run, keeps the run   *)
(* invariant.                                                              *)
LEMMA CancelRun ==
  ASSUME LockInv, RunInv, NEW t \in Apps, StartFailed(t)
  PROVE  RunInv'
<1>0. t \in Threads /\ t \notin Dispatchers
  BY ThreadsApart DEF Threads
<1>1. /\ pc[t] \in Starting /\ pc[t] \in Locked
      /\ requested' = [requested EXCEPT ![t] = None]
      /\ Goto(t, "native_stop") /\ "native_stop" \notin Starting
      /\ UNCHANGED <<objects, _callback_run, _run_token>>
      /\ \/ requested[t] = "iterator" /\ UNCHANGED <<run, joining>>
         \/ /\ requested[t] = "callback"
            /\ run' = [run EXCEPT ![objects].activation = "cancelled"]
            /\ joining' = [joining EXCEPT ![t] = objects]
  BY DEF StartFailed, Cancel, Locked, Starting, Resting
<1>2. /\ objects \in 0 .. MaxRuns /\ run \in [Dispatchers -> Run]
  BY DEF LockInv, TokenInv, RunInv, RunType
<1>3. /\ pc'[t] = "native_stop" /\ \A u \in Threads : u # t => pc'[u] = pc[u]
  BY <1>0, <1>1, GotoEffect DEF LockInv
<1>4. StartInv'
  <2>1. \A p \in Apps : pc'[p] \notin Starting
    BY <1>0, <1>1, <1>3, HolderAlone DEF Threads, Locked
  <2> QED BY <2>1 DEF StartInv
<1>5. CASE requested[t] = "iterator" /\ UNCHANGED <<run, joining>>
  BY <1>0, <1>1, <1>3, <1>4, <1>5 DEF RunInv, RunType, ActiveInv, Threads
<1>6. CASE /\ requested[t] = "callback"
           /\ run' = [run EXCEPT ![objects].activation = "cancelled"]
           /\ joining' = [joining EXCEPT ![t] = objects]
  <2>1. objects \in Dispatchers /\ pc[objects] = "await"
    BY <1>1, <1>6 DEF RunInv, StartInv
  <2>2. /\ run' \in [Dispatchers -> Run]
        /\ run'[objects].activation = "cancelled"
        /\ \A d \in Dispatchers : d # objects => run'[d] = run[d]
    BY <1>2, <1>6, <2>1 DEF Run
  <2>3. ActiveInv'
    BY <1>0, <1>1, <1>3, <2>1, <2>2 DEF RunInv, ActiveInv, Unstarted, Threads
  <2>4. RunType'
    BY <1>0, <1>1, <1>2, <1>6, <2>2 DEF RunInv, RunType
  <2> QED BY <1>4, <2>3, <2>4 DEF RunInv
<1> QED BY <1>1, <1>5, <1>6

(* A client that was just constructed satisfies the run invariant.         *)
LEMMA RunInit == Init => RunInv
<1> SUFFICES ASSUME Init PROVE RunInv
  OBVIOUS
<1>1. \A t \in Threads : pc[t] = IF t \in Apps THEN "idle" ELSE "new"
  BY Zenon DEF Init
<1>2. \A d \in Dispatchers : pc[d] = "new" /\ run[d].activation = "unset"
  BY <1>1, ThreadsApart, Zenon DEF Init, NoRun, Threads
<1>3. RunType
  BY NativeBounds DEF RunType, Init, NoRun, Run
<1>4. ActiveInv
  BY <1>2 DEF ActiveInv, Unstarted
<1>5. StartInv
  BY <1>1 DEF StartInv, Starting, Resting, Threads
<1> QED BY <1>3, <1>4, <1>5 DEF RunInv

(* Every step keeps the run invariant.                                     *)
LEMMA RunNext == LockInv /\ RunInv /\ [Next]_vars => RunInv'
<1> SUFFICES ASSUME LockInv, RunInv, [Next]_vars PROVE RunInv'
  OBVIOUS
<1>1. ASSUME NEW t \in Threads, Call(t) \/ ThreadStep(t) PROVE RunInv'
  <2>1. RunStep(t) /\ LockInv'
    BY <1>1, RunKinds, LockNext, Zenon DEF Next
  <2> QED BY <2>1, SteadyRun, FieldRun, CreateRun, CommitRun, CancelRun DEF RunStep, Creates
<1>2. ASSUME UNCHANGED pyVars, UNCHANGED pc PROVE RunInv'
  <2>1. UNCHANGED <<run, objects, _callback_run, _run_token, joining, requested, pc>>
    BY <1>2, Zenon DEF pyVars, clientVars, runVars, callVars
  <2> QED BY <2>1 DEF RunInv, RunType, ActiveInv, StartInv, MustJoin
<1>3. CASE UNCHANGED vars
  BY <1>2, <1>3, Zenon DEF vars
<1>4. CASE (CorePush \/ CoreFault) /\ UNCHANGED pyVars
  BY <1>2, <1>4, Zenon DEF CorePush, CoreFault
<1> QED BY <1>1, <1>3, <1>4, Zenon DEF Next

-----------------------------------------------------------------------------
(* Readers, which are outside the lock.                                    *)

Current(t) == IF t \in Apps THEN IteratorIsCurrent(iter[t]) ELSE CallbackRunIsCurrent(t)

TokenOf(t) == IF t \in Apps THEN iter[t] ELSE run[t].token

(* What a thread remembers of an earlier moment is not newer than now.     *)
LocalInv ==
  /\ iter \in [Apps -> Nat] /\ \A p \in Apps : iter[p] <= _run_token
  /\ stop_token \in [Threads -> Nat] /\ \A t \in Threads : stop_token[t] <= _run_token
  /\ generation \in [Threads -> Nat] /\ close_generation_ \in Nat

(* A reader whose run is still the current one captured the generation of  *)
(* the queue it reads, so it is told of a close only after a fault; and    *)
(* what it took is no older than its own run.                              *)
ReadFacts(t) ==
  /\ pc[t] \in {"read_guard", "read_wait", "read_again"} /\ Current(t) =>
       generation[t] = close_generation_
  /\ pc[t] = "read_done" => result[t].status # "none"
  /\ pc[t] = "read_done" /\ result[t].status = "Closed" /\ Current(t) => core_faulted
  /\ pc[t] = "closed" /\ Current(t) => core_faulted
  /\ pc[t] = "read_done" /\ result[t].status = "Sample" =>
       TokenOf(t) <= result[t].sample /\ result[t].sample <= core_run

ReadInv == LocalInv /\ \A t \in Threads : ReadFacts(t)

(* The locals of a thread are its own.                                     *)
LEMMA GenerationMoves ==
  ASSUME NEW t \in Threads, Call(t) \/ ThreadStep(t)
  PROVE  \/ UNCHANGED generation
         \/ \E g \in {0, close_generation_} : generation' = [generation EXCEPT ![t] = g]
<1>1. CASE Call(t) \/ StopLockedEnds(t) \/ PyStep(t) \/ ReadReturned(t)
  BY <1>1, Zenon DEF Call, StopLockedEnds, NativeStopCore, PyStep, ReadReturned, nativeVars
<1>2. CASE NativeStep(t)
  <2>1. CASE Read(t)
    BY <2>1 DEF Read
  <2>2. CASE ReadGuard(t) \/ ReadWait(t) \/ ReadAgain(t)
    BY <2>2, Zenon DEF ReadGuard, ReadWait, ReadAgain, ReadReturns
  <2> QED BY <1>2, <2>1, <2>2, Zenon
          DEF NativeStep, NativeStart, NativeReset, NativeSpawn, NativeSpawnFails,
              NativeRunning, NativeStop
<1> QED BY <1>1, <1>2, Zenon DEF ThreadStep

(* An application thread's iterator changes only by its own steps, to no   *)
(* iterator or to one of the current run.                                  *)
LEMMA IterMoves ==
  ASSUME NEW t \in Threads, Call(t) \/ ThreadStep(t)
  PROVE  \/ UNCHANGED iter
         \/ /\ t \in Apps
            /\ \E n \in {0, _run_token} : iter' = [iter EXCEPT ![t] = n]
            /\ Goto(t, "idle") \/ Goto(t, "native_stop")
<1> USE DEF callVars
<1>1. CASE Call(t) \/ StopLockedEnds(t) \/ (NativeStep(t) /\ UNCHANGED pyVars)
  BY <1>1, Zenon DEF Call, StopLockedEnds, pyVars
<1>2. CASE ReadReturned(t)
  BY <1>2, Zenon DEF ReadReturned, IterReturn, DispatchReturn, EndIterator, dispatchFrame
<1>3. CASE PyStep(t)
  <2>1. CASE Stop(t) \/ StopJoin(t)
    BY <2>1, Zenon DEF Stop, StopJoin, Joined
  <2>2. CASE t \in Apps /\ AppStep(t)
    <3>1. CASE Samples(t)
      BY <2>2, <3>1, Zenon DEF Samples
    <3>2. CASE IterNext(t) \/ IterClosed(t)
      BY <2>2, <3>2, Zenon DEF IterNext, IterClosed, EndIterator, StopLocked
    <3> QED BY <2>2, <3>1, <3>2, Zenon
            DEF AppStep, Start, StartJoin, StartCommit, StartFailed, FailedJoin, Joined, Wait,
                Waited
  <2>3. CASE t \in Dispatchers /\ DispatcherStep(t)
    BY <2>3, Zenon DEF DispatcherStep, Await, Check, CallbackEnds, RecordError,
                       FinishCallbackClosed, Finish, dispatchFrame
  <2> QED BY <1>3, <2>1, <2>2, <2>3, Zenon DEF PyStep
<1> QED BY <1>1, <1>2, <1>3, Zenon DEF ThreadStep

(* Which thread a caller is joining changes only by a step of that caller. *)
LEMMA JoiningMoves ==
  ASSUME NEW t \in Threads, Call(t) \/ ThreadStep(t)
  PROVE  UNCHANGED joining \/ \E n : joining' = [joining EXCEPT ![t] = n]
<1> USE DEF callVars
<1>1. CASE Call(t) \/ StopLockedEnds(t) \/ (NativeStep(t) /\ UNCHANGED pyVars)
  BY <1>1, Zenon DEF Call, StopLockedEnds, pyVars
<1>2. CASE ReadReturned(t)
  BY <1>2, Zenon DEF ReadReturned, IterReturn, DispatchReturn, iterFrame, dispatchFrame
<1>3. CASE PyStep(t)
  <2>1. CASE Stop(t) \/ StopJoin(t)
    BY <2>1, Zenon DEF Stop, StopJoin, Joined
  <2>2. CASE t \in Apps /\ AppStep(t)
    BY <2>2, Zenon
       DEF AppStep, Start, StartJoin, StartCommit, StartFailed, FailedJoin, Joined, Wait,
           Waited, Samples, IterNext, IterClosed, iterFrame
  <2>3. CASE t \in Dispatchers /\ DispatcherStep(t)
    BY <2>3, Zenon DEF DispatcherStep, Await, Check, CallbackEnds, RecordError,
                       FinishCallbackClosed, Finish, dispatchFrame
  <2> QED BY <1>3, <2>1, <2>2, <2>3, Zenon DEF PyStep
<1> QED BY <1>1, <1>2, <1>3, Zenon DEF ThreadStep

(* Only stop() looks which run is the last, or ends one for good.          *)
LEMMA HistoryMoves ==
  ASSUME NEW t \in Threads, Call(t) \/ ThreadStep(t)
  PROVE  UNCHANGED history \/ Stop(t)
<1> USE DEF history
<1>1. CASE Call(t) \/ StopLockedEnds(t) \/ (NativeStep(t) /\ UNCHANGED pyVars)
  BY <1>1, Zenon DEF Call, StopLockedEnds, pyVars
<1>2. CASE ReadReturned(t)
  BY <1>2, Zenon DEF ReadReturned, IterReturn, DispatchReturn, iterFrame, dispatchFrame
<1>3. CASE PyStep(t)
  <2>1. CASE StopJoin(t)
    BY <2>1, Zenon DEF StopJoin, Joined
  <2>2. CASE t \in Apps /\ AppStep(t)
    BY <2>2, Zenon
       DEF AppStep, Start, StartJoin, StartCommit, StartFailed, FailedJoin, Joined, Wait,
           Waited, Samples, IterNext, IterClosed, iterFrame
  <2>3. CASE t \in Dispatchers /\ DispatcherStep(t)
    BY <2>3, Zenon DEF DispatcherStep, Await, Check, CallbackEnds, RecordError,
                       FinishCallbackClosed, Finish, dispatchFrame
  <2> QED BY <1>3, <2>1, <2>2, <2>3, Zenon DEF PyStep
<1> QED BY <1>1, <1>2, <1>3, Zenon DEF ThreadStep

(* No run is current while the lock is held, so only the end of start()    *)
(* makes one current.                                                      *)
LEMMA LockStepRests ==
  ASSUME LockInv, LockInv', NEW t \in Threads, LockStep(t), ~(t \in Apps /\ StartCommit(t))
  PROVE  ~_running'
<1>1. ASSUME pc[t] \in Locked, UNCHANGED _running PROVE ~_running'
  BY <1>1, HolderAlone, ThreadsApart, Zenon DEF LockInv, PhaseInv, Free
<1>2. ASSUME _lock' = t PROVE ~_running'
  BY <1>2, ThreadsApart, Zenon DEF LockInv, PhaseInv, Free
<1>3. CASE Takes(t)
  <2>1. CASE t \in Apps /\ Start(t) /\ _lock' = t
    BY <2>1, <1>2
  <2> QED BY <1>3, <2>1, <1>2, Zenon
          DEF Takes, Stop, IterClosed, RecordError, FinishCallbackClosed, StopIfCurrent,
              StopLocked
<1>4. CASE /\ \/ NativeStart(t) \/ NativeReset(t) \/ NativeSpawn(t) \/ NativeSpawnFails(t)
              \/ NativeRunning(t) \/ NativeStop(t)
           /\ UNCHANGED pyVars
  <2>1. pc[t] \in Locked
    BY <1>4 DEF NativeStart, NativeReset, NativeSpawn, NativeSpawnFails, NativeRunning,
                NativeStop, Locked, Starting, Resting, Stopping
  <2> QED BY <1>1, <1>4, <2>1, Zenon DEF pyVars, clientVars, lockVars
<1>5. CASE StartFailed(t) \/ StopLockedEnds(t)
  <2>1. pc[t] \in Locked
    BY <1>5, Zenon
       DEF StartFailed, StopLockedEnds, NativeStopCore, Locked, Starting, Resting, Stopping
  <2> QED BY <1>1, <1>5, <2>1, Zenon DEF StartFailed, StopLockedEnds
<1> QED BY <1>3, <1>4, <1>5, Zenon DEF LockStep

(* The token of a run never changes, and tokens are given in order.        *)
LEMMA TokenKept ==
  ASSUME LockInv, RunInv, NEW t \in Threads, Call(t) \/ ThreadStep(t)
  PROVE  /\ _run_token' = _run_token \/ _run_token' = _run_token + 1
         /\ \A d \in Dispatchers : pc'[d] # "await" => run'[d].token = run[d].token
<1>1. RunStep(t)
  BY RunKinds
<1>2. run \in [Dispatchers -> Run]
  BY Zenon DEF RunInv, RunType
<1>3. CASE SteadyMove(t)
  BY <1>3 DEF SteadyMove
<1>4. CASE FieldMove(t)
  BY <1>2, <1>4 DEF FieldMove, Run
<1>5. CASE Creates(t)
  <2>1. /\ objects' = objects + 1 /\ objects < MaxRuns /\ UNCHANGED _run_token
        /\ run' = [run EXCEPT ![objects'] =
                       [NoRun EXCEPT !.token = _run_token + 1, !.thread = TRUE]]
        /\ pc' = [pc EXCEPT ![t] = "native_start", ![objects'] = "await"]
    BY <1>5, ThreadsApart DEF Creates, Start, StartCallbackLocked, Free
  <2>2. pc'[objects'] = "await" \/ objects' \notin Dispatchers
    BY <2>1 DEF LockInv, LabelInv, Threads
  <2>3. \A d \in Dispatchers : d # objects' => run'[d] = run[d]
    BY <1>2, <2>1
  <2> QED BY <2>1, <2>2, <2>3
<1>6. CASE t \in Apps /\ StartCommit(t)
  BY <1>2, <1>6 DEF StartCommit, Run
<1>7. CASE t \in Apps /\ StartFailed(t)
  BY <1>2, <1>7 DEF StartFailed, Cancel, Run
<1> QED BY <1>1, <1>3, <1>4, <1>5, <1>6, <1>7, Zenon DEF RunStep

(* A consumer that waits sees its run cease to be the current one, never   *)
(* become it; and while the run is current the queue is not closed and a   *)
(* fault is not forgotten.                                                 *)
LEMMA CurrentKept ==
  ASSUME LockInv, LockInv', RunInv, LocalInv, NEW t \in Threads, Call(t) \/ ThreadStep(t),
         NEW u \in Threads, pc'[u] # "await", u \in Apps => iter'[u] = iter[u],
         Current(u)'
  PROVE  /\ Current(u)
         /\ UNCHANGED close_generation_
         /\ core_faulted => core_faulted'
<1>0. /\ u \in Apps \/ u \in Dispatchers
      /\ ~(u \in Apps /\ u \in Dispatchers)
      /\ _run_token \in Nat
  BY ThreadsApart, Zenon DEF Threads, LockInv, TokenInv
<1>1. u \in Dispatchers => run'[u].token = run[u].token
  BY TokenKept, Zenon
<1>2. /\ _running'
      /\ u \in Apps => _mode' = "iterator" /\ _run_token' = iter[u]
      /\ u \in Dispatchers =>
           _mode' = "callback" /\ _run_token' = run[u].token /\ _callback_run' = u
  BY <1>0, <1>1, Zenon DEF Current, IteratorIsCurrent, CallbackRunIsCurrent
<1>3. CASE QuietMove(t)
  <2>1. UNCHANGED <<_running, _run_token, _callback_run, close_generation_, core_faulted>>
    BY <1>3, Zenon DEF QuietMove, lockedVars
  <2>2. _mode' = _mode
    BY <1>2, <1>3, <2>1, Zenon DEF QuietMove, LockInv, PhaseInv
  <2> QED BY <1>0, <1>2, <2>1, <2>2 DEF Current, IteratorIsCurrent, CallbackRunIsCurrent
<1>4. CASE t \in Apps /\ StartCommit(t)
  <2>1. /\ _run_token' = _run_token + 1 /\ pc[t] \in Starting /\ pc[t] = "start_commit"
        /\ requested[t] = "callback" \/ _callback_run' = 0
        /\ requested[t] = "callback" => _callback_run' = objects
        /\ Goto(t, "idle")
    BY <1>4, Zenon DEF StartCommit, Starting
  <2>2. u \notin Apps
    BY <1>0, <1>2, <2>1, SMTT(30) DEF LocalInv
  <2>3. u = objects /\ requested[t] = "callback"
    BY <1>0, <1>2, <2>1, <2>2 DEF Dispatchers
  <2>4. pc[u] = "await"
    BY <1>4, <2>1, <2>3, Zenon DEF RunInv, StartInv
  <2>5. pc'[u] = "await"
    BY <2>1, <2>4, GotoEffect, Zenon DEF LockInv
  <2> QED BY <2>5
<1>5. CASE LockStep(t) /\ ~(t \in Apps /\ StartCommit(t))
  BY <1>2, <1>5, LockStepRests
<1> QED BY <1>3, <1>4, <1>5, StepKinds, Zenon

(* Closing the queue, and the core's runs.                                 *)
LEMMA CountersGrow ==
  ASSUME LockInv, NEW t \in Threads, Call(t) \/ ThreadStep(t)
  PROVE  /\ close_generation_' \in {close_generation_, close_generation_ + 1}
         /\ core_run' \in {core_run, core_run + 1}
<1>1. CASE QuietMove(t)
  BY <1>1, Zenon DEF QuietMove, lockedVars
<1>2. CASE LockStep(t)
  BY <1>2, Zenon
     DEF LockStep, nativeVars, queueVars, coreVars, NativeStart, NativeReset, NativeSpawn,
         NativeSpawnFails, NativeRunning, NativeStop, StopLockedEnds, NativeStopCore,
         CloseQueue, ResetQueue
<1> QED BY <1>1, <1>2, StepKinds

(* A step leaves the other threads and their locals where they are, but    *)
(* for the dispatcher that start() creates.                                *)
LEMMA OthersStay ==
  ASSUME LockInv, RunInv, LocalInv, NEW t \in Threads, Call(t) \/ ThreadStep(t),
         NEW u \in Threads, u # t
  PROVE  /\ pc'[u] = pc[u] \/ (u \in Dispatchers /\ pc'[u] = "await")
         /\ result'[u] = result[u]
         /\ generation'[u] = generation[u]
         /\ joining'[u] = joining[u]
         /\ stop_token'[u] = stop_token[u]
         /\ u \in Apps => iter'[u] = iter[u]
<1>1. pc'[u] = pc[u] \/ (u \in Dispatchers /\ pc'[u] = "await")
  <2>1. CASE \E label : Goto(t, label)
    BY <2>1, GotoEffect DEF LockInv
  <2>2. CASE Creates(t)
    <3>1. /\ objects' = objects + 1 /\ objects < MaxRuns
          /\ pc' = [pc EXCEPT ![t] = "native_start", ![objects'] = "await"]
      BY <2>2, ThreadsApart DEF Creates, Start, StartCallbackLocked, Free
    <3>2. objects' \in Dispatchers
      BY <3>1, NativeBounds DEF LockInv, TokenInv, Dispatchers
    <3> QED BY <3>1, <3>2 DEF LockInv, LabelInv
  <2>3. RunStep(t)
    BY RunKinds, Zenon
  <2> QED BY <2>1, <2>2, <2>3, Zenon
             DEF RunStep, SteadyMove, FieldMove, StartCommit, StartFailed
<1>2. result'[u] = result[u]
  <2>1. CASE QuietMove(t)
    BY <2>1 DEF QuietMove, LockInv, ResultInv
  <2>2. CASE LockStep(t)
    BY <2>2, Zenon DEF LockStep, NativeStart, NativeReset, NativeSpawn, NativeSpawnFails,
                       NativeRunning, NativeStop, StopLockedEnds, NativeStopCore
  <2> QED BY <2>1, <2>2, StepKinds
<1>3. generation'[u] = generation[u]
  BY GenerationMoves DEF LocalInv
<1>4. joining'[u] = joining[u]
  BY JoiningMoves, Zenon DEF RunInv, RunType
<1>5. stop_token'[u] = stop_token[u]
  BY HistoryMoves, Zenon DEF LocalInv, history, Stop
<1>6. u \in Apps => iter'[u] = iter[u]
  BY IterMoves DEF LocalInv
<1> QED BY <1>1, <1>2, <1>3, <1>4, <1>5, <1>6

(* The variables local to the threads keep their types and never run ahead *)
(* of the run token.                                                       *)
LEMMA LocalNext ==
  ASSUME LockInv, RunInv, LocalInv, NEW t \in Threads, Call(t) \/ ThreadStep(t)
  PROVE  LocalInv'
<1>1. /\ _run_token \in Nat /\ _run_token' \in Nat /\ _run_token <= _run_token'
  BY TokenKept DEF LockInv, TokenInv
<1>2. iter' \in [Apps -> Nat] /\ \A p \in Apps : iter'[p] <= _run_token
  BY <1>1, IterMoves DEF LocalInv
<1>3. stop_token' \in [Threads -> Nat] /\ \A u \in Threads : stop_token'[u] <= _run_token
  BY <1>1, HistoryMoves, Zenon DEF LocalInv, history, Stop
<1>4. generation' \in [Threads -> Nat] /\ close_generation_' \in Nat
  BY GenerationMoves, CountersGrow DEF LocalInv
<1>5. \A p \in Apps : iter'[p] <= _run_token'
  BY <1>1, <1>2
<1>6. \A u \in Threads : stop_token'[u] <= _run_token'
  BY <1>1, <1>3
<1> QED BY <1>2, <1>3, <1>4, <1>5, <1>6, Zenon DEF LocalInv

(* A reader is not misled by what the other threads do.                    *)
LEMMA OtherRead ==
  ASSUME LockInv, LockInv', RunInv, ReadInv, NEW t \in Threads, Call(t) \/ ThreadStep(t),
         NEW u \in Threads, u # t
  PROVE  ReadFacts(u)'
<1>1. CASE pc'[u] = "await"
  BY <1>1 DEF ReadFacts
<1>2. CASE pc'[u] # "await"
  <2>1. /\ pc'[u] = pc[u] /\ result'[u] = result[u] /\ generation'[u] = generation[u]
        /\ u \in Apps => iter'[u] = iter[u]
    BY <1>2, OthersStay, Zenon DEF ReadInv
  <2>2. Current(u)' => /\ Current(u) /\ UNCHANGED close_generation_
                       /\ core_faulted => core_faulted'
    BY <1>2, <2>1, CurrentKept, Zenon DEF ReadInv
  <2>3. TokenOf(u)' = TokenOf(u)
    BY <1>2, <2>1, TokenKept, Zenon DEF TokenOf, Threads
  <2>4. /\ core_run \in Nat /\ core_run' \in {core_run, core_run + 1}
        /\ result[u].sample \in Nat
    BY CountersGrow, Zenon DEF LockInv, TokenInv, ResultInv, Result
  <2>5. result[u].sample <= core_run => result[u].sample <= core_run'
    BY <2>4
  <2>6. ReadFacts(u)
    BY DEF ReadInv
  <2> HIDE DEF Current, TokenOf
  <2> QED BY <2>1, <2>2, <2>3, <2>5, <2>6, Zenon DEF ReadFacts
<1> QED BY <1>1, <1>2, Zenon

(* Where a thread that consumes samples comes from.                        *)
Attentive == {"read_guard", "read_wait", "read_again", "read_done", "closed"}

(* Where a call of the Python client may lead.                             *)
LEMMA CallGoes ==
  ASSUME NEW t, Call(t)
  PROVE  \E label \in {"start", "stop", "samples", "wait", "next"} : Goto(t, label)
BY Zenon DEF Call

(* Where a step of the native start() or stop() may lead.                  *)
LEMMA NativeGoes ==
  ASSUME NEW t, NativeStart(t) \/ NativeReset(t) \/ NativeSpawn(t) \/ NativeSpawnFails(t)
                  \/ NativeRunning(t) \/ NativeStop(t)
  PROVE  \E label \in {"native_reset", "native_spawn", "native_running", "start_commit",
                       "start_failed", "native_stop_core"} : Goto(t, label)
BY Zenon
   DEF NativeStart, NativeReset, NativeSpawn, NativeSpawnFails, NativeRunning, NativeStop

(* Where a step of the native read() may lead.                             *)
LEMMA ReadGoes ==
  ASSUME NEW t, Read(t) \/ ReadGuard(t) \/ ReadWait(t) \/ ReadAgain(t)
  PROVE  \E label \in {"read_guard", "read_wait", "read_again", "read_done"} : Goto(t, label)
BY Zenon DEF Read, ReadGuard, ReadWait, ReadAgain, ReadReturns

(* Where a step of the Python stop() may lead.                             *)
LEMMA StopGoes ==
  ASSUME NEW t, Stop(t) \/ StopJoin(t)
  PROVE  \E label \in {"native_stop", "stop_join", "idle", "callback"} : Goto(t, label)
<1>1. Return(t) \in {"idle", "callback"}
  BY Zenon DEF Return
<1>2. CASE StopJoin(t)
  BY <1>1, <1>2, Zenon DEF StopJoin
<1>3. CASE Stop(t)
  <2> DEFINE label == IF ToJoin(t) # 0 THEN "stop_join" ELSE Return(t)
  <2>1. Goto(t, "native_stop") \/ Goto(t, label)
    BY <1>3, Zenon DEF Stop, StopLocked
  <2>2. label \in {"stop_join", "idle", "callback"}
    BY <1>1, Zenon
  <2> HIDE DEF label
  <2> QED BY <2>1, <2>2, Zenon
<1> QED BY <1>2, <1>3, Zenon

(* Where a step of the callback dispatcher may lead.                       *)
LEMMA DispatcherGoes ==
  ASSUME NEW d, DispatcherStep(d)
  PROVE  \E label \in {"check", "read", "record_error", "native_stop", "finish", "done"} :
           Goto(d, label)
<1>1. CASE Await(d) \/ Check(d)
  <2>1. Goto(d, "check") \/ Goto(d, "read") \/ Goto(d, "finish")
    BY <1>1, Zenon DEF Await, Check
  <2> QED BY <2>1, Zenon
<1>2. CASE CallbackEnds(d) \/ Finish(d)
  BY <1>2, Zenon DEF CallbackEnds, Finish
<1>3. CASE RecordError(d) \/ FinishCallbackClosed(d)
  <2>1. Goto(d, "native_stop") \/ Goto(d, "finish")
    BY <1>3, Zenon DEF RecordError, FinishCallbackClosed, StopIfCurrent, StopLocked
  <2> QED BY <2>1, Zenon
<1> QED BY <1>1, <1>2, <1>3, Zenon DEF DispatcherStep

(* A thread gets to one of these labels by a step of read() or by its      *)
(* return only.                                                            *)
LEMMA AttentiveFrom ==
  ASSUME LockInv, RunInv, NEW t \in Threads, Call(t) \/ ThreadStep(t), pc'[t] \in Attentive
  PROVE  \/ /\ Read(t) \/ ReadGuard(t) \/ ReadWait(t) \/ ReadAgain(t)
            /\ UNCHANGED pyVars
         \/ ReadReturned(t)
<1>0. ASSUME NEW label, Goto(t, label), label \notin Attentive PROVE FALSE
  BY <1>0, GotoEffect DEF LockInv
<1>1. CASE Call(t)
  BY <1>0, <1>1, CallGoes, Zenon DEF Attentive
<1>2. CASE StopLockedEnds(t)
  <2>1. Goto(t, then) /\ pc[t] \in Stopping
    BY <1>2, Zenon DEF StopLockedEnds, NativeStopCore, Stopping
  <2>2. then \notin Attentive
    BY <2>1, Zenon DEF LockInv, LabelInv, AppThen, DispatcherThen, Attentive
  <2> QED BY <1>0, <2>1, <2>2, Zenon
<1>3. CASE NativeStart(t) \/ NativeReset(t) \/ NativeSpawn(t) \/ NativeSpawnFails(t)
           \/ NativeRunning(t) \/ NativeStop(t)
  BY <1>0, <1>3, NativeGoes, Zenon DEF Attentive
<1>4. CASE PyStep(t)
  <2>1. CASE Stop(t) \/ StopJoin(t)
    BY <1>0, <2>1, StopGoes, Zenon DEF Attentive
  <2>2. CASE t \in Apps /\ Start(t) /\ ~Creates(t)
    <3>1. \E label : Goto(t, label) /\ label \notin Attentive
      BY <2>2 DEF Start, StartIteratorLocked, StartCallbackLocked, Creates, Attentive
    <3> QED BY <1>0, <3>1
  <2>3. CASE t \in Apps /\ Creates(t)
    <3>1. /\ objects' = objects + 1
          /\ pc' = [pc EXCEPT ![t] = "native_start", ![objects'] = "await"]
      BY <2>3, ThreadsApart, Zenon DEF Creates, Start, StartCallbackLocked, Free
    <3>2. pc'[t] \in {"native_start", "await"}
      BY <3>1 DEF LockInv, LabelInv
    <3> QED BY <3>2 DEF Attentive
  <2>4. CASE StartJoin(t) \/ StartCommit(t) \/ StartFailed(t) \/ FailedJoin(t) \/ Wait(t)
             \/ Waited(t) \/ Samples(t) \/ IterNext(t) \/ IterClosed(t)
    <3>1. \E label : Goto(t, label) /\ label \notin Attentive
      BY <2>4 DEF StartJoin, StartCommit, StartFailed, FailedJoin, Wait, Waited, Samples,
                  IterNext, IterClosed, EndIterator, StopLocked, Attentive
    <3> QED BY <1>0, <3>1
  <2>5. CASE t \in Dispatchers /\ DispatcherStep(t)
    BY <1>0, <2>5, DispatcherGoes, Zenon DEF Attentive
  <2> QED BY <1>4, <2>1, <2>2, <2>3, <2>4, <2>5, Zenon DEF PyStep, AppStep
<1> QED BY <1>1, <1>2, <1>3, <1>4, Zenon DEF ThreadStep, NativeStep

(* A reader's run is no later than the last one, nor than the core's.      *)
LEMMA TokenBound ==
  ASSUME LockInv, RunInv, LocalInv, NEW t \in Threads, pc[t] \in Reading
  PROVE  TokenOf(t) \in Nat /\ TokenOf(t) <= _run_token /\ TokenOf(t) <= core_run
<1>1. _run_token \in Nat /\ core_run \in Nat /\ _run_token <= core_run
  BY DEF LockInv, TokenInv
<1>2. CASE t \in Apps
  BY <1>1, <1>2 DEF LocalInv, TokenOf
<1>3. CASE t \in Dispatchers
  <2>1. pc[t] \notin Unstarted /\ t \notin Apps
    BY <1>3, ThreadsApart DEF Reading, Unstarted
  <2>2. run[t].token \in Nat /\ run[t].token <= _run_token
    BY <1>3, <2>1 DEF RunInv, RunType, ActiveInv, Run
  <2> QED BY <1>1, <2>1, <2>2 DEF TokenOf
<1> QED BY <1>2, <1>3 DEF Threads

(* read() as its caller sees it.                                           *)
LEMMA ReaderSteps ==
  ASSUME LockInv, LockInv', RunInv, ReadInv, NEW t \in Threads, UNCHANGED pyVars,
         Read(t) \/ ReadGuard(t) \/ ReadWait(t) \/ ReadAgain(t)
  PROVE  ReadFacts(t)'
<1>1. /\ Current(t)' = Current(t) /\ TokenOf(t)' = TokenOf(t)
  <2>1. UNCHANGED <<_running, _mode, _run_token, _callback_run, run, iter>>
    BY Zenon DEF pyVars, clientVars, lockVars, runVars, callVars
  <2> QED BY <2>1, Zenon DEF Current, TokenOf, IteratorIsCurrent, CallbackRunIsCurrent
<1>2. /\ UNCHANGED <<close_generation_, core_faulted, core_run, running_, closed_>>
      /\ pc[t] \in Reading \ {"read_done"}
  BY Zenon
     DEF Read, ReadGuard, ReadWait, ReadAgain, coreVars, queueVars, ReadSample, ReadClosed,
         ReadTimeout, Reading
<1>3. /\ generation \in [Threads -> Nat] /\ result \in [Threads -> Result]
      /\ Current(t) => running_ /\ ~closed_
      /\ ReadFacts(t)
  BY Zenon DEF ReadInv, LocalInv, LockInv, ResultInv, PhaseInv, Current, IteratorIsCurrent,
         CallbackRunIsCurrent
<1>4. TokenOf(t) <= core_run
  BY <1>2, TokenBound, Zenon DEF ReadInv
<1> HIDE DEF Current, TokenOf
<1>5. ASSUME NEW label, Goto(t, label) PROVE pc'[t] = label
  BY <1>5, GotoEffect DEF LockInv
<1>6. ASSUME NEW status, NEW sample, ReadReturns(t, status, sample),
             status # "none",
             status = "Closed" /\ Current(t) => core_faulted,
             status = "Sample" => sample = core_run /\ core_run \in Nat
      PROVE  ReadFacts(t)'
  <2>1. /\ result'[t] = [status |-> status, sample |-> sample] /\ pc'[t] = "read_done"
    BY <1>3, <1>5, <1>6, Zenon DEF ReadReturns
  <2>2. result'[t].status = status /\ result'[t].sample = sample
    BY <2>1
  <2>3. status = "Sample" => sample <= core_run
    BY <1>6
  <2> QED BY <1>1, <1>2, <1>4, <1>6, <2>1, <2>2, <2>3, Zenon DEF ReadFacts
<1>7. ASSUME NEW label \in {"read_guard", "read_wait", "read_again"}, Goto(t, label),
             Current(t) => generation'[t] = close_generation_
      PROVE  ReadFacts(t)'
  BY <1>1, <1>2, <1>5, <1>7, Zenon DEF ReadFacts
<1>8. Unreadable /\ Current(t) => core_faulted
  BY <1>3 DEF Unreadable
<1>9. CASE Read(t)
  BY <1>3, <1>7, <1>9, Zenon DEF Read
<1>10. CASE ReadGuard(t)
  <2>1. CASE Unreadable /\ ReadReturns(t, "Closed", NoSample)
    BY <1>6, <1>8, <2>1, Zenon
  <2>2. CASE Goto(t, "read_wait") /\ UNCHANGED generation
    BY <1>3, <1>7, <1>10, <2>2, Zenon DEF ReadGuard, ReadFacts
  <2> QED BY <1>10, <2>1, <2>2 DEF ReadGuard
<1>11. CASE ReadAgain(t)
  <2>1. CASE \/ Unreadable /\ ReadReturns(t, "Closed", NoSample)
             \/ ReadReturns(t, "Timeout", NoSample)
    BY <1>6, <1>8, <2>1, Zenon
  <2>2. CASE Goto(t, "read_guard") /\ UNCHANGED generation
    BY <1>3, <1>7, <1>11, <2>2, Zenon DEF ReadAgain, ReadFacts
  <2> QED BY <1>11, <2>1, <2>2 DEF ReadAgain
<1>12. CASE ReadWait(t)
  <2>1. CASE samples_ # <<>> /\ ReadSample(generation[t], Head(samples_))
             /\ ReadReturns(t, "Sample", Head(samples_))
    <3>1. ~closed_
      BY <2>1, Zenon DEF ReadSample, ClosedFor
    <3>2. Head(samples_) = core_run /\ core_run \in Nat
      BY <2>1, <3>1 DEF LockInv, TokenInv
    <3> QED BY <1>6, <2>1, <3>2
  <2>2. CASE ReadClosed(generation[t]) /\ ReadReturns(t, "Closed", NoSample)
    <3>1. ~Current(t)
      BY <1>3, <1>12, <2>2, Zenon DEF ReadWait, ReadClosed, ClosedFor, ReadFacts
    <3> QED BY <1>6, <2>2, <3>1, Zenon
  <2>3. CASE Goto(t, "read_again") /\ UNCHANGED generation
    BY <1>3, <1>7, <1>12, <2>3, Zenon DEF ReadWait, ReadFacts
  <2> QED BY <1>12, <2>1, <2>2, <2>3, Zenon DEF ReadWait
<1> QED BY <1>9, <1>10, <1>11, <1>12, Zenon

(* The facts about a reading thread are kept by its own steps.             *)
LEMMA OwnRead ==
  ASSUME LockInv, LockInv', RunInv, ReadInv, NEW t \in Threads, Call(t) \/ ThreadStep(t)
  PROVE  ReadFacts(t)'
<1>1. CASE pc'[t] \notin Attentive
  BY <1>1 DEF ReadFacts, Attentive
<1>2. CASE /\ Read(t) \/ ReadGuard(t) \/ ReadWait(t) \/ ReadAgain(t)
           /\ UNCHANGED pyVars
  BY <1>2, ReaderSteps, Zenon
<1>3. CASE ReadReturned(t) /\ pc'[t] \in Attentive
  <2>0. /\ pc[t] = "read_done" /\ result[t].status # "none" /\ result[t] \in Result
        /\ result[t].status = "Closed" /\ Current(t) => core_faulted
        /\ t \in Dispatchers => result[t].status \in {"Sample", "Closed"}
        /\ ~(t \in Apps /\ t \in Dispatchers)
    BY <1>3, ThreadsApart, Zenon
       DEF ReadReturned, IterReturn, DispatchReturn, ReadInv, ReadFacts, LockInv, ResultInv
  <2>1. ASSUME NEW label, Goto(t, label) PROVE pc'[t] = label
    BY <2>1, GotoEffect, Zenon DEF LockInv
  <2>2. /\ pc'[t] = "closed"
        /\ UNCHANGED <<_running, _mode, _run_token, _callback_run, run, core_faulted>>
        /\ t \in Apps => UNCHANGED iter
        /\ Current(t) => result[t].status = "Closed"
    <3>1. CASE t \in Apps /\ IterReturn(t)
      <4>1. /\ \/ Goto(t, "idle")
               \/ /\ Goto(t, "closed") /\ UNCHANGED iter
                  /\ result[t].status \notin {"Sample", "Timeout"}
        BY <3>1, Zenon DEF IterReturn, EndIterator
      <4>2. Goto(t, "closed") /\ UNCHANGED iter /\ result[t].status = "Closed"
        BY <1>3, <2>0, <2>1, <4>1, Zenon DEF Attentive, Result
      <4> QED BY <1>3, <2>1, <3>1, <4>2, Zenon
              DEF ReadReturned, IterReturn, iterFrame, lockVars, runVars, nativeVars, coreVars
    <3>2. CASE t \in Dispatchers /\ DispatchReturn(t)
      <4>1. \/ Goto(t, "finish") \/ Goto(t, "callback")
            \/ Goto(t, "closed") /\ result[t].status = "Closed"
        BY <2>0, <3>2, Zenon DEF DispatchReturn
      <4>2. Goto(t, "closed") /\ result[t].status = "Closed"
        BY <1>3, <2>1, <4>1, Zenon DEF Attentive
      <4> QED BY <1>3, <2>0, <2>1, <3>2, <4>2
              DEF ReadReturned, DispatchReturn, dispatchFrame, lockVars, runVars, nativeVars, coreVars
    <3> QED BY <1>3, <3>1, <3>2, Zenon DEF ReadReturned
  <2>3. Current(t)' = Current(t)
    BY <2>2, Zenon DEF Current, IteratorIsCurrent, CallbackRunIsCurrent
  <2> HIDE DEF Current
  <2> QED BY <2>0, <2>2, <2>3, Zenon DEF ReadFacts
<1> QED BY <1>1, <1>2, <1>3, AttentiveFrom, Zenon

(* A client that was just constructed satisfies the reading invariant.     *)
LEMMA ReadInit == Init => ReadInv
<1> SUFFICES ASSUME Init PROVE ReadInv
  OBVIOUS
<1>1. \A t \in Threads : pc[t] = IF t \in Apps THEN "idle" ELSE "new"
  BY DEF Init
<1>2. \A t \in Threads : ReadFacts(t)
  BY <1>1, Zenon DEF ReadFacts
<1>3. LocalInv
  BY DEF LocalInv, Init, NativeInit, QueueInit
<1> QED BY <1>2, <1>3, Zenon DEF ReadInv

(* Every step keeps the reading invariant.                                 *)
LEMMA ReadNext == LockInv /\ RunInv /\ ReadInv /\ [Next]_vars => ReadInv'
<1> SUFFICES ASSUME LockInv, RunInv, ReadInv, [Next]_vars PROVE ReadInv'
  OBVIOUS
<1>0. LockInv'
  BY LockNext
<1>1. ASSUME NEW t \in Threads, Call(t) \/ ThreadStep(t) PROVE ReadInv'
  <2>1. LocalInv'
    BY <1>1, LocalNext DEF ReadInv
  <2>2. \A u \in Threads : ReadFacts(u)'
    BY <1>0, <1>1, OwnRead, OtherRead
  <2> QED BY <2>1, <2>2 DEF ReadInv
<1>2. ASSUME UNCHANGED pyVars, core_faulted => core_faulted',
             UNCHANGED <<pc, generation, result, close_generation_, core_run>>
      PROVE  ReadInv'
  <2>1. UNCHANGED <<_running, _mode, _run_token, _callback_run, run, iter, stop_token>>
    BY <1>2, Zenon DEF pyVars, clientVars, lockVars, runVars, callVars, history
  <2>2. LocalInv'
    BY <1>2, <2>1, Zenon DEF ReadInv, LocalInv
  <2>3. ASSUME NEW u \in Threads PROVE ReadFacts(u)'
    <3>1. Current(u)' = Current(u) /\ TokenOf(u)' = TokenOf(u)
      BY <2>1, Zenon DEF Current, TokenOf, IteratorIsCurrent, CallbackRunIsCurrent
    <3>2. ReadFacts(u)
      BY DEF ReadInv
    <3> HIDE DEF Current, TokenOf
    <3> QED BY <1>2, <3>1, <3>2, Zenon DEF ReadFacts
  <2> QED BY <2>2, <2>3 DEF ReadInv
<1>3. CASE UNCHANGED vars
  BY <1>2, <1>3, Zenon DEF vars, nativeVars, queueVars, coreVars
<1>4. CASE (CorePush \/ CoreFault) /\ UNCHANGED pyVars
  BY <1>2, <1>4, Zenon DEF CorePush, CoreFault, Push, queueVars
<1> QED BY <1>1, <1>3, <1>4, Zenon DEF Next

-----------------------------------------------------------------------------
(* stop() and the end of a run.                                            *)

(* A stop() that has looked at the client goes on to join the dispatcher   *)
(* of every run begun before, unless that dispatcher is over.              *)
StopInv ==
  \A p \in Apps, d \in Dispatchers :
       /\ run[d].activation = "active"
       /\ run[d].token <= stop_token[p]
       /\ pc[p] # "stop"
       /\ pc[d] # "done"
       => /\ joining[p] = d
          /\ pc[p] = "stop_join" \/ (pc[p] \in Stopping /\ then = "stop_join")

(* An activated run that no stop() call ended and that has no error is the *)
(* current one, and its dispatcher goes on.                                *)
EndInv ==
  \A d \in Dispatchers :
    /\ run[d].activation = "active"
    /\ d \notin stopped
    /\ run[d].error = "none"
    => CallbackRunIsCurrent(d) /\ pc[d] \notin {"finish", "done"}

(* What a thread at one of these labels does next.                         *)
LEMMA StepAt ==
  ASSUME NEW t \in Threads, Call(t) \/ ThreadStep(t)
  PROVE  /\ pc[t] = "stop" => Stop(t)
         /\ pc[t] = "stop_join" => StopJoin(t)
         /\ pc[t] = "native_stop" => NativeStop(t) /\ UNCHANGED pyVars
         /\ pc[t] = "native_stop_core" => StopLockedEnds(t)
         /\ pc[t] = "read_done" => ReadReturned(t)
<1>1. CASE Call(t)
  BY <1>1, Zenon DEF Call
<1>2. CASE NativeStep(t) /\ UNCHANGED pyVars
  BY <1>2, Zenon DEF NativeStep, NativeStart, NativeReset, NativeSpawn, NativeSpawnFails,
              NativeRunning, NativeStop, Read, ReadGuard, ReadWait, ReadAgain
<1>3. CASE StopLockedEnds(t) \/ ReadReturned(t)
  BY <1>3, Zenon
     DEF StopLockedEnds, NativeStopCore, ReadReturned, IterReturn, DispatchReturn
<1>4. CASE PyStep(t)
  <2>1. CASE Stop(t) \/ StopJoin(t)
    BY <2>1, Zenon DEF Stop, StopJoin
  <2>2. CASE AppStep(t)
    BY <2>2, Zenon
       DEF AppStep, Start, StartJoin, StartCommit, StartFailed, FailedJoin, Wait, Waited,
                Samples, IterNext, IterClosed
  <2>3. CASE DispatcherStep(t)
    BY <2>3, Zenon
       DEF DispatcherStep, Await, Check, CallbackEnds, RecordError, FinishCallbackClosed,
                Finish
  <2> QED BY <1>4, <2>1, <2>2, <2>3, Zenon DEF PyStep
<1> QED BY <1>1, <1>2, <1>3, <1>4, Zenon DEF ThreadStep

(* What makes a run active, and what stays as it is in one that was.       *)
LEMMA ActivationMoves ==
  ASSUME LockInv, RunInv, NEW t \in Threads, Call(t) \/ ThreadStep(t),
         NEW d \in Dispatchers, run'[d].activation = "active"
  PROVE  \/ /\ run[d].activation = "active"
            /\ run'[d].token = run[d].token
            /\ run'[d].error = "none" => run[d].error = "none"
            /\ pc[d] = "done" => pc'[d] = "done"
            /\ d # t => pc'[d] = pc[d]
         \/ /\ t \in Apps /\ StartCommit(t)
            /\ d = objects /\ requested[t] = "callback"
            /\ run'[d].token = _run_token + 1
            /\ pc'[d] = "await"
<1>1. RunStep(t)
  BY RunKinds, Zenon
<1>2. run \in [Dispatchers -> Run] /\ d \in Threads
  BY Zenon DEF RunInv, RunType, Threads
<1>3. ASSUME NEW label, Goto(t, label), t = d => pc[t] # "done"
      PROVE  (pc[d] = "done" => pc'[d] = "done") /\ (d # t => pc'[d] = pc[d])
  BY <1>2, <1>3, GotoEffect, Zenon DEF LockInv
<1>4. CASE SteadyMove(t)
  BY <1>3, <1>4, Zenon DEF SteadyMove
<1>5. CASE FieldMove(t)
  <2>1. /\ run'[d].activation = run[d].activation /\ run'[d].token = run[d].token
        /\ run'[d].error = "none" => run[d].error = "none"
    BY <1>2, <1>5 DEF FieldMove, Run
  <2> QED BY <1>3, <1>5, <2>1 DEF FieldMove, Unstarted
<1>6. CASE t \in Apps /\ Creates(t)
  <2>1. /\ objects' = objects + 1 /\ objects < MaxRuns
        /\ run' = [run EXCEPT ![objects'] =
                       [NoRun EXCEPT !.token = _run_token + 1, !.thread = TRUE]]
        /\ pc' = [pc EXCEPT ![t] = "native_start", ![objects'] = "await"]
    BY <1>6, ThreadsApart, Zenon DEF Creates, Start, StartCallbackLocked, Free
  <2>2. d # objects'
    <3> SUFFICES ASSUME d = objects' PROVE FALSE
      OBVIOUS
    <3>1. run'[d] = [NoRun EXCEPT !.token = _run_token + 1, !.thread = TRUE]
      BY <1>2, <2>1, Zenon
    <3>2. _run_token + 1 \in Nat
      BY DEF LockInv, TokenInv
    <3>3. run'[d].activation = "unset"
      BY <3>1, <3>2, NewRun, Zenon
    <3> QED BY <3>3
  <2>3. d # t /\ run'[d] = run[d] /\ pc'[d] = pc[d]
    BY <1>2, <1>6, <2>1, <2>2, ThreadsApart, Zenon DEF LockInv, LabelInv
  <2> QED BY <2>3, Zenon
<1>7. CASE t \in Apps /\ StartCommit(t)
  <2>1. /\ Goto(t, "idle") /\ pc[t] \in Starting /\ t # d
    BY <1>7, ThreadsApart, Zenon DEF StartCommit, Starting
  <2>2. pc'[d] = pc[d]
    BY <1>3, <2>1, Zenon
  <2>3. CASE UNCHANGED run
    BY <2>1, <2>2, <2>3, Zenon
  <2>4. CASE requested[t] = "callback" /\ run' = [run EXCEPT ![objects].activation = "active"]
    <3>1. /\ objects \in Dispatchers /\ run[objects].token = _run_token + 1
          /\ pc[objects] = "await"
      BY <1>7, <2>1, <2>4 DEF RunInv, StartInv
    <3>2. /\ run'[d].token = run[d].token
          /\ d # objects => run'[d] = run[d]
      BY <1>2, <2>4, <3>1, Zenon DEF Run
    <3> QED BY <1>7, <2>1, <2>2, <2>4, <3>1, <3>2, Zenon
  <2> QED BY <1>7, <2>3, <2>4 DEF StartCommit
<1>8. CASE t \in Apps /\ StartFailed(t)
  <2>1. /\ Goto(t, "native_stop") /\ pc[t] \in Starting /\ t # d
    BY <1>8, ThreadsApart, Zenon DEF StartFailed, Starting, Resting
  <2>2. pc'[d] = pc[d]
    BY <1>3, <2>1, Zenon
  <2>3. run'[d] = run[d] \/ run'[d].activation = "cancelled"
    BY <1>2, <1>8 DEF StartFailed, Cancel, Run
  <2> QED BY <2>1, <2>2, <2>3, Zenon
<1> QED BY <1>1, <1>4, <1>5, <1>6, <1>7, <1>8, Zenon DEF RunStep, Creates

(* Only a step under the lock, or one that takes it, uses it.              *)
LEMMA LockStepFrom ==
  ASSUME NEW t \in Threads, LockStep(t)
  PROVE  pc[t] \in Locked \/ (Free /\ Takes(t))
<1>1. CASE Takes(t)
  BY <1>1, Zenon DEF Takes, Start, Stop, IterClosed, RecordError, FinishCallbackClosed
<1>2. CASE ~Takes(t)
  BY <1>2
     DEF LockStep, NativeStart, NativeReset, NativeSpawn, NativeSpawnFails, NativeRunning,
              NativeStop, StartCommit, StartFailed, StopLockedEnds, NativeStopCore,
              Locked, Starting, Resting, Stopping
<1> QED BY <1>1, <1>2

(* stop() by p joins what is left of the runs before it.                   *)
LEMMA StopNext == LockInv /\ RunInv /\ ReadInv /\ StopInv /\ [Next]_vars => StopInv'
<1> SUFFICES ASSUME LockInv, RunInv, ReadInv, StopInv, [Next]_vars PROVE StopInv'
  BY Zenon
<1>1. ASSUME NEW t \in Threads, Call(t) \/ ThreadStep(t) PROVE StopInv'
  <2> SUFFICES ASSUME NEW p \in Apps, NEW d \in Dispatchers,
                      run'[d].activation = "active", run'[d].token <= stop_token'[p],
                      pc'[p] # "stop", pc'[d] # "done"
               PROVE  /\ joining'[p] = d
                      /\ pc'[p] = "stop_join" \/ (pc'[p] \in Stopping /\ then' = "stop_join")
    BY Zenon DEF StopInv
  <2>0. /\ LockInv' /\ LocalInv' /\ LocalInv
        /\ p \in Threads /\ d \in Threads /\ p # d /\ p \notin Dispatchers
        /\ _run_token \in Nat
    BY <1>1, LockNext, LocalNext, ThreadsApart, Zenon
       DEF ReadInv, Threads, LockInv, TokenInv
  <2>1. stop_token'[p] \in Nat /\ stop_token'[p] <= _run_token
    <3>1. stop_token'[p] = stop_token[p] \/ stop_token'[p] = _run_token
      BY <1>1, <2>0, HistoryMoves, Zenon DEF LocalInv, history, Stop
    <3> QED BY <2>0, <3>1 DEF LocalInv
  <2>2. /\ run[d].activation = "active" /\ run'[d].token = run[d].token
        /\ pc[d] # "done"
    <3>1. run'[d].token # _run_token + 1
      BY <2>0, <2>1
    <3> QED BY <1>1, <3>1, ActivationMoves, Zenon
  <2>3. CASE t # p
    <3>1. pc'[p] = pc[p] /\ joining'[p] = joining[p] /\ stop_token'[p] = stop_token[p]
      BY <1>1, <2>0, <2>3, OthersStay, Zenon
    <3>2. /\ joining[p] = d
          /\ pc[p] = "stop_join" \/ (pc[p] \in Stopping /\ then = "stop_join")
      BY <2>2, <3>1, Zenon DEF StopInv
    <3>3. pc[p] \in Stopping => then' = then
      <4>1. pc[p] \in Stopping => pc[p] \in Locked /\ ~Free /\ pc[t] \notin Locked
        BY <2>0, <2>3, HolderAlone, Zenon DEF Locked
      <4>2. pc[p] \in Stopping => ~LockStep(t)
        BY <4>1, LockStepFrom, Zenon
      <4> QED BY <1>1, <4>2, StepKinds, Zenon DEF QuietMove, lockedVars
    <3> QED BY <3>1, <3>2, <3>3, Zenon
  <2>4. CASE t = p /\ Stop(t)
    <3>1. d = _callback_run /\ MustJoin
      BY <2>2 DEF RunInv, ActiveInv, MustJoin, Dispatchers
    <3>2. ToJoin(t) = d /\ d # 0
      BY <2>0, <2>4, <3>1 DEF ToJoin, Dispatchers
    <3>3. joining'[p] = d
      BY <2>0, <2>4, <3>2, Zenon DEF Stop, RunInv, RunType
    <3>4. Goto(t, "stop_join") \/ (Goto(t, "native_stop") /\ then' = "stop_join")
      BY <2>4, <3>2, Zenon DEF Stop, StopLocked
    <3>5. pc'[p] = "stop_join" \/ (pc'[p] = "native_stop" /\ then' = "stop_join")
      BY <2>4, <3>4, GotoEffect, Zenon DEF LockInv
    <3> QED BY <3>3, <3>5, Zenon DEF Stopping
  <2>5. CASE t = p /\ ~Stop(t)
    <3>1. pc[p] # "stop" /\ stop_token'[p] = stop_token[p]
      BY <1>1, <2>5, StepAt, HistoryMoves, Zenon DEF history
    <3>2. /\ joining[p] = d
          /\ pc[p] = "stop_join" \/ (pc[p] \in Stopping /\ then = "stop_join")
      BY <2>2, <3>1, Zenon DEF StopInv
    <3>3. pc[p] # "stop_join"
      BY <1>1, <2>2, <2>5, <3>2, StepAt, Zenon DEF StopJoin, Joined
    <3>4. CASE pc[p] = "native_stop"
      <4>1. Goto(p, "native_stop_core") /\ UNCHANGED <<joining, then>>
        BY <1>1, <2>5, <3>4, StepAt, Zenon
           DEF NativeStop, pyVars, clientVars, lockVars, callVars
      <4>2. pc'[p] = "native_stop_core"
        BY <2>0, <4>1, GotoEffect, Zenon DEF LockInv
      <4> QED BY <3>2, <3>3, <4>1, <4>2, Zenon DEF Stopping
    <3>5. CASE pc[p] = "native_stop_core"
      <4>1. Goto(p, then) /\ UNCHANGED joining
        BY <1>1, <2>5, <3>5, StepAt, Zenon DEF StopLockedEnds, NativeStopCore, callVars
      <4>2. pc'[p] = then
        BY <2>0, <4>1, GotoEffect, Zenon DEF LockInv
      <4> QED BY <3>2, <3>3, <4>1, <4>2, Zenon
    <3> QED BY <3>2, <3>3, <3>4, <3>5, Zenon DEF Stopping
  <2> QED BY <2>3, <2>4, <2>5, Zenon
<1>2. ASSUME UNCHANGED pyVars, UNCHANGED pc PROVE StopInv'
  <2>1. UNCHANGED <<run, joining, stop_token, then>>
    BY <1>2, Zenon DEF pyVars, clientVars, lockVars, runVars, callVars, history
  <2> QED BY <1>2, <2>1, Zenon DEF StopInv
<1>3. CASE UNCHANGED vars
  BY <1>2, <1>3, Zenon DEF vars
<1>4. CASE (CorePush \/ CoreFault) /\ UNCHANGED pyVars
  BY <1>2, <1>4, Zenon DEF CorePush, CoreFault
<1> QED BY <1>1, <1>3, <1>4, Zenon DEF Next

(* A dispatcher goes to its end only when its run is not the current one,  *)
(* was never activated, or is being stopped by the dispatcher itself.      *)
LEMMA EndsFrom ==
  ASSUME LockInv, RunInv, NEW d \in Dispatchers, Call(d) \/ ThreadStep(d),
         pc'[d] \in {"finish", "done"}
  PROVE  \/ ~CallbackRunIsCurrent(d)
         \/ run[d].activation # "active"
         \/ pc[d] \in {"finish", "native_stop_core"}
<1>0. d \in Threads /\ d \notin Apps
  BY ThreadsApart, Zenon DEF Threads
<1>1. ASSUME NEW label, Goto(d, label), label \notin {"finish", "done"} PROVE FALSE
  BY <1>0, <1>1, GotoEffect, Zenon DEF LockInv
<1>2. CASE Call(d) \/ (NativeStep(d) /\ UNCHANGED pyVars)
  BY <1>1, <1>2, CallGoes, NativeGoes, ReadGoes, Zenon DEF NativeStep
<1>3. CASE StopLockedEnds(d)
  BY <1>3, Zenon DEF StopLockedEnds, NativeStopCore
<1>4. CASE ReadReturned(d)
  <2>1. CASE CallbackRunIsCurrent(d)
    <3>1. pc[d] = "read_done" /\ DispatchReturn(d)
      BY <1>0, <1>4, Zenon DEF ReadReturned, DispatchReturn
    <3>2. result[d].status \in {"Sample", "Closed"}
      BY <3>1 DEF LockInv, ResultInv
    <3>3. Goto(d, "callback") \/ Goto(d, "closed")
      BY <2>1, <3>1, <3>2 DEF DispatchReturn
    <3> QED BY <1>1, <3>3
  <2> QED BY <2>1, Zenon
<1>5. CASE PyStep(d)
  <2>1. CASE Stop(d) \/ StopJoin(d) \/ CallbackEnds(d)
    <3>1. CASE CallbackEnds(d)
      BY <1>1, <3>1, Zenon DEF CallbackEnds
    <3> QED BY <1>1, <2>1, <3>1, StopGoes, Zenon
  <2>2. CASE Await(d)
    BY <1>1, <2>2, Zenon DEF Await
  <2>3. CASE Check(d) \/ RecordError(d) \/ FinishCallbackClosed(d)
    <3>1. CASE CallbackRunIsCurrent(d)
      <4>1. Goto(d, "read") \/ Goto(d, "native_stop")
        BY <2>3, <3>1, Zenon
           DEF Check, RecordError, FinishCallbackClosed, StopIfCurrent, StopLocked
      <4> QED BY <1>1, <4>1, Zenon
    <3> QED BY <3>1, Zenon
  <2>4. CASE Finish(d)
    BY <2>4, Zenon DEF Finish
  <2> QED BY <1>0, <1>5, <2>1, <2>2, <2>3, <2>4, Zenon DEF PyStep, DispatcherStep
<1> QED BY <1>2, <1>3, <1>4, <1>5, Zenon DEF ThreadStep

(* Who ends a run that was current: a stop() call, or its dispatcher with  *)
(* an error.                                                               *)
LEMMA CurrentEnds ==
  ASSUME LockInv, RunInv, ReadInv, NEW t \in Threads, LockStep(t),
         NEW d \in Dispatchers, CallbackRunIsCurrent(d), run[d].error = "none"
  PROVE  d \in stopped' \/ run'[d].error # "none"
<1>1. /\ Free /\ _running /\ _mode = "callback" /\ _callback_run = d
      /\ d \in Threads /\ d \notin Apps
  BY ThreadsApart, Zenon DEF CallbackRunIsCurrent, LockInv, PhaseInv, Threads
<1>2. Takes(t)
  BY <1>1, LockStepFrom, HolderAlone, Zenon
<1>3. CASE Stop(t)
  BY <1>1, <1>3, Zenon DEF Stop
<1>4. CASE t \in Apps /\ Start(t) /\ _lock' = t
  BY <1>1, <1>4, ThreadsApart, Zenon DEF Start, Free
<1>5. CASE t \in Apps /\ IterClosed(t) /\ IteratorIsCurrent(iter[t]) /\ core_faulted
  BY <1>1, <1>5 DEF IteratorIsCurrent
<1>6. ASSUME NEW error \in {"callback", "fault"}, Record(d, error) PROVE run'[d].error # "none"
  BY <1>6, Zenon DEF Record, RunInv, RunType, Run
<1>7. CASE t \in Dispatchers /\ RecordError(t) /\ CallbackRunIsCurrent(t)
  <2>1. t = d
    BY <1>1, <1>7, Zenon DEF CallbackRunIsCurrent
  <2> QED BY <1>6, <1>7, <2>1, Zenon DEF RecordError
<1>8. CASE t \in Dispatchers /\ FinishCallbackClosed(t) /\ CallbackRunIsCurrent(t)
  <2>1. t = d
    BY <1>1, <1>8, Zenon DEF CallbackRunIsCurrent
  <2>2. core_faulted
    BY <1>1, <1>8, <2>1, Zenon DEF FinishCallbackClosed, ReadInv, ReadFacts, Current
  <2> QED BY <1>6, <1>8, <2>1, <2>2, Zenon DEF FinishCallbackClosed
<1> QED BY <1>2, <1>3, <1>4, <1>5, <1>7, <1>8, Zenon DEF Takes

(* Every step keeps the invariant on how runs end.                         *)
LEMMA EndNext == LockInv /\ RunInv /\ ReadInv /\ EndInv /\ [Next]_vars => EndInv'
<1> SUFFICES ASSUME LockInv, RunInv, ReadInv, EndInv, [Next]_vars PROVE EndInv'
  OBVIOUS
<1>1. ASSUME NEW t \in Threads, Call(t) \/ ThreadStep(t) PROVE EndInv'
  <2> SUFFICES ASSUME NEW d \in Dispatchers,
                      run'[d].activation = "active", d \notin stopped', run'[d].error = "none"
               PROVE  CallbackRunIsCurrent(d)' /\ pc'[d] \notin {"finish", "done"}
    BY Zenon DEF EndInv
  <2>0. d \in Threads /\ d \notin Apps
    BY ThreadsApart, Zenon DEF Threads
  <2>1. CASE /\ t \in Apps /\ StartCommit(t)
             /\ d = objects /\ requested[t] = "callback"
             /\ run'[d].token = _run_token + 1
             /\ pc'[d] = "await"
    BY <2>1 DEF StartCommit, CallbackRunIsCurrent
  <2>2. CASE /\ run[d].activation = "active"
             /\ run'[d].token = run[d].token
             /\ run'[d].error = "none" => run[d].error = "none"
             /\ pc[d] = "done" => pc'[d] = "done"
             /\ d # t => pc'[d] = pc[d]
    <3>1. d \notin stopped
      BY <1>1, HistoryMoves, Zenon DEF history, Stop
    <3>2. CallbackRunIsCurrent(d) /\ pc[d] \notin {"finish", "done"} /\ run[d].error = "none"
      BY <2>2, <3>1, Zenon DEF EndInv
    <3>3. QuietMove(t)
      BY <1>1, <3>2, StepKinds, CurrentEnds, Zenon
    <3>4. UNCHANGED <<_running, _run_token, _callback_run>>
      BY <3>3, Zenon DEF QuietMove, lockedVars
    <3>5. _mode' = _mode
      BY <3>2, <3>3, Zenon DEF QuietMove, CallbackRunIsCurrent
    <3>6. CallbackRunIsCurrent(d)'
      BY <2>2, <3>2, <3>4, <3>5, Zenon DEF CallbackRunIsCurrent
    <3>7. pc[d] # "native_stop_core"
      BY <2>0, <3>2, HolderAlone, Zenon
         DEF CallbackRunIsCurrent, LockInv, PhaseInv, Locked, Stopping
    <3>8. pc'[d] \notin {"finish", "done"}
      BY <1>1, <2>2, <3>2, <3>7, EndsFrom, Zenon
    <3> QED BY <3>6, <3>8, Zenon
  <2> QED BY <1>1, <2>1, <2>2, ActivationMoves, Zenon
<1>2. ASSUME UNCHANGED pyVars, UNCHANGED pc PROVE EndInv'
  <2>1. UNCHANGED <<run, stopped, _running, _mode, _run_token, _callback_run>>
    BY <1>2, Zenon DEF pyVars, clientVars, lockVars, runVars, history
  <2> QED BY <1>2, <2>1, Zenon DEF EndInv, CallbackRunIsCurrent
<1>3. CASE UNCHANGED vars
  BY <1>2, <1>3, Zenon DEF vars
<1>4. CASE (CorePush \/ CoreFault) /\ UNCHANGED pyVars
  BY <1>2, <1>4, Zenon DEF CorePush, CoreFault
<1> QED BY <1>1, <1>3, <1>4, Zenon DEF Next

(* A consumer is handed samples of its own run.                            *)
LEMMA OwnSample ==
  ASSUME LockInv, RunInv, ReadInv, [Next]_vars, NEW t \in Threads,
         pc[t] = "read_done", result[t].status = "Sample",
         pc'[t] = "callback" \/ (pc'[t] = "idle" /\ iter'[t] # 0)
  PROVE  result[t].sample = TokenOf(t)
<1>1. Call(t) \/ ThreadStep(t)
  <2>1. ~(UNCHANGED pc)
    BY Zenon
  <2>2. ASSUME NEW s \in Threads, s # t, Call(s) \/ ThreadStep(s) PROVE FALSE
    BY <2>2, OthersStay, Zenon DEF ReadInv
  <2> QED BY <2>1, <2>2, Zenon DEF Next, vars, CorePush, CoreFault
<1>2. ReadReturned(t)
  BY <1>1, StepAt, Zenon
<1>3. ASSUME NEW label, Goto(t, label) PROVE pc'[t] = label
  BY <1>3, GotoEffect, Zenon DEF LockInv
<1>4. Free /\ Current(t)
  <2>1. CASE t \in Apps /\ IterReturn(t)
    <3>1. ~EndIterator(t)
      <4> SUFFICES ASSUME EndIterator(t) PROVE FALSE
        BY Zenon
      <4>1. pc'[t] = "idle" /\ iter'[t] = 0
        BY <1>3, <2>1, Zenon DEF EndIterator, ReadInv, LocalInv
      <4> QED BY <4>1, Zenon
    <3> QED BY <2>1, <3>1, Zenon DEF IterReturn, CurrentAfterRead, Current
  <2>2. CASE t \in Dispatchers /\ DispatchReturn(t)
    <3>1. CASE ~CallbackRunIsCurrent(t)
      <4>1. Goto(t, "finish")
        BY <2>2, <3>1, Zenon DEF DispatchReturn
      <4> QED BY <1>3, <4>1
    <3> QED BY <2>2, <3>1, ThreadsApart, Zenon DEF DispatchReturn, Current
  <2> QED BY <1>2, <2>1, <2>2, Zenon DEF ReadReturned
<1>5. _run_token = core_run /\ core_run \in Nat
  <2>1. \A u \in Threads : pc[u] \notin {"native_running", "start_commit"}
    BY <1>4, HolderAlone, Zenon DEF Locked, Starting
  <2> QED BY <2>1, Zenon DEF LockInv, TokenInv
<1>6. TokenOf(t) = _run_token
  BY <1>4, Zenon DEF Current, TokenOf, IteratorIsCurrent, CallbackRunIsCurrent
<1>7. /\ TokenOf(t) <= result[t].sample /\ result[t].sample <= core_run
      /\ result[t].sample \in Nat
  BY Zenon DEF ReadInv, ReadFacts, LockInv, ResultInv, Result
<1> HIDE DEF TokenOf
<1> QED BY <1>5, <1>6, <1>7

(* A client that was just constructed satisfies the invariants on stop()   *)
(* and on how runs end.                                                    *)
LEMMA StopInit == Init => StopInv /\ EndInv
<1> SUFFICES ASSUME Init PROVE StopInv /\ EndInv
  BY Zenon
<1>1. \A d \in Dispatchers : run[d].activation # "active"
  BY DEF Init, NoRun
<1> QED BY <1>1 DEF StopInv, EndInv

-----------------------------------------------------------------------------
(* The theorems                                                            *)

PyInv == LockInv /\ RunInv /\ ReadInv /\ StopInv /\ EndInv

(* The inductive invariant of the Python client, for any number of         *)
(* threads, runs, calls and samples: what the lock protects, what start()  *)
(* and stop() know of the dispatchers, and what a reader outside the lock  *)
(* can rely on.                                                            *)
THEOREM PyInvariant == Spec => []PyInv
<1>1. Init => PyInv
  BY LockInit, RunInit, ReadInit, StopInit, Zenon DEF PyInv
<1>2. PyInv /\ [Next]_vars => PyInv'
  BY LockNext, RunNext, ReadNext, StopNext, EndNext DEF PyInv
<1> QED BY <1>1, <1>2, PTL DEF Spec

(* The native client and the core are at rest whenever _start_*_locked()   *)
(* calls native.start(): no worker of an earlier run can push into the     *)
(* queue that reset() empties.                                             *)
THEOREM StartsAtRest == Spec => []CleanStart
<1>1. PyInv => CleanStart
  BY Zenon DEF PyInv, LockInv, PhaseInv, CleanStart, Resting, Threads
<1> QED BY <1>1, PyInvariant, PTL

(* A consumer that native.read() told Closed, and that finds its run still *)
(* current under the lock, is in a run whose core faulted:                 *)
(* _iterate_samples() and _finish_callback_closed() never end a run that   *)
(* is still delivering.                                                    *)
THEOREM ClosedOnlyByFault == Spec => []ClosedMeansFault
<1>1. PyInv => ClosedMeansFault
  BY Zenon DEF PyInv, ReadInv, ReadFacts, ClosedMeansFault, Current
<1> QED BY <1>1, PyInvariant, PTL

(* When stop() has returned to an application thread, every callback run   *)
(* begun before it has a dispatcher that is over.                          *)
THEOREM StopJoinsCallbacks == Spec => []StopLeavesNoCallback
<1>1. PyInv => StopLeavesNoCallback
  BY Zenon DEF PyInv, StopInv, StopLeavesNoCallback, StopLabels, Stopping
<1> QED BY <1>1, PyInvariant, PTL

(* A callback run that no stop() call ended has an error for wait() and    *)
(* raise_if_failed() when its dispatcher is over.                          *)
THEOREM EndHasReason == Spec => []NoSilentEnd
<1>1. PyInv => NoSilentEnd
  BY DEF PyInv, EndInv, NoSilentEnd
<1> QED BY <1>1, PyInvariant, PTL

(* A sample that the iterator yields or the callback gets was produced by  *)
(* the run the consumer was made for.                                      *)
THEOREM SamplesOfOwnRun == Spec => OwnRunOnly
<1>1. PyInv /\ [Next]_vars =>
        [\A t \in Threads :
           /\ pc[t] = "read_done" /\ result[t].status = "Sample"
           /\ pc'[t] = "callback" \/ (pc'[t] = "idle" /\ iter'[t] # 0)
           => result[t].sample = IF t \in Apps THEN iter[t] ELSE run[t].token]_vars
  BY OwnSample DEF PyInv, TokenOf
<1> QED BY <1>1, PyInvariant, PTL DEF Spec, OwnRunOnly
=============================================================================
