------------------------------ MODULE PyClient ------------------------------
(***************************************************************************)
(* The Python client (src/pynetft/client.py) over the native binding.      *)
(* Application threads start, stop and wait for the client and read its    *)
(* iterator; a callback run has a dispatcher thread that reads the queue   *)
(* and calls the user's callback, which may stop the client.               *)
(*                                                                         *)
(* A step is one `with self._lock` block.  Where such a block calls the    *)
(* native start() or stop(), the lock is held across the steps of that     *)
(* call, which readers outside the lock can tell apart.  A local variable  *)
(* is reset when it goes out of scope.                                     *)
(***************************************************************************)
EXTENDS NativeClient

CONSTANTS
  None,        \* Python's None, and the holder of a free lock
  MaxCalls     \* bound: API calls made

ASSUME MaxCallsNat == MaxCalls \in Nat

(* A dispatcher is no application thread, and None is no thread.           *)
ASSUME ThreadsApart == Apps \cap Dispatchers = {} /\ None \notin Threads

VARIABLES
  _lock, _running, _mode, _run_token,
  _callback_run,  \* the _CallbackRun (its dispatcher), or 0
  then,           \* where the call that holds _lock goes after native.stop()
  objects,        \* _CallbackRun objects created so far
  run,            \* run[d]: token, activation, thread and error of a run
  requested,      \* requested[p]: the mode of p's start()
  joining,        \* joining[t]: the run that a call is about to join, or 0
  iter,           \* iter[p]: the token of p's iterator, or 0
  stop_token,     \* history: stop_token[t]: the last run when t called stop()
  stopped,        \* history: callback runs that a stop() call has ended
  calls           \* API calls still allowed

lockVars   == <<_lock, _running, then>>
clientVars == <<lockVars, _mode, _run_token, _callback_run>>
runVars    == <<objects, run>>
callVars   == <<requested, joining, iter>>
history    == <<stop_token, stopped>>
pyVars     == <<clientVars, runVars, callVars, history, calls>>
vars       == <<nativeVars, result, pc, pyVars>>

NoRun == [token |-> 0, activation |-> "unset", thread |-> FALSE, error |-> "none"]

Init ==
  /\ NativeInit
  /\ _lock = None /\ _running = FALSE /\ _mode = None /\ _run_token = 0
  /\ _callback_run = 0 /\ then = "none" /\ objects = 0
  /\ run = [d \in Dispatchers |-> NoRun]
  /\ pc = [t \in Threads |-> IF t \in Apps THEN "idle" ELSE "new"]
  /\ requested = [p \in Apps |-> None]
  /\ joining = [t \in Threads |-> 0]
  /\ iter = [p \in Apps |-> 0]
  /\ stop_token = [t \in Threads |-> 0]
  /\ stopped = {} /\ calls = MaxCalls

-----------------------------------------------------------------------------
(* Building blocks                                                         *)

Free == _lock = None

(* Where an API call returns to: a dispatcher calls from its callback.     *)
Return(t) == IF t \in Apps THEN "idle" ELSE "callback"

IteratorIsCurrent(token) == _running /\ _mode = "iterator" /\ _run_token = token

CallbackRunIsCurrent(d) ==
  _running /\ _mode = "callback" /\ _run_token = run[d].token /\ _callback_run = d

(* _stop_locked() on a running client: native.stop(), then go to label.    *)
StopLocked(t, label) ==
  /\ _running' = FALSE
  /\ _lock' = t
  /\ then' = label
  /\ Goto(t, "native_stop")

(* Lines 506-507 and the end of the `with` block.                          *)
StopLockedEnds(t) ==
  /\ NativeStopCore(t, then)
  /\ _mode' = None
  /\ _lock' = None
  /\ then' = "none"
  /\ UNCHANGED <<_running, _run_token, _callback_run, runVars, callVars, history,
                 calls>>

(* A run whose dispatcher thread nobody has joined yet.                    *)
MustJoin == _callback_run # 0 /\ run[_callback_run].thread

(* thread.join() returned: forget the thread if the run is still the last. *)
Joined(t) ==
  /\ pc[joining[t]] = "done"
  /\ Free
  /\ run' = IF _callback_run = joining[t]
            THEN [run EXCEPT ![joining[t]].thread = FALSE] ELSE run
  /\ joining' = [joining EXCEPT ![t] = 0]
  /\ UNCHANGED <<clientVars, objects, requested, iter, history>>

-----------------------------------------------------------------------------
(* Calling the API: an application thread, or a user callback.             *)

Call(t) ==
  /\ calls > 0
  /\ calls' = calls - 1
  /\ \/ /\ pc[t] = "idle"
        /\ \/ /\ \E mode \in {"iterator", "callback"} :
                   requested' = [requested EXCEPT ![t] = mode]
              /\ Goto(t, "start")
           \/ /\ \E label \in {"stop", "samples", "wait"} : Goto(t, label)
              /\ UNCHANGED requested
           \/ iter[t] # 0 /\ Goto(t, "next") /\ UNCHANGED requested
     \/ pc[t] = "callback" /\ Goto(t, "stop") /\ UNCHANGED requested
  /\ UNCHANGED <<nativeVars, result, clientVars, runVars, joining, iter, history>>

-----------------------------------------------------------------------------
(* start()                                                                 *)

(* _start_iterator_locked(), up to native.start().                         *)
StartIteratorLocked(p) ==
  /\ requested[p] = "iterator"
  /\ _lock' = p
  /\ Goto(p, "native_start")
  /\ UNCHANGED <<runVars, requested>>

(* _start_callback_locked(), up to native.start(): the dispatcher waits    *)
(* for its activation.  Creating it may fail, and that is all.             *)
StartCallbackLocked(p) ==
  /\ requested[p] = "callback"
  /\ \/ /\ requested' = [requested EXCEPT ![p] = None]
        /\ Goto(p, "idle")
        /\ UNCHANGED <<_lock, runVars>>
     \/ /\ objects < MaxRuns
        /\ objects' = objects + 1
        /\ run' = [run EXCEPT ![objects'] =
                     [NoRun EXCEPT !.token = _run_token + 1, !.thread = TRUE]]
        /\ _lock' = p
        /\ pc' = [pc EXCEPT ![p] = "native_start", ![objects'] = "await"]
        /\ UNCHANGED requested

(* Lines 104-122: ignore the call, join the last dispatcher first, or      *)
(* begin to start.                                                         *)
Start(p) ==
  /\ pc[p] = "start"
  /\ Free
  /\ \/ /\ _running
        /\ requested' = [requested EXCEPT ![p] = None]
        /\ Goto(p, "idle")
        /\ UNCHANGED <<_lock, runVars, joining>>
     \/ /\ ~_running /\ MustJoin
        /\ joining' = [joining EXCEPT ![p] = _callback_run]
        /\ Goto(p, "start_join")
        /\ UNCHANGED <<_lock, runVars, requested>>
     \/ /\ ~_running /\ ~MustJoin
        /\ StartIteratorLocked(p) \/ StartCallbackLocked(p)
        /\ UNCHANGED joining
  /\ UNCHANGED <<_running, _mode, _run_token, _callback_run, then, iter, history>>

(* Lines 123-132, and again from the top.                                  *)
StartJoin(p) ==
  /\ pc[p] = "start_join"
  /\ Joined(p)
  /\ Goto(p, "start")

(* Lines 276-279, 338-343: the run becomes the current one.                *)
StartCommit(p) ==
  /\ pc[p] = "start_commit"
  /\ _running' = TRUE
  /\ _mode' = requested[p]
  /\ _run_token' = _run_token + 1
  /\ \/ requested[p] = "iterator" /\ _callback_run' = 0 /\ UNCHANGED run
     \/ /\ requested[p] = "callback"
        /\ _callback_run' = objects
        /\ run' = [run EXCEPT ![objects].activation = "active"]
  /\ requested' = [requested EXCEPT ![p] = None]
  /\ _lock' = None
  /\ Goto(p, "idle")
  /\ UNCHANGED <<then, objects, joining, iter, history>>

(* Mutant: a failed start() forgets the waiting dispatcher.                *)
CancelForgotten(d) == UNCHANGED run

Cancel(d) == run' = [run EXCEPT ![d].activation = "cancelled"]

(* Lines 280-287, 344-358: cancel the dispatcher and stop the native       *)
(* client; lines 360-363 then join the dispatcher without the lock.        *)
StartFailed(p) ==
  /\ pc[p] = "start_failed"
  /\ Goto(p, "native_stop")
  /\ \/ requested[p] = "iterator" /\ then' = "idle" /\ UNCHANGED <<run, joining>>
     \/ /\ requested[p] = "callback"
        /\ Cancel(objects)
        /\ joining' = [joining EXCEPT ![p] = objects]
        /\ then' = "failed_join"
  /\ requested' = [requested EXCEPT ![p] = None]
  /\ UNCHANGED <<_lock, _running, _mode, _run_token, _callback_run, objects, iter,
                 history>>

FailedJoin(p) ==
  /\ pc[p] = "failed_join"
  /\ pc[joining[p]] = "done"
  /\ joining' = [joining EXCEPT ![p] = 0]
  /\ Goto(p, "idle")
  /\ UNCHANGED <<clientVars, runVars, requested, iter, history>>

-----------------------------------------------------------------------------
(* stop(), by an application thread or by a callback                       *)

(* Mutants: only a call that ends the run joins; a callback joins itself.  *)
ToJoinIfRunning(t) ==
  IF _running /\ MustJoin /\ _callback_run # t THEN _callback_run ELSE 0

ToJoinAnyone(t) == IF MustJoin THEN _callback_run ELSE 0

(* Lines 142-148: every dispatcher but the caller itself.                  *)
ToJoin(t) == IF MustJoin /\ _callback_run # t THEN _callback_run ELSE 0

(* Lines 138-148.                                                          *)
Stop(t) ==
  /\ pc[t] = "stop"
  /\ Free
  /\ joining' = [joining EXCEPT ![t] = ToJoin(t)]
  /\ LET label == IF ToJoin(t) # 0 THEN "stop_join" ELSE Return(t) IN
     \/ _running /\ StopLocked(t, label)
     \/ ~_running /\ Goto(t, label) /\ UNCHANGED lockVars
  /\ stop_token' = [stop_token EXCEPT ![t] = _run_token]
  /\ stopped' = IF _running THEN stopped \cup {_callback_run} ELSE stopped
  /\ UNCHANGED <<_mode, _run_token, _callback_run, runVars, requested, iter>>

(* Lines 149-157.                                                          *)
StopJoin(t) ==
  /\ pc[t] = "stop_join"
  /\ Joined(t)
  /\ Goto(t, Return(t))

-----------------------------------------------------------------------------
(* wait(), without a timeout                                               *)

(* Lines 192-195.                                                          *)
Wait(p) ==
  /\ pc[p] = "wait"
  /\ Free
  /\ \/ /\ _callback_run = 0 \/ _mode = "iterator"
        /\ Goto(p, "idle")
        /\ UNCHANGED joining
     \/ /\ _callback_run # 0 /\ _mode # "iterator"
        /\ joining' = [joining EXCEPT ![p] = _callback_run]
        /\ Goto(p, "waiting")
  /\ UNCHANGED <<clientVars, runVars, requested, iter, history>>

(* Lines 198-201: returns, or raises the run's error.                      *)
Waited(p) ==
  /\ pc[p] = "waiting"
  /\ pc[joining[p]] = "done"
  /\ joining' = [joining EXCEPT ![p] = 0]
  /\ Goto(p, "idle")
  /\ UNCHANGED <<clientVars, runVars, requested, iter, history>>

-----------------------------------------------------------------------------
(* Iterator delivery                                                       *)

(* Lines 175-182.                                                          *)
Samples(p) ==
  /\ pc[p] = "samples"
  /\ Free
  /\ Goto(p, "idle")
  /\ \/ _mode = "callback" /\ UNCHANGED <<_mode, iter>>
     \/ /\ _mode # "callback"
        /\ _mode' = "iterator"
        /\ iter' = [iter EXCEPT ![p] = _run_token]
  /\ UNCHANGED <<lockVars, _run_token, _callback_run, runVars, requested, joining,
                 history>>

iterFrame == <<_mode, _run_token, _callback_run, runVars, requested, joining, history>>

EndIterator(p) == iter' = [iter EXCEPT ![p] = 0] /\ Goto(p, "idle")

(* Line 210.                                                               *)
IterNext(p) ==
  /\ pc[p] = "next"
  /\ Free
  /\ \/ IteratorIsCurrent(iter[p]) /\ Goto(p, "read") /\ UNCHANGED iter
     \/ ~IteratorIsCurrent(iter[p]) /\ EndIterator(p)
  /\ UNCHANGED <<iterFrame, lockVars>>

(* Mutant: the sample is yielded without looking at the run again.         *)
AnyRun(p) == TRUE

(* Line 215.                                                               *)
CurrentAfterRead(p) == IteratorIsCurrent(iter[p])

(* Lines 215-224: discard, raise TimeoutError, yield the sample, or look   *)
(* why the queue is closed.                                                *)
IterReturn(p) ==
  /\ pc[p] = "read_done"
  /\ Free
  /\ LET status == result[p].status IN
     \/ (~CurrentAfterRead(p) \/ status = "Timeout") /\ EndIterator(p)
     \/ /\ CurrentAfterRead(p) /\ status # "Timeout"
        /\ Goto(p, IF status = "Sample" THEN "idle" ELSE "closed")
        /\ UNCHANGED iter
  /\ result' = [result EXCEPT ![p] = NoResult]
  /\ UNCHANGED <<iterFrame, lockVars>>

(* Lines 225-228 and 238-250: stop and raise SensorFaultError, or end.     *)
IterClosed(p) ==
  /\ pc[p] = "closed"
  /\ Free
  /\ \/ /\ IteratorIsCurrent(iter[p]) /\ core_faulted
        /\ StopLocked(p, "idle")
        /\ iter' = [iter EXCEPT ![p] = 0]
     \/ /\ ~(IteratorIsCurrent(iter[p]) /\ core_faulted)
        /\ EndIterator(p)
        /\ UNCHANGED lockVars
  /\ UNCHANGED iterFrame

-----------------------------------------------------------------------------
(* Callback delivery: the dispatcher                                       *)

dispatchFrame == <<_mode, _run_token, _callback_run, objects, callVars, history>>

(* Lines 371-378.                                                          *)
Await(d) ==
  /\ pc[d] = "await"
  /\ run[d].activation # "unset"
  /\ Goto(d, IF run[d].activation = "active" THEN "check" ELSE "finish")
  /\ UNCHANGED <<dispatchFrame, lockVars, run>>

(* Lines 381-389.                                                          *)
Check(d) ==
  /\ pc[d] = "check"
  /\ Free
  /\ Goto(d, IF CallbackRunIsCurrent(d) THEN "read" ELSE "finish")
  /\ UNCHANGED <<dispatchFrame, lockVars, run>>

(* Lines 393-409, 421: discard, call back, or look why the queue closed.   *)
DispatchReturn(d) ==
  /\ pc[d] = "read_done"
  /\ Free
  /\ Goto(d, IF ~CallbackRunIsCurrent(d) THEN "finish"
             ELSE CASE result[d].status = "Sample" -> "callback"
                    [] result[d].status = "Closed" -> "closed")
  /\ result' = [result EXCEPT ![d] = NoResult]
  /\ UNCHANGED <<dispatchFrame, lockVars, run>>

(* Lines 413-416, or 410-412.                                              *)
CallbackEnds(d) ==
  /\ pc[d] = "callback"
  /\ \E label \in {"check", "record_error"} : Goto(d, label)
  /\ UNCHANGED <<dispatchFrame, lockVars, run>>

(* Mutant: the run's error is not kept.                                    *)
RecordNothing(d, error) == UNCHANGED run

Record(d, error) ==
  run' = IF run[d].error = "none" THEN [run EXCEPT ![d].error = error] ELSE run

StopIfCurrent(d) ==
  \/ CallbackRunIsCurrent(d) /\ StopLocked(d, "finish")
  \/ ~CallbackRunIsCurrent(d) /\ Goto(d, "finish") /\ UNCHANGED lockVars

(* Lines 459-471.                                                          *)
RecordError(d) ==
  /\ pc[d] = "record_error"
  /\ Free
  /\ Record(d, "callback")
  /\ StopIfCurrent(d)
  /\ UNCHANGED dispatchFrame

(* Lines 473-484.                                                          *)
FinishCallbackClosed(d) ==
  /\ pc[d] = "closed"
  /\ Free
  /\ IF CallbackRunIsCurrent(d) /\ core_faulted
     THEN Record(d, "fault") ELSE UNCHANGED run
  /\ StopIfCurrent(d)
  /\ UNCHANGED dispatchFrame

(* Lines 441-445, and the thread ends.                                     *)
Finish(d) ==
  /\ pc[d] = "finish"
  /\ Goto(d, "done")
  /\ UNCHANGED <<dispatchFrame, lockVars, run>>

-----------------------------------------------------------------------------
AppStep(p) ==
  \/ Start(p) \/ StartJoin(p) \/ StartCommit(p) \/ StartFailed(p) \/ FailedJoin(p)
  \/ Wait(p) \/ Waited(p)
  \/ Samples(p) \/ IterNext(p) \/ IterClosed(p)

DispatcherStep(d) ==
  \/ Await(d) \/ Check(d) \/ CallbackEnds(d) \/ RecordError(d)
  \/ FinishCallbackClosed(d) \/ Finish(d)

PyStep(t) ==
  /\ \/ Stop(t) \/ StopJoin(t)
     \/ t \in Apps /\ AppStep(t)
     \/ t \in Dispatchers /\ DispatcherStep(t)
  /\ UNCHANGED <<nativeVars, result, calls>>

ReadReturned(t) ==
  /\ \/ t \in Apps /\ IterReturn(t)
     \/ t \in Dispatchers /\ DispatchReturn(t)
  /\ UNCHANGED <<nativeVars, calls>>

ThreadStep(t) ==
  \/ NativeStep(t) /\ UNCHANGED pyVars
  \/ StopLockedEnds(t)
  \/ PyStep(t)
  \/ ReadReturned(t)

Next ==
  \/ (CorePush \/ CoreFault) /\ UNCHANGED pyVars
  \/ \E t \in Threads : Call(t) \/ ThreadStep(t)

Spec == Init /\ [][Next]_vars

(* Every thread runs, a slice of waiting ends, callbacks return.  The      *)
(* application need not call and the sensor need not send.                 *)
FairSpec == Spec /\ \A t \in Threads : WF_vars(ThreadStep(t))

-----------------------------------------------------------------------------
(* Properties                                                              *)

StopLabels == {"stop", "stop_join", "native_stop", "native_stop_core"}

(* A sample handed to the user, yielded by an iterator or passed to a      *)
(* callback, belongs to the run that the consumer was made for, whatever   *)
(* was stopped and restarted while the consumer was inside native.read().  *)
OwnRunOnly ==
  [][\A t \in Threads :
       /\ pc[t] = "read_done" /\ result[t].status = "Sample"
       /\ pc'[t] = "callback" \/ (pc'[t] = "idle" /\ iter'[t] # 0)
       => result[t].sample = IF t \in Apps THEN iter[t] ELSE run[t].token]_vars

(* When Client.stop() has returned to an application thread, the           *)
(* dispatcher of every run started before it is over: no callback is       *)
(* running or will run, also when another thread, or the callback itself,  *)
(* had already stopped the run.                                            *)
StopLeavesNoCallback ==
  \A p \in Apps, d \in Dispatchers :
    /\ pc[p] \notin StopLabels
    /\ run[d].activation = "active"
    /\ run[d].token <= stop_token[p]
    => pc[d] = "done"

(* A callback run that was not stopped by a stop() call ends with an error *)
(* that wait() and raise_if_failed() report: delivery never just ceases.   *)
NoSilentEnd ==
  \A d \in Dispatchers :
    pc[d] = "done" /\ run[d].activation = "active" /\ d \notin stopped
    => run[d].error # "none"

(* A consumer told that the queue is closed while its run is still the     *)
(* current one is in a run that faulted: so the iterator never ends        *)
(* quietly, and the dispatcher never stops without a failure, under a run  *)
(* that is still delivering.                                               *)
ClosedMeansFault ==
  \A t \in Threads :
    /\ pc[t] = "closed" /\ Free
    /\ IF t \in Apps THEN IteratorIsCurrent(iter[t]) ELSE CallbackRunIsCurrent(t)
    => core_faulted

(* The native client and the core are at rest whenever Python starts them: *)
(* no earlier run can push into the queue that is being reset, and the     *)
(* core's start() never meets a worker that is still exiting.              *)
CleanStart ==
  \A p \in Apps :
    pc[p] \in {"native_start", "native_reset", "native_spawn"}
    => ~core_live /\ ~running_

(* test_client.py's stale iterator test: an iterator of an earlier run     *)
(* takes no sample out of the queue of a later one.                        *)
StaleIteratorDoesNotConsume ==
  \A p \in Apps :
    pc[p] = "read_done" /\ result[p].status = "Sample"
    => result[p].sample = iter[p]

(* stop() returns, from an application thread and from a callback, while   *)
(* other threads start, stop, wait and read.                               *)
StopCallReturns ==
  \A t \in Threads : pc[t] = "stop" ~> pc[t] = Return(t)

(* start() returns, also when it must first join the dispatcher of the     *)
(* last run or fails with a dispatcher already waiting to be activated.    *)
StartCallReturns ==
  \A p \in Apps : pc[p] = "start" ~> pc[p] = "idle"

(* A core fault ends a callback run: the dispatcher, even one blocked on   *)
(* an empty queue that nobody closes, finds the fault and stops the run.   *)
FaultEndsCallbackRun ==
  core_faulted /\ _running /\ _mode = "callback" ~> ~_running
=============================================================================
