--------------------------- MODULE SampleQueueUse ---------------------------
(***************************************************************************)
(* The sample queue in use: one producer (the receive worker), readers     *)
(* that capture the queue's generation and then read, and a controller     *)
(* that closes and resets the queue, in any order.  Sample n is the n-th   *)
(* one pushed, counting from 0.                                            *)
(***************************************************************************)
EXTENDS SampleQueue

CONSTANTS
  Readers,
  MaxPushes,   \* bound: samples produced
  MaxCloses    \* bound: close() calls

ASSUME BoundsNat == MaxPushes \in Nat /\ MaxCloses \in Nat

VARIABLES
  pushed,      \* samples pushed so far
  last_read,   \* the sample read last, plus one
  captured,    \* captured[r]: the generation reader r holds, or Idle
  closes_seen, \* history: closes_seen[r]: close() calls since r captured
  pushed_run,  \* history: samples pushed since the last reset()
  read_run     \* history: samples read since the last reset()

useVars == <<queueVars, pushed, last_read, captured, closes_seen, pushed_run,
             read_run>>

Idle == MaxCloses + 1

UseInit ==
  /\ QueueInit
  /\ pushed = 0
  /\ last_read = 0
  /\ captured = [r \in Readers |-> Idle]
  /\ closes_seen = [r \in Readers |-> 0]
  /\ pushed_run = 0
  /\ read_run = 0

Produce ==
  /\ pushed < MaxPushes
  /\ Push(pushed)
  /\ pushed' = pushed + 1
  /\ pushed_run' = pushed_run + 1
  /\ UNCHANGED <<last_read, captured, closes_seen, read_run>>

(* generation(), or the first line of the one-argument read_for().         *)
Capture(r) ==
  /\ captured[r] = Idle
  /\ captured' = [captured EXCEPT ![r] = close_generation_]
  /\ closes_seen' = [closes_seen EXCEPT ![r] = 0]
  /\ UNCHANGED <<queueVars, pushed, last_read, pushed_run, read_run>>

(* The read returns Timeout.  (Reading again with the same generation, as  *)
(* NativeClient does, changes nothing and is a stuttering step.)           *)
TimedOut(r) ==
  /\ captured[r] # Idle
  /\ ReadTimeout(captured[r])
  /\ captured' = [captured EXCEPT ![r] = Idle]
  /\ UNCHANGED <<pushed, last_read, closes_seen, pushed_run, read_run>>

SawClose(r) ==
  /\ captured[r] # Idle
  /\ ReadClosed(captured[r])
  /\ captured' = [captured EXCEPT ![r] = Idle]
  /\ UNCHANGED <<pushed, last_read, closes_seen, pushed_run, read_run>>

GotSample(r) ==
  /\ captured[r] # Idle
  /\ samples_ # <<>>
  /\ ReadSample(captured[r], Head(samples_))
  /\ last_read' = Head(samples_) + 1
  /\ read_run' = read_run + 1
  /\ captured' = [captured EXCEPT ![r] = Idle]
  /\ UNCHANGED <<pushed, closes_seen, pushed_run>>

CloseCall ==
  /\ close_generation_ < MaxCloses
  /\ CloseQueue
  /\ closes_seen' = [r \in Readers |-> closes_seen[r] + 1]
  /\ UNCHANGED <<pushed, last_read, captured, pushed_run, read_run>>

ResetCall ==
  /\ ResetQueue
  /\ pushed_run' = 0
  /\ read_run' = 0
  /\ UNCHANGED <<pushed, last_read, captured, closes_seen>>

UseNext ==
  \/ Produce \/ CloseCall \/ ResetCall
  \/ \E r \in Readers : Capture(r) \/ TimedOut(r) \/ SawClose(r) \/ GotSample(r)

UseSpec == UseInit /\ [][UseNext]_useVars

-----------------------------------------------------------------------------
(* Properties                                                              *)

(* The queue's fields keep their types and the queue its capacity.         *)
UseTypeOK ==
  /\ samples_ \in Seq(Nat)
  /\ Len(samples_) <= Capacity
  /\ dropped_count_ \in Nat
  /\ closed_ \in BOOLEAN
  /\ close_generation_ \in Nat
  /\ pushed \in Nat
  /\ last_read \in Nat
  /\ captured \in [Readers -> Nat]
  /\ closes_seen \in [Readers -> Nat]
  /\ pushed_run \in Nat
  /\ read_run \in Nat

(* Nothing is lost unaccounted: what was pushed since the last reset() was *)
(* read, was counted as dropped, or is still there.                        *)
Conservation == pushed_run = read_run + dropped_count_ + Len(samples_)

(* A reader is never given a sample once close() has been called after it  *)
(* began, even if reset() reopened the queue in between and new samples    *)
(* arrived (test BlockedReaderObservesCloseAcrossImmediateReset).          *)
CloseReachesReaders ==
  [][\A r \in Readers : GotSample(r) => closes_seen[r] = 0]_useVars

Window == INSTANCE SlidingWindow
  WITH lo <- pushed - Len(samples_), hi <- pushed, lost <- dropped_count_,
       out <- last_read

(* The queue behaves as a sliding window over the samples produced: first  *)
(* in first out, each sample at most once, and always the newest ones.     *)
WindowRefinement == Window!WindowSpec
=============================================================================
